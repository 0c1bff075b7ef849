------------------------------- MODULE Calendar -------------------------------
(***************************************************************************)
(* Recurring work: CalendarService.createTemplate, changeTemplate and       *)
(* evaluateDueOccurrences over the Calendar store, submitting jobs to Relay *)
(* under one idempotency key per occurrence.                                *)
(*                                                                          *)
(* An evaluation reads the time once, then takes the listed templates one   *)
(* after the other under the template's lock; it awaits Relay's getJob and  *)
(* accept, and meanwhile other evaluations, edits of templates and jobs go  *)
(* on.  All it reads of a template after taking the lock is protected by    *)
(* the lock, so its synchronous stretches are cut into the small steps      *)
(* below without a change of meaning; between the reading of the time and   *)
(* the lock any other template of the list may have been awaited.           *)
(*                                                                          *)
(* An occurrence is a template and a scheduled instant (window): the store  *)
(* keeps at most one per pair and the idempotency key is a hash of it.      *)
(* Time is the store's high water mark: whatever the wall clock says, an    *)
(* evaluation is given some time not before the latest one.                 *)
(***************************************************************************)
EXTENDS Integers, FiniteSets, FiniteSetsExt

CONSTANTS
  Templates,
  Evaluators,    \* calls of evaluateDueOccurrences that may be in progress
  None,          \* null
  MaxTime,       \* bound on trusted time
  Schedules,     \* fixed interval schedules: [anchor, interval]
  MaxRevision,   \* bound on template revisions: templates may be edited for ever
  MaxAttempts,   \* MAX_SUBMISSION_ATTEMPTS
  ReviewAfter,   \* REVIEW_REQUIRED_AFTER_MISSED_WINDOWS
  Faults         \* what may fail, see CalendarFaults

\* "lost"      accept throws or gives no usable answer, the job created or not
\* "refused"   accept answers CONFLICT or REJECTED
\* "lookup"    getJob throws or answers something that is not the job
\* "evidence"  the evidence append after a change of the store throws
CalendarFaults == {"lost", "refused", "lookup", "evidence"}

ASSUME CalendarAssumption ==
  /\ MaxTime \in Nat /\ MaxRevision \in Nat \ {0}
  /\ MaxAttempts \in Nat \ {0} /\ ReviewAfter \in Nat \ {0}
  /\ Schedules \subseteq [anchor : 0..MaxTime, interval : 1..MaxTime]
  /\ Faults \subseteq CalendarFaults
  /\ None \notin Templates \cup Evaluators

Instants == 0..MaxTime
Never == -1

VARIABLES
  time,        \* the store's high water mark
  templates,   \* recurring-template records
  occ,         \* recurring-occurrence records, by template and window
  lock,        \* #locks: the evaluation that holds a template
  checkpoint,  \* last_evaluated_at of the template's checkpoint
  job,         \* Relay: the job created under the occurrence's key
  ev           \* evaluations: program counter and local variables

records     == <<time, templates>>
calendarVars == <<time, templates, occ, lock, checkpoint, job, ev>>

Policies == {"SKIP", "RUN_ONCE_FOR_MISSED_WINDOW"}
OpenStatuses == {"DUE", "SUBMISSION_PENDING"}
Statuses == OpenStatuses \cup {"SUBMITTED", "SKIPPED", "REVIEW_REQUIRED"}

NoSchedule == [anchor |-> 0, interval |-> 0]

Template ==
  [ status   : {"ABSENT", "ACTIVE", "PAUSED", "RETIRED"},
    revision : 0..MaxRevision,
    schedule : Schedules \cup {NoSchedule},
    policy   : Policies ]

NoTemplate ==
  [status |-> "ABSENT", revision |-> 0, schedule |-> NoSchedule, policy |-> "SKIP"]

Occurrence == [status : Statuses \cup {"none"}, attempts : 0..MaxAttempts]

NoOccurrence == [status |-> "none", attempts |-> 0]

Points ==
  { "idle", "next", "retry", "priors", "lookup", "accept", "scan", "checkpoint" }

Evaluation ==
  [ pc       : Points,
    now      : Instants,
    todo     : SUBSET Templates,       \* listed ACTIVE templates not yet taken
    template : Templates \cup {None},  \* the template it holds
    pending  : SUBSET Instants,        \* open occurrences still to be retried
    window   : Instants,               \* the occurrence in #process
    priors   : SUBSET Instants,        \* predecessors #process still has to look at
    seen     : {"none", "live", "ended"},  \* the job getJob answers with
    resume   : {"retry", "checkpoint"} ]   \* where #process was called from

Idle ==
  [ pc |-> "idle", now |-> 0, todo |-> {}, template |-> None, pending |-> {},
    window |-> 0, priors |-> {}, seen |-> "none", resume |-> "retry" ]

At(e, pc) == ev[e].pc = pc
Goto(e, pc) == ev' = [ev EXCEPT ![e].pc = pc]
May(fault) == fault \in Faults

With(t, statuses) == {w \in Instants : occ[t][w].status \in statuses}

-----------------------------------------------------------------------------
(* createTemplate and changeTemplate.  The store refuses a template that is *)
(* being evaluated (EVALUATION_IN_PROGRESS), a RETIRED one and a stale      *)
(* expected revision.                                                       *)

CreateTemplate(t) ==
  /\ templates[t].status = "ABSENT"
  /\ lock[t] = None
  /\ \E schedule \in Schedules, policy \in Policies :
       templates' = [templates EXCEPT ![t] =
         [status |-> "ACTIVE", revision |-> 1, schedule |-> schedule, policy |-> policy]]
  /\ time' \in time..MaxTime
  /\ UNCHANGED <<occ, lock, checkpoint, job, ev>>

\* Mutant of Editable: a template may be edited while it is evaluated.
EditableAnyTime(t) == templates[t].status \in {"ACTIVE", "PAUSED"}

Editable(t) ==
  /\ templates[t].status \in {"ACTIVE", "PAUSED"}
  /\ lock[t] = None

ChangeTemplate(t) ==
  /\ Editable(t)
  /\ templates[t].revision < MaxRevision
  /\ \E status \in {"ACTIVE", "PAUSED", "RETIRED"}, schedule \in Schedules, policy \in Policies :
       templates' = [templates EXCEPT ![t] =
         [ status |-> status, revision |-> templates[t].revision + 1,
           schedule |-> schedule, policy |-> policy ]]
  /\ time' \in time..MaxTime
  /\ UNCHANGED <<occ, lock, checkpoint, job, ev>>

-----------------------------------------------------------------------------
(* evaluateDueOccurrences: the loop over the listed templates.              *)

\* The evaluation, between templates or over.
Remaining(now, todo) ==
  IF todo = {} THEN Idle ELSE [Idle EXCEPT !.pc = "next", !.now = now, !.todo = todo]

Begin(e) ==
  /\ At(e, "idle")
  /\ time' \in time..MaxTime
  /\ ev' = [ev EXCEPT ![e] =
             Remaining(time', {t \in Templates : templates[t].status = "ACTIVE"})]
  /\ UNCHANGED <<templates, occ, lock, checkpoint, job>>

\* Mutant of Takable: two evaluations may hold one template.
TakableUnlocked(t) ==
  templates[t].status = "ACTIVE" /\ With(t, {"REVIEW_REQUIRED"}) = {}

\* A template that is locked, no longer ACTIVE, or waiting for review is
\* passed over.
Takable(t) ==
  /\ lock[t] = None
  /\ templates[t].status = "ACTIVE"
  /\ With(t, {"REVIEW_REQUIRED"}) = {}

TakeTemplate(e) ==
  /\ At(e, "next")
  /\ \E t \in ev[e].todo :
       IF Takable(t)
         THEN /\ lock' = [lock EXCEPT ![t] = e]
              /\ ev' = [ev EXCEPT ![e].pc       = "retry",
                                  ![e].todo     = @ \ {t},
                                  ![e].template = t,
                                  ![e].pending  = With(t, OpenStatuses)]
         ELSE /\ ev' = [ev EXCEPT ![e] = Remaining(@.now, @.todo \ {t})]
              /\ UNCHANGED lock
  /\ UNCHANGED <<records, occ, checkpoint, job>>

\* The finally block gives the template back if the token is still the
\* evaluation's, on the way to the next template ...
Unlocked(e) == [lock EXCEPT ![ev[e].template] = IF @ = e THEN None ELSE @]

Leave(e) ==
  /\ lock' = Unlocked(e)
  /\ ev' = [ev EXCEPT ![e] = Remaining(@.now, @.todo)]

\* ... and on the way out of the evaluation, when something threw.
Abort(e) ==
  /\ lock' = Unlocked(e)
  /\ ev' = [ev EXCEPT ![e] = Idle]

\* The append of evidence, which may throw.
Continue(e, next) ==
  \/ ev' = next /\ UNCHANGED lock
  \/ May("evidence") /\ Abort(e)

Status(e, w) == occ[ev[e].template][w].status
Tries(e) == occ[ev[e].template][ev[e].window].attempts

SetOccurrence(e, w, status, attempts) ==
  occ' = [occ EXCEPT ![ev[e].template][w] = [status |-> status, attempts |-> attempts]]

\* updateOccurrence: by the holder of the template, of an occurrence that is
\* still open.  Under the lock its revision is the one that was read.
Updatable(e, w) == lock[ev[e].template] = e /\ Status(e, w) \in OpenStatuses

\* #update: a change of the store, then its evidence; a refusal throws.
Update(e, status, attempts, next) ==
  IF Updatable(e, ev[e].window)
    THEN SetOccurrence(e, ev[e].window, status, attempts) /\ Continue(e, next)
    ELSE Abort(e) /\ UNCHANGED occ

\* Calls #process for the occurrence w of the template, which has priors.
Process(e, w, resume) ==
  [ev EXCEPT ![e].pc     = "priors",
             ![e].window = w,
             ![e].priors = With(ev[e].template, Statuses \ {"SKIPPED"}) \ {w},
             ![e].resume = resume]

\* The open occurrences found are retried, then the history is read again.
\* At most one is open, and the answers about predecessors lead to the same
\* outcomes in any order: both are taken by instant.
RetryPending(e) ==
  /\ At(e, "retry")
  /\ LET pending == ev[e].pending IN
       IF pending = {} THEN Goto(e, "scan")
       ELSE ev' = [Process(e, Min(pending), "retry") EXCEPT ![e].pending = @ \ {Min(pending)}]
  /\ UNCHANGED <<records, occ, lock, checkpoint, job>>

-----------------------------------------------------------------------------
(* #process                                                                 *)

\* #process returns with the occurrence in a new status.
Settle(e, status) ==
  Update(e, status, Tries(e), [ev EXCEPT ![e].pc = ev[e].resume, ![e].priors = {}])

\* The next predecessor.  One that is not SUBMITTED blocks: its submission may
\* have created a job.  Else Relay is asked for its job.
CheckPrior(e) ==
  /\ At(e, "priors")
  /\ ev[e].priors # {}
  /\ LET prior == Min(ev[e].priors) IN
       IF Status(e, prior) # "SUBMITTED"
         THEN Settle(e, "REVIEW_REQUIRED")
         ELSE /\ ev' = [ev EXCEPT ![e].pc = "lookup", ![e].seen = job[ev[e].template][prior]]
              /\ UNCHANGED <<occ, lock>>
  /\ UNCHANGED <<records, checkpoint, job>>

\* Mutant of LookupAnswered: a job that cannot be looked up is taken to be over.
LookupAnsweredTrusting(e) ==
  /\ At(e, "lookup")
  /\ \/ ev[e].seen = "live" /\ Settle(e, "SKIPPED")
     \/ /\ ev[e].seen = "ended" \/ May("lookup")
        /\ ev' = [ev EXCEPT ![e].pc     = "priors",
                            ![e].priors = @ \ {Min(@)},
                            ![e].seen   = "none"]
        /\ UNCHANGED <<occ, lock>>
  /\ UNCHANGED <<records, checkpoint, job>>

\* getJob answers.
LookupAnswered(e) ==
  /\ At(e, "lookup")
  /\ \/ /\ May("lookup") \/ ev[e].seen = "none"
        /\ Settle(e, "REVIEW_REQUIRED")
     \/ ev[e].seen = "live" /\ Settle(e, "SKIPPED")
     \/ /\ ev[e].seen = "ended"
        /\ ev' = [ev EXCEPT ![e].pc     = "priors",
                            ![e].priors = @ \ {Min(@)},
                            ![e].seen   = "none"]
        /\ UNCHANGED <<occ, lock>>
  /\ UNCHANGED <<records, checkpoint, job>>

\* Mutant of Submit: the attempt is not counted.
SubmitUncounted(e) ==
  /\ At(e, "priors")
  /\ ev[e].priors = {}
  /\ Update(e, "SUBMISSION_PENDING", Tries(e), [ev EXCEPT ![e].pc = "accept"])
  /\ UNCHANGED <<records, checkpoint, job>>

\* All predecessors are over: the attempt is counted and accept is called.
Submit(e) ==
  /\ At(e, "priors")
  /\ ev[e].priors = {}
  /\ IF Tries(e) >= MaxAttempts
       THEN Settle(e, "REVIEW_REQUIRED")
       ELSE Update(e, "SUBMISSION_PENDING", Tries(e) + 1, [ev EXCEPT ![e].pc = "accept"])
  /\ UNCHANGED <<records, checkpoint, job>>

\* Relay finds the job of the key, or creates it.
CreateJob(e) ==
  job' = [job EXCEPT ![ev[e].template][ev[e].window] = IF @ = "none" THEN "live" ELSE @]

\* Inside the try, what throws is taken for an unknown outcome: a change that
\* was stored stays stored.  At the last attempt a second update follows; it
\* is refused, and that throws.
SettleInTry(e, status) ==
  /\ IF Updatable(e, ev[e].window) THEN SetOccurrence(e, ev[e].window, status, Tries(e))
     ELSE UNCHANGED occ
  /\ \/ ev' = [ev EXCEPT ![e].pc = ev[e].resume] /\ UNCHANGED lock
     \/ May("evidence") /\ Tries(e) >= MaxAttempts /\ Abort(e)

Accepted(e) ==
  /\ At(e, "accept")
  /\ CreateJob(e)
  /\ SettleInTry(e, "SUBMITTED")
  /\ UNCHANGED <<records, checkpoint>>

Refused(e) ==
  /\ May("refused")
  /\ At(e, "accept")
  /\ SettleInTry(e, "REVIEW_REQUIRED")
  /\ UNCHANGED <<records, checkpoint, job>>

\* Mutant of GiveUp: a submission of unknown outcome is given up as skipped.
GiveUpSkips(e) == Settle(e, "SKIPPED")

\* The outcome is unknown and no attempt is left.
GiveUp(e) == Settle(e, "REVIEW_REQUIRED")

\* No usable answer: retried by a later evaluation, with the same key.
AnswerLost(e) ==
  /\ May("lost")
  /\ At(e, "accept")
  /\ CreateJob(e) \/ UNCHANGED job
  /\ IF Tries(e) >= MaxAttempts
       THEN GiveUp(e)
       ELSE Goto(e, ev[e].resume) /\ UNCHANGED <<occ, lock>>
  /\ UNCHANGED <<records, checkpoint>>

-----------------------------------------------------------------------------
(* The forward-only scan for due windows, and the checkpoint.               *)

\* Math.floor((x - anchor) / interval); \div rounds down as well.
Index(schedule, x) == (x - schedule.anchor) \div schedule.interval

WindowAt(schedule, i) == schedule.anchor + i * schedule.interval

FirstIndex(t) ==
  IF checkpoint[t] = Never THEN 0
  ELSE Max({0, Index(templates[t].schedule, checkpoint[t]) + 1})

Missed(t, now) == Max({0, Index(templates[t].schedule, now) - FirstIndex(t) + 1})

LatestWindow(t, now) == WindowAt(templates[t].schedule, Index(templates[t].schedule, now))

\* #claim: the occurrence that exists for the window, or a new one.
ClaimWindow(e, t, w, status) ==
  IF occ[t][w].status # "none"
    THEN Goto(e, "checkpoint") /\ UNCHANGED <<occ, lock>>
    ELSE /\ SetOccurrence(e, w, status, 0)
         /\ Continue(e, IF status = "DUE" THEN Process(e, w, "checkpoint")
                        ELSE [ev EXCEPT ![e].pc = "checkpoint"])

\* Mutant of Scannable: an occurrence that waits for review does not end the scan.
ScannableInReview(t) == With(t, OpenStatuses) = {}

Scannable(t) == With(t, OpenStatuses \cup {"REVIEW_REQUIRED"}) = {}

RunsOnce(t, missed) == missed = 1 \/ templates[t].policy = "RUN_ONCE_FOR_MISSED_WINDOW"

Scan(e) ==
  /\ At(e, "scan")
  /\ LET t == ev[e].template
         missed == Missed(t, ev[e].now)
         latest == LatestWindow(t, ev[e].now)
     IN \/ ~Scannable(t) /\ Leave(e) /\ UNCHANGED occ
        \/ /\ Scannable(t) /\ missed > ReviewAfter
           /\ ClaimWindow(e, t, latest, "REVIEW_REQUIRED")
        \/ /\ Scannable(t) /\ missed \in 1..ReviewAfter /\ RunsOnce(t, missed)
           /\ ClaimWindow(e, t, latest, "DUE")
        \/ /\ Scannable(t) /\ missed \in 1..ReviewAfter /\ ~RunsOnce(t, missed)
           /\ UNCHANGED occ
           /\ Continue(e, [ev EXCEPT ![e].pc = "checkpoint"])
        \/ /\ Scannable(t) /\ missed = 0
           /\ Goto(e, "checkpoint") /\ UNCHANGED <<occ, lock>>
  /\ UNCHANGED <<records, checkpoint, job>>

Advanced(t, now) == Max({checkpoint[t], now})

WriteCheckpoint(e) ==
  /\ At(e, "checkpoint")
  /\ LET t == ev[e].template IN
       checkpoint' = [checkpoint EXCEPT ![t] = Advanced(t, ev[e].now)]
  /\ Leave(e)
  /\ UNCHANGED <<records, occ, job>>

-----------------------------------------------------------------------------

\* Relay finishes a job.
JobEnds(t, w) ==
  /\ job[t][w] = "live"
  /\ job' = [job EXCEPT ![t][w] = "ended"]
  /\ UNCHANGED <<records, occ, lock, checkpoint, ev>>

CalendarInit ==
  /\ time = 0
  /\ templates = [t \in Templates |-> NoTemplate]
  /\ occ = [t \in Templates |-> [w \in Instants |-> NoOccurrence]]
  /\ lock = [t \in Templates |-> None]
  /\ checkpoint = [t \in Templates |-> Never]
  /\ job = [t \in Templates |-> [w \in Instants |-> "none"]]
  /\ ev = [e \in Evaluators |-> Idle]

\* What an evaluation in progress does next.
Step(e) ==
  \/ TakeTemplate(e) \/ RetryPending(e)
  \/ CheckPrior(e) \/ LookupAnswered(e) \/ Submit(e)
  \/ Accepted(e) \/ Refused(e) \/ AnswerLost(e)
  \/ Scan(e) \/ WriteCheckpoint(e)

CalendarNext ==
  \/ \E t \in Templates : CreateTemplate(t) \/ ChangeTemplate(t)
  \/ \E e \in Evaluators : Begin(e) \/ Step(e)
  \/ \E t \in Templates, w \in Instants : JobEnds(t, w)

CalendarSpec == CalendarInit /\ [][CalendarNext]_calendarVars

\* Evaluations keep being asked for, and promises of Relay settle.
FairCalendarSpec ==
  CalendarSpec /\ \A e \in Evaluators : WF_calendarVars(Begin(e)) /\ WF_calendarVars(Step(e))

-----------------------------------------------------------------------------
(* Properties                                                               *)

\* Records are well formed, no stamp is ahead of trusted time (observeTime),
\* and a template is locked by the one evaluation that holds it
\* (acquireTemplate, releaseTemplate).
CalendarTypeOK ==
  /\ time \in Instants
  /\ templates \in [Templates -> Template]
  /\ occ \in [Templates -> [Instants -> Occurrence]]
  /\ job \in [Templates -> [Instants -> {"none", "live", "ended"}]]
  /\ lock \in [Templates -> Evaluators \cup {None}]
  /\ checkpoint \in [Templates -> Never..time]
  /\ ev \in [Evaluators -> Evaluation]
  /\ \A e \in Evaluators : ev[e].now <= time
  /\ \A t \in Templates :
       /\ \A w \in Instants : occ[t][w].status # "none" => w <= time
       /\ \A e \in Evaluators : lock[t] = e <=> ev[e].template = t

\* "overlap SKIP": however submissions are lost, retried, refused or parked, no
\* template has two unfinished jobs.
NoOverlap ==
  \A t \in Templates, v, w \in Instants :
    job[t][v] = "live" /\ job[t][w] = "live" => v = w

\* What an occurrence says was done about it: a job exists for one that is
\* SUBMITTED, none was created for one that is SKIPPED or still DUE.
OutcomeTrue ==
  \A t \in Templates, w \in Instants :
    /\ occ[t][w].status = "SUBMITTED" => job[t][w] # "none"
    /\ occ[t][w].status \in {"SKIPPED", "DUE", "none"} => job[t][w] = "none"

\* "halts further claims" (recurring-work.test): once an occurrence of a
\* template waits for review, no occurrence of the template is claimed or
\* changed, and no job created, by any evaluation that is still under way.
ReviewParks ==
  [][\A t \in Templates : With(t, {"REVIEW_REQUIRED"}) # {} =>
       /\ occ'[t] = occ[t]
       /\ \A w \in Instants : job[t][w] = "none" => job'[t][w] = "none"]_calendarVars

\* The windows of a schedule after one instant, up to another.
WindowsIn(schedule, after, upto) ==
  {w \in (after + 1)..upto :
     w >= schedule.anchor /\ (w - schedule.anchor) % schedule.interval = 0}

\* "rollback cannot regenerate work or move the checkpoint backwards", and no due
\* window is passed over: the checkpoint only moves forward, a window is only
\* claimed after it, and when it moves on, the latest window it moves past has its
\* occurrence, unless several were missed and the template's policy skips them
\* (evaluateDueOccurrences).
WindowsTakenOnce ==
  [][\A t \in Templates :
       /\ checkpoint'[t] >= checkpoint[t]
       /\ \A w \in Instants :
            occ[t][w].status = "none" /\ occ'[t][w].status # "none"
            => checkpoint[t] < w /\ w <= time
       /\ LET due == WindowsIn(templates[t].schedule, checkpoint[t], checkpoint'[t]) IN
            checkpoint'[t] # checkpoint[t] /\ due # {} =>
              \/ occ[t][Max(due)].status # "none"
              \/ Cardinality(due) > 1 /\ templates[t].policy = "SKIP"]_calendarVars

\* No occurrence of an ACTIVE template stays open: again and again none is,
\* since every submission is settled or, after a bounded number of attempts,
\* handed to review.
OccurrencesSettle ==
  \A t \in Templates :
    []<>(templates[t].status = "ACTIVE" => With(t, OpenStatuses) = {})
=============================================================================
