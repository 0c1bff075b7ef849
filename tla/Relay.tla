-------------------------------- MODULE Relay --------------------------------
(***************************************************************************)
(* Relay running jobs: RelayService.execute and executeModelSummary with    *)
(* everything they call - the job store (RelayStore), the Scheduler, the    *)
(* Tool Gateway and its worker, Memory's approved packages and the Model    *)
(* Gateway.                                                                 *)
(*                                                                          *)
(* An attempt is one call of execute (kind "tool") or executeModelSummary   *)
(* (kind "model").  JavaScript runs one continuation at a time, so the code *)
(* between two awaits is one step; "pc" names what an attempt does next.    *)
(* A store call takes effect when it is made, its answer is acted on when   *)
(* the attempt resumes, and any other attempt may run in between: the       *)
(* adapter contracts permit every store call to return a Promise.           *)
(*                                                                          *)
(* An attempt has at most one evaluation, reservation, execution and        *)
(* context package, so the attempt's id stands for the ids generated for    *)
(* them.                                                                    *)
(***************************************************************************)
EXTENDS RelayStore, FiniteSets, Memory, ModelGateway

CONSTANTS
  Kinds,           \* kinds of attempt that are made
  Resources, Requirements, ResourceOf, None, Lease, MaxTime,  \* see Scheduler
  RequirementOf,   \* RequirementOf[j]: what the requirement provider resolves
  SchedulerWired,  \* whether Relay was built with a Scheduler
  Faults,          \* what may fail, see FaultNames
  Environment,     \* the environment of the services
  ContentOf,       \* what a fingerprint is the hash of: [capability, department]
  UntrustedOutcomes  \* what a Model Gateway may answer under the fault "outcome"

\* "eligibility"  the facts change, so that stage 1 or stage 2 refuses
\* "grant"        the grant provider denies, is invalid or throws
\* "memory"       buildContext throws or does not create a package
\* "claim"        the store rejects an invocation claim (failInvocationClaim)
\* "commit"       the store rejects a terminal result (failTerminalCommit)
\* "gateway"      toolGateway.execute or modelGateway.invoke throws
\* "outcome"      modelGateway.invoke answers anything
FaultNames == {"eligibility", "grant", "memory", "claim", "commit", "gateway", "outcome"}

Attempts == Executions

\* What the Scheduler assumes of its constants; and an attempt claims a context
\* once, so that revisions are bounded by the attempts that are made.
ASSUME RelayLeaseAssumption == Lease \in Nat \ {0} /\ MaxTime \in Nat
ASSUME RelayResourceOfAssumption == ResourceOf \in [Requirements -> Resources]
ASSUME RelayNoneAssumption == None \notin Jobs \cup Resources \cup Requirements \cup Attempts
ASSUME RelayRevisionAssumption == MaxRevision = 0

ASSUME RelayAssumption ==
  /\ Kinds \subseteq {"tool", "model"}
  /\ Faults \subseteq FaultNames
  /\ SchedulerWired \in BOOLEAN
  /\ RequirementOf \in [Jobs -> Requirements]
  /\ DOMAIN ContentOf = Fingerprints

VARIABLES
  last, traces, rsv, starts,  \* see Scheduler
  at,        \* at[a]: the attempt's program counter and local variables
  tracked,   \* #activeReservations: the reservation tracked for a job
  packages   \* #approvedPackages: the context package an attempt was given

sched     == <<last, traces, rsv, starts>>
relayVars == <<jobs, last, traces, rsv, starts, at, tracked, packages>>

Sched == INSTANCE Scheduler WITH
  Evaluations <- Attempts, Reservations <- Attempts, Callers <- Attempts

Points ==
  { "idle", "evaluate", "reserve", "prepare", "build", "listing", "abandon",
    "fresh", "confirm", "confirming", "refused", "cleanup", "cleanupAll",
    "start", "lost", "authorize", "recorded", "claim", "unclaimed", "invoke",
    "working", "answered", "invalid", "committed", "uncommitted", "done" }

\* What buildContext may make of a listing.
Contexts ==
  {<<>>} \cup { ContextItems(listed, Environment, ContentOf[fp].department) :
                 listed \in Listings, fp \in Fingerprints }

\* What a context package is limited to (buildContext): what ContextItems computes
\* by folding, for every listing of the store and every content of a job.
ContextsFit ==
  \A listed \in Listings, fp \in Fingerprints :
    LET department == ContentOf[fp].department
        items == ContextItems(listed, Environment, department)
    IN /\ Len(items) \in 0..MaxItems /\ Chars(items) <= MaxChars /\ Units(items) \in Nat
       /\ \A k \in DOMAIN items : InScope(items[k], Environment, department) /\ Score(items[k]) > 0

Attempt ==
  [ pc   : Points,
    job  : Jobs \cup {None},
    kind : {"tool", "model", "none"},
    rev  : Nat,        \* job_revision read by schedulerConfirm
    ran  : BOOLEAN,    \* whether the worker or the model was ever called
    context : Contexts ]   \* the items of its context package

IdleAttempt ==
  [ pc |-> "idle", job |-> None, kind |-> "none", rev |-> 0, ran |-> FALSE,
    context |-> <<>> ]

At(a, pc) == at[a].pc = pc
Goto(a, pc) ==
  at' = [at EXCEPT ![a].pc = pc,
                   ![a].context = IF pc = "done" THEN <<>> ELSE @]
Job(a) == at[a].job
IsModel(a) == at[a].kind = "model"
May(fault) == fault \in Faults

-----------------------------------------------------------------------------
(* accept: the claim of the idempotency namespace and the transition to     *)
(* ACCEPTED, each awaited.                                                  *)

SubmitJob(j) ==
  /\ \E ns \in Namespaces, fp \in Fingerprints : Claim(j, ns, fp)
  /\ UNCHANGED <<sched, at, tracked, packages>>

AcceptJob(j) ==
  /\ Accept(j)
  /\ UNCHANGED <<sched, at, tracked, packages>>

-----------------------------------------------------------------------------
(* Stage 1.  A call on a job that is not ACCEPTED returns INVALID_STATE and *)
(* leaves no trace.                                                         *)

Begin(a, j, kind) ==
  /\ At(a, "idle")
  /\ jobs[j].currentState = "ACCEPTED"
  /\ at' = [at EXCEPT ![a] =
             [pc   |-> IF SchedulerWired THEN "evaluate"
                       ELSE IF kind = "model" THEN "prepare" ELSE "start",
              job  |-> j, kind |-> kind, rev |-> 0, ran |-> FALSE, context |-> <<>>]]
  /\ UNCHANGED <<jobs, sched, tracked, packages>>

EvaluateStep(a) ==
  /\ At(a, "evaluate")
  /\ \E decision \in {"ELIGIBLE"} \cup (IF May("eligibility") THEN {"REFUSED"} ELSE {}) :
       /\ \E now \in Sched!Nows :
            Sched!Evaluate(a, Job(a), RequirementOf[Job(a)], decision, now)
       /\ Goto(a, IF decision = "ELIGIBLE" THEN "reserve" ELSE "done")
  /\ UNCHANGED <<jobs, tracked, packages>>

ReserveStep(a) ==
  /\ At(a, "reserve")
  /\ \/ /\ \E now \in Sched!Nows : Sched!Reserve(a, a, Job(a), now)
        /\ Goto(a, IF IsModel(a) THEN "prepare" ELSE "fresh")
     \/ /\ \E now \in Sched!Nows : Sched!ReserveRefused(a, Job(a), now)
        /\ Goto(a, "done")
     \/ /\ ~Sched!Presentable(a, Job(a))
        /\ Goto(a, "done")
        /\ UNCHANGED sched
  /\ UNCHANGED <<jobs, tracked, packages>>

-----------------------------------------------------------------------------
(* Model attempts prepare their context between the stages.                 *)

PrepareStep(a) ==
  /\ At(a, "prepare")
  /\ IF ClaimContextOk(Job(a))
       THEN ClaimContextDo(Job(a)) /\ Goto(a, "build")
       ELSE UNCHANGED jobs /\ Goto(a, "abandon")
  /\ UNCHANGED <<sched, tracked, packages>>

\* buildContext reads the job; it denies a job that is not ACCEPTED.
BuildStep(a) ==
  /\ At(a, "build")
  /\ Goto(a, IF jobs[Job(a)].currentState = "ACCEPTED" THEN "listing" ELSE "abandon")
  /\ UNCHANGED <<jobs, sched, tracked, packages>>

Content(a) == ContentOf[jobs[Job(a)].fingerprint]

\* The records are listed, and the package is created, approved and retained.
PackageStep(a) ==
  /\ At(a, "listing")
  /\ packages' = [packages EXCEPT ![a] = "kept"]
  /\ \E listed \in Listings :
       at' = [at EXCEPT
         ![a].pc = IF SchedulerWired THEN "fresh" ELSE "start",
         ![a].context = ContextItems(listed, Environment, Content(a).department)]
  /\ UNCHANGED <<jobs, sched, tracked>>

PackageFails(a) ==
  /\ May("memory")
  /\ At(a, "listing")
  /\ Goto(a, "abandon")
  /\ UNCHANGED <<jobs, sched, tracked, packages>>

\* #releaseReservation, with the revision the reservation was given (1).
ReleaseOwn(a) ==
  IF rsv[a].state = "FREE" THEN UNCHANGED sched
  ELSE \E now \in Sched!Nows : Sched!Release(a, 1, now)

\* The context claim is not released here: executeModelSummary, 833 and
\* 845-851, releases the reservation only.
AbandonStep(a) ==
  /\ At(a, "abandon")
  /\ ReleaseOwn(a)
  /\ Goto(a, "done")
  /\ UNCHANGED <<jobs, tracked, packages>>

-----------------------------------------------------------------------------
(* Stage 2: #schedulerConfirm.                                              *)

\* rev is kept for as long as it is in scope.
FreshStep(a) ==
  /\ At(a, "fresh")
  /\ LET job == jobs[Job(a)] IN
       at' = [at EXCEPT ![a].pc  = IF job.currentState = "ACCEPTED" THEN "confirm" ELSE "refused",
                        ![a].rev = IF job.currentState = "ACCEPTED" THEN job.revision ELSE 0]
  /\ UNCHANGED <<jobs, sched, tracked, packages>>

ConfirmStep(a) ==
  /\ At(a, "confirm")
  /\ LET job == jobs[Job(a)]
         jobCurrent == job.currentState = "ACCEPTED" /\ job.revision = at[a].rev
     IN \E now \in Sched!Nows :
          Sched!ConfirmCall(a, Job(a), RequirementOf[Job(a)], a, jobCurrent, now)
  /\ at' = [at EXCEPT ![a].pc = "confirming", ![a].rev = 0]
  /\ UNCHANGED <<jobs, tracked, packages>>

ConfirmedStep(a) ==
  /\ At(a, "confirming")
  /\ \E eligible \in {TRUE} \cup (IF May("eligibility") THEN {FALSE} ELSE {}) :
       Sched!ConfirmResume(a, eligible)
  /\ Goto(a, IF starts'[a].phase = "CONFIRMED" THEN "start" ELSE "refused")
  /\ UNCHANGED <<jobs, tracked, packages>>

\* releaseModelContextPreparation, called; "cleanupAll" when it was released.
ReleaseClaim(a) ==
  IF ReleaseContextOk(Job(a))
    THEN ReleaseContextDo(Job(a)) /\ Goto(a, "cleanupAll")
    ELSE UNCHANGED jobs /\ Goto(a, "cleanup")

\* Mutant of RefusedStep: the context claim of a refused start is kept.
RefusedStepKeepsClaim(a) ==
  /\ At(a, "refused")
  /\ ReleaseOwn(a)
  /\ Goto(a, IF IsModel(a) THEN "cleanup" ELSE "done")
  /\ UNCHANGED <<jobs, tracked, packages>>

\* The reservation is released, and onReject starts #releaseModelAttempt.
RefusedStep(a) ==
  /\ At(a, "refused")
  /\ ReleaseOwn(a)
  /\ IF IsModel(a) THEN ReleaseClaim(a) ELSE UNCHANGED jobs /\ Goto(a, "done")
  /\ UNCHANGED <<tracked, packages>>

-----------------------------------------------------------------------------
(* What is tracked and retained for a JOB is released for the job, whoever  *)
(* tracked or retained it.                                                  *)

\* #releaseTrackedReservation
ReleaseTracked(j) ==
  /\ tracked' = [tracked EXCEPT ![j] = None]
  /\ IF tracked[j] = None THEN UNCHANGED sched
     ELSE \E now \in Sched!Nows : Sched!Release(tracked[j], 1, now)

\* #releaseApprovedPackages
ReleasePackages(j) ==
  packages' = [a \in Attempts |->
    IF at[a].job = j /\ packages[a] = "kept" THEN "released" ELSE packages[a]]

\* The rest of #releaseModelAttempt, after its await.
CleanupStep(a) ==
  /\ at[a].pc \in {"cleanup", "cleanupAll"}
  /\ IF At(a, "cleanupAll") THEN ReleasePackages(Job(a)) ELSE UNCHANGED packages
  /\ ReleaseTracked(Job(a))
  /\ Goto(a, "done")
  /\ UNCHANGED jobs

-----------------------------------------------------------------------------
(* ACCEPTED -> RUNNING.  The reservation is tracked first.                  *)

\* Mutant of StartStep: the reservation is tracked after the transition, so
\* the loser of a race releases the reservation the winner tracked.
StartStepTracksLate(a) ==
  /\ At(a, "start")
  /\ IF RunningOk(Job(a))
       THEN /\ RunningDo(Job(a), a)
            /\ tracked' = [tracked EXCEPT ![Job(a)] = a]
            /\ Goto(a, IF IsModel(a) THEN "claim" ELSE "authorize")
       ELSE UNCHANGED <<jobs, tracked>> /\ Goto(a, "lost")
  /\ UNCHANGED <<sched, packages>>

StartStep(a) ==
  /\ At(a, "start")
  /\ tracked' = IF SchedulerWired THEN [tracked EXCEPT ![Job(a)] = a] ELSE tracked
  /\ IF RunningOk(Job(a))
       THEN RunningDo(Job(a), a) /\ Goto(a, IF IsModel(a) THEN "claim" ELSE "authorize")
       ELSE UNCHANGED jobs /\ Goto(a, "lost")
  /\ UNCHANGED <<sched, packages>>

LostStep(a) ==
  /\ At(a, "lost")
  /\ IF IsModel(a)
       THEN ReleaseClaim(a) /\ UNCHANGED <<sched, tracked>>
       ELSE ReleaseTracked(Job(a)) /\ Goto(a, "done") /\ UNCHANGED jobs
  /\ UNCHANGED packages

-----------------------------------------------------------------------------
(* The tool path: ToolGateway.execute.                                      *)

\* The grants are resolved for the RUNNING job and the decision is recorded.
\* A decision the store does not record ends the call with UNAVAILABLE.
AuthorizeStep(a) ==
  /\ At(a, "authorize")
  /\ IF RecordDecisionOk(Job(a), a)
       THEN /\ \E decision \in {"ALLOW"} \cup (IF May("grant") THEN {"DENY"} ELSE {}) :
                 RecordDecisionDo(Job(a), a, decision)
            /\ Goto(a, "recorded")
       ELSE UNCHANGED jobs /\ Goto(a, "done")
  /\ UNCHANGED <<sched, tracked, packages>>

Denied(a) == jobs[Job(a)].gatewayDecision = "DENY"

\* commitTerminalResult; a rejected commit leaves the job as it was.
CommitCall(a, outcome, onReject) ==
  \/ /\ CommitOk(Job(a), a, outcome, IsModel(a))
     /\ CommitDo(Job(a), outcome)
     /\ Goto(a, "committed")
  \/ /\ May("commit") \/ ~CommitOk(Job(a), a, outcome, IsModel(a))
     /\ UNCHANGED jobs
     /\ Goto(a, onReject)

\* Mutant of DenyStep: a denial is returned without a terminal result.
DenyStepReturns(a) ==
  /\ At(a, "recorded")
  /\ Denied(a)
  /\ Goto(a, "done")
  /\ UNCHANGED <<jobs, sched, tracked, packages>>

DenyStep(a) ==
  /\ At(a, "recorded")
  /\ Denied(a)
  /\ \E outcome \in DenialOutcomes : CommitCall(a, outcome, "done")
  /\ UNCHANGED <<sched, tracked, packages>>

\* The worker is called as soon as its claim is answered INVOKE_NOW.
CallWorkerStep(a) ==
  /\ At(a, "recorded")
  /\ ~Denied(a)
  /\ \/ /\ ClaimWorkerOk(Job(a), a)
        /\ ClaimWorkerDo(Job(a))
        /\ at' = [at EXCEPT ![a].pc = "working", ![a].ran = TRUE]
     \/ /\ May("claim") \/ ~ClaimWorkerOk(Job(a), a)
        /\ UNCHANGED jobs
        /\ Goto(a, "done")
  /\ UNCHANGED <<sched, tracked, packages>>

WorkOutcomes == {"SYSTEM_STATUS_AVAILABLE"} \cup FailOutcomes

WorkerStep(a) ==
  /\ At(a, "working")
  /\ ~IsModel(a)
  /\ \E outcome \in WorkOutcomes : CommitCall(a, outcome, "done")
  /\ UNCHANGED <<sched, tracked, packages>>

GatewayThrows(a) ==
  /\ May("gateway")
  /\ at[a].pc \in {"authorize", "recorded", "working"}
  /\ ~IsModel(a)
  /\ ReleaseTracked(Job(a))
  /\ Goto(a, "done")
  /\ UNCHANGED <<jobs, packages>>

-----------------------------------------------------------------------------
(* The model path: claim, ModelGateway.invoke, #commitModelTerminal.        *)

ClaimModelStep(a) ==
  /\ At(a, "claim")
  /\ \/ /\ ClaimModelOk(Job(a), a)
        /\ ClaimModelDo(Job(a), a)
        /\ Goto(a, "invoke")
     \/ /\ May("claim") \/ ~ClaimModelOk(Job(a), a)
        /\ UNCHANGED jobs
        /\ Goto(a, "unclaimed")
  /\ UNCHANGED <<sched, tracked, packages>>

InvocationOf(a) ==
  [ environment |-> Environment, capability |-> Content(a).capability,
    items |-> Len(at[a].context), units |-> TemplateUnits + Units(at[a].context) ]

\* invoke resolves the job and the approved package; without them it throws.
\* Then it refuses, or calls the adapter.
InvokeStep(a) ==
  /\ At(a, "invoke")
  /\ \/ /\ jobs[Job(a)].currentState = "RUNNING"
        /\ packages[a] = "kept"
        /\ at' = IF Refusal(InvocationOf(a)) = "none"
                 THEN [at EXCEPT ![a].pc = "working", ![a].ran = TRUE]
                 ELSE [at EXCEPT ![a].pc = "answered"]
     \/ /\ \/ jobs[Job(a)].currentState # "RUNNING"
           \/ packages[a] # "kept"
           \/ May("gateway")
        /\ Goto(a, "invalid")
  /\ UNCHANGED <<jobs, sched, tracked, packages>>

GatewayAnswers(a) ==
  LET invocation == InvocationOf(a) IN
  (IF At(a, "working") THEN {Judged(invocation, result) : result \in ProviderResults}
                       ELSE {Failed(invocation, Refusal(invocation))})
    \cup IF May("outcome") THEN UntrustedOutcomes ELSE {}

\* #gatewayOutcomeMatches: Relay decides again what the Gateway decided.
\* Mutant of OutcomeMatches: what went in is not checked when output came out.
OutcomeMatchesAnyInput(invocation, outcome) ==
  /\ ValidOutcome(outcome) /\ outcome.bound
  /\ IF ~Eligible(invocation) THEN outcome.reason = "OPERATION_INELIGIBLE"
     ELSE IF ~Routed(invocation) THEN outcome.reason = "ROUTE_UNSUPPORTED"
     ELSE /\ outcome.placement = RouteOf(invocation).placement
          /\ outcome.status = "SUCCEEDED" =>
               outcome.output.hashed /\ outcome.output.claimed = outcome.output.units

OutcomeMatches(invocation, outcome) ==
  LET route == RouteOf(invocation)
      inputAllowed == invocation.items > 0 /\ invocation.units <= route.maxInput
      output == outcome.output IN
  /\ ValidOutcome(outcome) /\ outcome.bound
  /\ IF ~Eligible(invocation) THEN outcome.reason = "OPERATION_INELIGIBLE"
     ELSE IF ~Routed(invocation) THEN outcome.reason = "ROUTE_UNSUPPORTED"
     ELSE /\ outcome.placement = route.placement
          /\ CASE outcome.status = "SUCCEEDED" ->
                    /\ inputAllowed
                    /\ output.hashed /\ output.claimed = output.units
                    /\ output.units <= route.maxOutput /\ output.chars <= route.maxChars
               [] outcome.reason = "EMPTY_CONTEXT" -> invocation.items = 0
               [] outcome.reason = "INPUT_BUDGET_EXCEEDED" ->
                    invocation.items > 0 /\ invocation.units > route.maxInput
               [] OTHER ->
                    /\ inputAllowed
                    /\ outcome.reason \in { "ADAPTER_UNAVAILABLE", "PROVIDER_RESULT_INVALID",
                                            "OUTPUT_BUDGET_EXCEEDED" }

\* The outcome code of #commitModelTerminal.
OutcomeCode(invocation, outcome) ==
  IF \/ ~OutcomeMatches(invocation, outcome)
     \/ outcome.reason \in {"PROVIDER_RESULT_INVALID", "OUTPUT_BUDGET_EXCEEDED"}
    THEN "WORKER_RESULT_INVALID"
  ELSE IF outcome.status = "SUCCEEDED" THEN "SYSTEM_STATUS_AVAILABLE"
  ELSE "WORKER_UNAVAILABLE"

\* An exception of invoke is committed as an invalid result.
ModelStep(a) ==
  /\ IsModel(a)
  /\ \/ /\ at[a].pc \in {"working", "answered"}
        /\ \E code \in {OutcomeCode(InvocationOf(a), outcome) : outcome \in GatewayAnswers(a)} :
             CommitCall(a, code, "uncommitted")
     \/ At(a, "invalid") /\ CommitCall(a, "WORKER_RESULT_INVALID", "uncommitted")
  /\ UNCHANGED <<sched, tracked, packages>>

\* The tracked reservation is released, the package is kept.
GiveUpStep(a) ==
  /\ at[a].pc \in {"unclaimed", "uncommitted"}
  /\ ReleaseTracked(Job(a))
  /\ Goto(a, "done")
  /\ UNCHANGED <<jobs, packages>>

\* Mutant of CommittedStep: completion does not release the packages.
CommittedStepKeepsPackages(a) ==
  /\ At(a, "committed")
  /\ ReleaseTracked(Job(a))
  /\ Goto(a, "done")
  /\ UNCHANGED <<jobs, packages>>

\* Mutant of CommittedStep: completion does not release the reservation.
CommittedStepKeepsCapacity(a) ==
  /\ At(a, "committed")
  /\ ReleasePackages(Job(a))
  /\ Goto(a, "done")
  /\ UNCHANGED <<jobs, sched, tracked>>

\* Both paths, once the terminal result is stored.
CommittedStep(a) ==
  /\ At(a, "committed")
  /\ ReleaseTracked(Job(a))
  /\ ReleasePackages(Job(a))
  /\ Goto(a, "done")
  /\ UNCHANGED jobs

-----------------------------------------------------------------------------

RelayInit ==
  /\ StoreInit
  /\ Sched!SchedInit
  /\ at = [a \in Attempts |-> IdleAttempt]
  /\ tracked = [j \in Jobs |-> None]
  /\ packages = [a \in Attempts |-> "none"]

\* What an attempt in progress does next.
Step(a) ==
  \/ EvaluateStep(a) \/ ReserveStep(a)
  \/ PrepareStep(a) \/ BuildStep(a) \/ PackageStep(a) \/ PackageFails(a) \/ AbandonStep(a)
  \/ FreshStep(a) \/ ConfirmStep(a) \/ ConfirmedStep(a) \/ RefusedStep(a) \/ CleanupStep(a)
  \/ StartStep(a) \/ LostStep(a)
  \/ AuthorizeStep(a) \/ DenyStep(a) \/ CallWorkerStep(a) \/ WorkerStep(a) \/ GatewayThrows(a)
  \/ ClaimModelStep(a) \/ InvokeStep(a) \/ ModelStep(a) \/ GiveUpStep(a) \/ CommittedStep(a)

RelayNext ==
  \/ \E j \in Jobs : SubmitJob(j) \/ AcceptJob(j)
  \/ \E a \in Attempts, j \in Jobs, kind \in Kinds : Begin(a, j, kind)
  \/ \E a \in Attempts : Step(a)

RelaySpec == RelayInit /\ [][RelayNext]_relayVars

\* A continuation whose promise settled is run; grant providers, workers and
\* models are assumed to settle.  Nothing makes a client submit or retry.
FairRelaySpec == RelaySpec /\ \A a \in Attempts : WF_relayVars(Step(a))

-----------------------------------------------------------------------------
(* Properties                                                               *)

RelayTypeOK ==
  /\ StoreTypeOK
  /\ Sched!SchedTypeOK
  /\ at \in [Attempts -> Attempt]
  /\ tracked \in [Jobs -> Attempts \cup {None}]
  /\ packages \in [Attempts -> {"none", "kept", "released"}]

InProgress(a) == at[a].pc \notin {"idle", "done"}

\* No call of execute or executeModelSummary for j is in progress.
Settled(j) == \A a \in Attempts : InProgress(a) => at[a].job # j

Working(a) == At(a, "working")

\* However attempts at a job interleave, time out and retry, the worker or a
\* model is called at most once for it, and then by the attempt whose
\* execution the store has on record as claimed.
SingleEffect ==
  \A a \in Attempts : at[a].ran =>
    /\ \A b \in Attempts : at[b].ran /\ Job(b) = Job(a) => b = a
    /\ jobs[Job(a)].executionId = a
    /\ IF IsModel(a) THEN jobs[Job(a)].modelInvocation = a
                     ELSE jobs[Job(a)].invocationClaimed

\* Nobody has attempted a job with a model so far.
ToolsOnly == \A a \in Attempts : ~IsModel(a)

\* Two attempts that work on one exclusive resource at the same time: as long as
\* all attempts are tool attempts, only if one of them outlived its lease
\* (reserve, the start of a job and every release between them).  A refused
\* model attempt may release what another attempt holds (#releaseModelAttempt).
ExclusiveWork ==
  ToolsOnly => \A a, b \in Attempts :
    /\ Working(a) /\ Working(b) /\ a # b
    /\ rsv[a].resource = rsv[b].resource
    => Sched!LeaseOver(a, last) \/ Sched!LeaseOver(b, last)

\* While a worker works for an attempt, nobody has given its reservation back,
\* neither the attempt itself nor the loser of a race for its job: as long as all
\* attempts are tool attempts, capacity is returned by completion or by the
\* lease (#releaseTrackedReservation).
WorkKeepsReservation ==
  SchedulerWired /\ ToolsOnly => \A a \in Attempts : Working(a) => rsv[a].state # "RELEASED"

\* No reservation of the job outlived its lease.
InTime(j) ==
  \A r \in Attempts : rsv[r].job = j =>
    rsv[r].state # "EXPIRED" /\ ~(rsv[r].state = "ACTIVE" /\ Sched!LeaseOver(r, last))

\* "no reservation may leak on a non-terminal exit" (px006-remediation.test):
\* once every attempt at a job has returned, none of its reservations is live -
\* unless one of them outlived its lease, and let two attempts at the job meet.
CapacityReturned ==
  \A j \in Jobs : Settled(j) /\ InTime(j) =>
    ~ \E r \in Attempts : rsv[r].job = j /\ Sched!Live(r)

\* "A non-terminal model attempt that cannot continue must not leave state
\* behind": an ACCEPTED job nobody is working at can be attempted again, by
\* either kind of attempt.
RejectedStartRetriable ==
  \A j \in Jobs :
    jobs[j].currentState = "ACCEPTED" /\ Settled(j) => ~jobs[j].modelContextClaimed

\* A job is completed by a model only on a summary it was entitled to: of the one
\* operation that is allowed, on a route there is, made from a context that is not
\* empty, keeps to every budget and holds only active, relevant records of the
\* job's own department and environment - whatever the Model Gateway answered.
\* And nothing that an honest Gateway answers, in any environment, is rejected:
\* the decisions that Relay takes again agree with the Gateway's
\* (buildContext, invoke, #gatewayOutcomeMatches).
SummaryEarned ==
  \A a \in Attempts :
    /\ IsModel(a) /\ At(a, "committed") /\ jobs[Job(a)].currentState = "COMPLETED" =>
         LET context == at[a].context IN
         /\ Content(a).capability = "pixel.system-status.read"
         /\ Environment \in DOMAIN Routes
         /\ Len(context) \in 1..MaxItems /\ Chars(context) <= MaxChars
         /\ TemplateUnits + Units(context) <= Routes[Environment].maxInput
         /\ \A k \in DOMAIN context :
              InScope(context[k], Environment, Content(a).department) /\ Score(context[k]) > 0
    /\ At(a, "invoke") =>
         \A environment \in DOMAIN Routes \cup {Environment, "unrouted"} :
           LET invocation == [InvocationOf(a) EXCEPT !.environment = environment] IN
           IF Refusal(invocation) # "none"
           THEN OutcomeMatches(invocation, Failed(invocation, Refusal(invocation)))
           ELSE \A result \in ProviderResults :
                  OutcomeMatches(invocation, Judged(invocation, result))

\* A terminal job nobody is working at has no approved package left.
PackagesReleased ==
  \A a \in Attempts : packages[a] = "kept" =>
    \/ ~Settled(Job(a))
    \/ jobs[Job(a)].currentState \notin TerminalStates

\* A tool attempt started the job while a model attempt held its context: the
\* store records no decision for such a job (recordGatewayDecision), and takes
\* the claim back from ACCEPTED jobs only (releaseModelContextPreparation).
Torn(j) ==
  /\ jobs[j].modelContextClaimed
  /\ ~ \E a \in Attempts : jobs[j].executionId = a /\ IsModel(a)

\* A started job ends, unless the two kinds of attempt met and tore it apart
\* (ToolGateway.execute and #commitModelTerminal with all they await).
RunsFinish ==
  \A j \in Jobs :
    jobs[j].currentState = "RUNNING" ~> jobs[j].currentState \in TerminalStates \/ Torn(j)
=============================================================================
