----------------------------- MODULE RelayStore -----------------------------
(***************************************************************************)
(* The canonical job store behind Relay (the simulator adapter; Relay, the  *)
(* Tool Gateway, the Model Gateway, Memory and the Scheduler all read it).  *)
(*                                                                          *)
(* Every store call is synchronous, so each is one atomic step.  A call is  *)
(* modelled by two operators: XxxOk, the conditions under which the store   *)
(* accepts it, and XxxDo, the change it then makes.  A call that is not     *)
(* accepted returns REJECTED (or EXISTING, CONFLICT, ALREADY_CLAIMED) and   *)
(* changes nothing.  Module Relay composes these operators with the callers *)
(* that exist; StoreSpec below lets any client make any call in any order.  *)
(*                                                                          *)
(* Data abstraction.  An execution request, a model invocation and the      *)
(* execution itself are created together, once per attempt, so the          *)
(* execution id stands for all three.  Envelopes are well formed: what      *)
(* matchesEnvelope compares beside the execution id is copied from the job. *)
(***************************************************************************)
EXTENDS Integers

CONSTANTS
  Jobs,          \* job ids
  Executions,    \* execution ids, one per attempt to run a job
  NoExecution,   \* null
  Namespaces,    \* hashes of (subject, environment, idempotency key)
  Fingerprints,  \* hashes of the submitted intent
  NoKey,         \* null namespace or fingerprint
  MaxRevision    \* bound on job revisions, as context claims may be retried for
                 \* ever; 0: none, for clients that make finitely many calls

ASSUME NoExecutionAssumption == NoExecution \notin Executions
ASSUME NoKeyAssumption == NoKey \notin Namespaces \cup Fingerprints
ASSUME MaxRevisionAssumption == MaxRevision \in Nat

VARIABLE jobs    \* the #jobs map; jobs[j].currentState = "ABSENT": no entry

LiveStates     == {"SUBMITTED", "ACCEPTED", "RUNNING"}
TerminalStates == {"COMPLETED", "FAILED"}
JobStates      == {"ABSENT"} \cup LiveStates \cup TerminalStates

Decisions      == {"ALLOW", "DENY"}
DenialOutcomes == {"CAPABILITY_DENIED", "AUTHORIZATION_UNAVAILABLE"}
FailOutcomes   == {"WORKER_UNAVAILABLE", "WORKER_RESULT_INVALID"}
Outcomes       == {"SYSTEM_STATUS_AVAILABLE"} \cup DenialOutcomes \cup FailOutcomes

\* RESULT_OUTCOMES: the terminal state an outcome code belongs to.
StateOf(outcome) ==
  IF outcome = "SYSTEM_STATUS_AVAILABLE" THEN "COMPLETED" ELSE "FAILED"

JobRecord ==
  [ currentState        : JobStates,
    namespace           : Namespaces \cup {NoKey},
    fingerprint         : Fingerprints \cup {NoKey},
    executionId         : Executions \cup {NoExecution},
    executionRequest    : Executions \cup {NoExecution},
    gatewayDecision     : Decisions \cup {"none"},
    invocationClaimed   : BOOLEAN,
    modelContextClaimed : BOOLEAN,
    modelInvocation     : Executions \cup {NoExecution},
    result              : Outcomes \cup {"none"},
    revision            : Nat ]

AbsentJob ==
  [ currentState        |-> "ABSENT",
    namespace           |-> NoKey,
    fingerprint         |-> NoKey,
    executionId         |-> NoExecution,
    executionRequest    |-> NoExecution,
    gatewayDecision     |-> "none",
    invocationClaimed   |-> FALSE,
    modelContextClaimed |-> FALSE,
    modelInvocation     |-> NoExecution,
    result              |-> "none",
    revision            |-> 0 ]

Present(j) == jobs[j].currentState # "ABSENT"

-----------------------------------------------------------------------------
(* claimOrReturnExisting: one job per idempotency namespace.               *)

NamespaceOwners(ns) == {j \in Jobs : Present(j) /\ jobs[j].namespace = ns}

\* Mutant of ClaimOk: the namespace is not looked up.
ClaimOkAnyNamespace(j, ns) == ns \in Namespaces /\ ~Present(j)

\* The candidate carries a freshly generated job id.
ClaimOk(j, ns) ==
  /\ ~Present(j)
  /\ NamespaceOwners(ns) = {}

ClaimDo(j, ns, fp) ==
  jobs' = [jobs EXCEPT ![j] =
            [AbsentJob EXCEPT !.currentState = "SUBMITTED",
                              !.namespace    = ns,
                              !.fingerprint  = fp,
                              !.revision     = 1]]

(* applyTransition, one operator for each legal transition.  Relay asks for *)
(* the first two only.                                                      *)

\* Mutant of AcceptOk: from_state is not compared with the current state.
AcceptOkAnyLive(j) == jobs[j].currentState \in LiveStates

AcceptOk(j) == jobs[j].currentState = "SUBMITTED"

AcceptDo(j) ==
  jobs' = [jobs EXCEPT ![j].currentState = "ACCEPTED",
                       ![j].revision     = @ + 1]

\* Mutant of RunningOk: a retry may start a job that already runs.
RunningOkAgain(j) == jobs[j].currentState \in {"ACCEPTED", "RUNNING"}

RunningOk(j) == jobs[j].currentState = "ACCEPTED"

RunningDo(j, e) ==
  jobs' = [jobs EXCEPT ![j].executionId  = e,
                       ![j].currentState = "RUNNING",
                       ![j].revision     = @ + 1]

\* RUNNING to a terminal state: no result, decision or claim is looked for.
FinishOk(j, e) ==
  /\ jobs[j].currentState = "RUNNING"
  /\ jobs[j].executionId = e

FinishDo(j, to) ==
  jobs' = [jobs EXCEPT ![j].currentState = to,
                       ![j].revision     = @ + 1]

(* recordGatewayDecision                                                    *)

RecordDecisionOk(j, e) ==
  /\ jobs[j].currentState = "RUNNING"
  /\ jobs[j].gatewayDecision = "none"
  /\ ~jobs[j].modelContextClaimed
  /\ jobs[j].modelInvocation = NoExecution
  /\ jobs[j].executionId = e

\* Mutant of RecordDecisionDo: request and decision are stored swapped.
RecordDecisionDoSwapped(j, e, decision) ==
  jobs' = [jobs EXCEPT ![j].executionRequest = decision,
                       ![j].gatewayDecision  = e,
                       ![j].revision         = @ + 1]

RecordDecisionDo(j, e, decision) ==
  jobs' = [jobs EXCEPT ![j].executionRequest = e,
                       ![j].gatewayDecision  = decision,
                       ![j].revision         = @ + 1]

(* claimWorkerInvocation                                                    *)

WorkerClaimable(j, e) ==
  /\ jobs[j].currentState = "RUNNING"
  /\ jobs[j].modelInvocation = NoExecution
  /\ jobs[j].gatewayDecision = "ALLOW"
  /\ jobs[j].executionRequest = e

ClaimWorkerOk(j, e) == WorkerClaimable(j, e) /\ ~jobs[j].invocationClaimed

ClaimWorkerDo(j) ==
  jobs' = [jobs EXCEPT ![j].invocationClaimed = TRUE,
                       ![j].revision          = @ + 1]

(* claimModelContextPreparation and releaseModelContextPreparation          *)

ContextClaimable(j) ==
  /\ jobs[j].currentState = "ACCEPTED"
  /\ jobs[j].gatewayDecision = "none"
  /\ ~jobs[j].invocationClaimed
  /\ jobs[j].modelInvocation = NoExecution

ClaimContextOk(j) == ContextClaimable(j) /\ ~jobs[j].modelContextClaimed

ClaimContextDo(j) ==
  jobs' = [jobs EXCEPT ![j].modelContextClaimed = TRUE,
                       ![j].revision            = @ + 1]

\* No caller passes expectedRevision, so the revision guard is never active.
ReleaseContextOk(j) ==
  /\ jobs[j].currentState = "ACCEPTED"
  /\ jobs[j].modelContextClaimed
  /\ jobs[j].modelInvocation = NoExecution
  /\ jobs[j].gatewayDecision = "none"

\* Mutant of ReleaseContextDo: the revision is not raised.
ReleaseContextDoSilent(j) ==
  jobs' = [jobs EXCEPT ![j].modelContextClaimed = FALSE]

ReleaseContextDo(j) ==
  jobs' = [jobs EXCEPT ![j].modelContextClaimed = FALSE,
                       ![j].revision            = @ + 1]

(* claimModelInvocation                                                     *)

\* Mutant of ClaimModelOk: a recorded tool decision is not looked for.
ClaimModelOkUndecided(j, e) ==
  /\ jobs[j].currentState = "RUNNING"
  /\ ~jobs[j].invocationClaimed
  /\ jobs[j].executionId = e
  /\ jobs[j].modelInvocation = NoExecution

ClaimModelOk(j, e) ==
  /\ jobs[j].currentState = "RUNNING"
  /\ jobs[j].gatewayDecision = "none"
  /\ ~jobs[j].invocationClaimed
  /\ jobs[j].executionId = e
  /\ jobs[j].modelInvocation = NoExecution

ClaimModelDo(j, e) ==
  jobs' = [jobs EXCEPT ![j].modelInvocation = e,
                       ![j].revision        = @ + 1]

(* commitTerminalResult: transition and result are stored in one step.      *)

OnWorkerPath(j) ==
  jobs[j].gatewayDecision # "none" /\ jobs[j].modelInvocation = NoExecution

OnModelPath(j) ==
  jobs[j].gatewayDecision = "none" /\ jobs[j].modelInvocation # NoExecution

\* Mutant of WorkerResultOk: an allowed result needs no claimed invocation.
WorkerResultOkUnclaimed(j, outcome) ==
  (jobs[j].gatewayDecision = "DENY") = (outcome \in DenialOutcomes)

WorkerResultOk(j, outcome) ==
  CASE jobs[j].gatewayDecision = "ALLOW" ->
         jobs[j].invocationClaimed /\ outcome \notin DenialOutcomes
    [] jobs[j].gatewayDecision = "DENY" ->
         ~jobs[j].invocationClaimed /\ outcome \in DenialOutcomes
    [] OTHER -> FALSE

\* Mutant of CommitOk: a retried commit is not refused when the job is terminal.
CommitOkRepeated(j, e, outcome, modelBacked) ==
  /\ jobs[j].executionId = e
  /\ modelBacked => outcome \notin DenialOutcomes
  /\ \/ OnWorkerPath(j) /\ ~modelBacked /\ WorkerResultOk(j, outcome)
     \/ OnModelPath(j) /\ modelBacked /\ jobs[j].modelInvocation = e

CommitOk(j, e, outcome, modelBacked) ==
  /\ jobs[j].currentState = "RUNNING"
  /\ jobs[j].executionId = e
  /\ modelBacked => outcome \notin DenialOutcomes
  /\ \/ OnWorkerPath(j) /\ ~modelBacked /\ WorkerResultOk(j, outcome)
     \/ OnModelPath(j) /\ modelBacked /\ jobs[j].modelInvocation = e

CommitDo(j, outcome) ==
  jobs' = [jobs EXCEPT ![j].currentState = StateOf(outcome),
                       ![j].result       = outcome,
                       ![j].revision     = @ + 1]

-----------------------------------------------------------------------------
(* Any client, any call, any order.  Execution ids are generated fresh.     *)
(* AnsweredNext leaves out the bare terminal transition, for clients which, *)
(* like Relay, end a job with its result only.                              *)

UnusedExecution(e) == \A j \in Jobs : jobs[j].executionId # e

Claim(j, ns, fp) == ClaimOk(j, ns) /\ ClaimDo(j, ns, fp)

Accept(j) == AcceptOk(j) /\ AcceptDo(j)

Running(j, e) == RunningOk(j) /\ UnusedExecution(e) /\ RunningDo(j, e)

Finish(j, e, to) == FinishOk(j, e) /\ FinishDo(j, to)

RecordDecision(j, e, decision) ==
  RecordDecisionOk(j, e) /\ RecordDecisionDo(j, e, decision)

ClaimWorker(j, e) == ClaimWorkerOk(j, e) /\ ClaimWorkerDo(j)

ClaimContext(j) ==
  /\ MaxRevision = 0 \/ jobs[j].revision < MaxRevision
  /\ ClaimContextOk(j)
  /\ ClaimContextDo(j)

ReleaseContext(j) == ReleaseContextOk(j) /\ ReleaseContextDo(j)

ClaimModel(j, e) == ClaimModelOk(j, e) /\ ClaimModelDo(j, e)

Commit(j, e, outcome, modelBacked) ==
  CommitOk(j, e, outcome, modelBacked) /\ CommitDo(j, outcome)

StoreInit == jobs = [j \in Jobs |-> AbsentJob]

AnsweredNext ==
  \E j \in Jobs :
    \/ \E ns \in Namespaces, fp \in Fingerprints : Claim(j, ns, fp)
    \/ Accept(j)
    \/ ClaimContext(j)
    \/ ReleaseContext(j)
    \/ \E e \in Executions :
         \/ Running(j, e)
         \/ \E decision \in Decisions : RecordDecision(j, e, decision)
         \/ ClaimWorker(j, e)
         \/ ClaimModel(j, e)
         \/ \E outcome \in Outcomes, modelBacked \in BOOLEAN :
              Commit(j, e, outcome, modelBacked)

StoreNext ==
  \/ AnsweredNext
  \/ \E j \in Jobs, e \in Executions, to \in TerminalStates : Finish(j, e, to)

StoreSpec    == StoreInit /\ [][StoreNext]_jobs
AnsweredSpec == StoreInit /\ [][AnsweredNext]_jobs

-----------------------------------------------------------------------------
(* Properties                                                               *)

\* Every stored job is a well formed record.
StoreTypeOK == jobs \in [Jobs -> JobRecord]

\* A job is committed to one kind of execution: no sequence of calls records
\* a tool decision and a model invocation on the same job, and a worker is
\* claimed only under a recorded ALLOW for the execution the job is running
\* (guards of recordGatewayDecision, claimWorkerInvocation and
\* claimModelInvocation together).
EffectExclusive ==
  \A j \in Jobs :
    /\ ~(jobs[j].gatewayDecision # "none" /\ jobs[j].modelInvocation # NoExecution)
    /\ jobs[j].invocationClaimed =>
         /\ jobs[j].gatewayDecision = "ALLOW"
         /\ jobs[j].executionRequest = jobs[j].executionId
    /\ jobs[j].modelInvocation \in {NoExecution, jobs[j].executionId}

\* A stored result never says more than happened: the job is in the terminal
\* state of its outcome, a success or a failure of the work follows a claimed
\* invocation, and a denial is the outcome of exactly the jobs that were denied
\* and never had a worker claimed (commitTerminalResult).  A job that a client
\* ends with a bare transition keeps no result, and nothing is said of it.
TerminalTruth ==
  \A j \in Jobs : LET job == jobs[j] IN
    job.result # "none" =>
      /\ job.currentState = StateOf(job.result)
      /\ job.result \in DenialOutcomes <=>
           job.gatewayDecision = "DENY" /\ ~job.invocationClaimed
      /\ job.result \notin DenialOutcomes =>
           job.invocationClaimed \/ job.modelInvocation # NoExecution

\* Every terminal job has its result: true for clients that end a job with
\* commitTerminalResult only, as every path of Relay does.
Answered ==
  \A j \in Jobs : jobs[j].currentState \in TerminalStates => jobs[j].result # "none"

\* Two jobs never own one idempotency namespace, so a resubmitted intent
\* finds the job it created (claimOrReturnExisting).
NamespaceOwned ==
  \A j, k \in Jobs :
    Present(j) /\ Present(k) /\ jobs[j].namespace = jobs[k].namespace => j = k

\* A terminal job is never written again, by any call.
TerminalIsFinal ==
  [][\A j \in Jobs :
       jobs[j].currentState \in TerminalStates => jobs'[j] = jobs[j]]_jobs

\* The revision is a version stamp: equal revisions mean an unchanged record,
\* which is what the Scheduler's stage 2 relies on when it compares
\* job_revision with expected_job_revision; and the execution id, once set,
\* stays.
VersionStamp ==
  [][\A j \in Jobs :
       /\ jobs'[j] # jobs[j] => jobs'[j].revision = jobs[j].revision + 1
       /\ jobs[j].executionId # NoExecution =>
            jobs'[j].executionId = jobs[j].executionId]_jobs

-----------------------------------------------------------------------------
(* The store implements JobLifecycle.                                       *)

PhaseOf(j) == jobs[j].currentState

EffectOf(j) ==
  IF jobs[j].invocationClaimed THEN "worker"
  ELSE IF jobs[j].modelInvocation # NoExecution THEN "model" ELSE "none"

VerdictOf(j) ==
  IF jobs[j].result = "none" THEN "none"
  ELSE IF StateOf(jobs[j].result) = "COMPLETED" THEN "success" ELSE "failure"

Lifecycle == INSTANCE JobLifecycle WITH
  phase   <- [j \in Jobs |-> PhaseOf(j)],
  effect  <- [j \in Jobs |-> EffectOf(j)],
  verdict <- [j \in Jobs |-> VerdictOf(j)]

\* Whatever clients call, in whatever order (every writer of the #jobs map),
\* each job goes once through its lifecycle with at most one effect, and its
\* result is a success only after one.
LifecycleRefined == Lifecycle!LifeSpec

\* The same with every terminal job answered, so that a COMPLETED job had an
\* effect: what holds when jobs end by commitTerminalResult only.
AnsweredLifecycle == Lifecycle!AnsweredSpec
=============================================================================
