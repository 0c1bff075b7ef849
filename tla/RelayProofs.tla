------------------------------ MODULE RelayProofs ------------------------------
(***************************************************************************)
(* Relay, for any number of jobs, attempts and resources, any lease and any *)
(* faults: every step of Relay is a call that the job store and the         *)
(* Scheduler accept from any client, so what RelayStoreProofs and           *)
(* SchedulerProofs show of the two holds of Relay; and what Relay adds.     *)
(*                                                                          *)
(* The argument.  An attempt past ACCEPTED -> RUNNING is the execution that *)
(* the job has on record, and no other attempt ever is (OwnExecution): what *)
(* the store claims for that execution, it claims for that attempt          *)
(* (Invoked).                                                               *)
(***************************************************************************)
EXTENDS Relay, RelayStoreProofs

SchedP == INSTANCE SchedulerProofs WITH
  Evaluations <- Attempts, Reservations <- Attempts, Callers <- Attempts

\* Where an attempt is once the job was set RUNNING for it.
Started ==
  { "authorize", "recorded", "claim", "unclaimed", "invoke", "working", "answered",
    "invalid", "committed", "uncommitted" }

\* Where only a model attempt, and where only a tool attempt, can be.
ModelPoints ==
  { "prepare", "build", "listing", "abandon", "cleanup", "cleanupAll", "claim",
    "unclaimed", "invoke", "answered", "invalid", "uncommitted" }
ToolPoints == {"authorize", "recorded"}

\* A stored job has an intent.
KeysKnown ==
  \A j \in Jobs : Present(j) => jobs[j].fingerprint \in Fingerprints

AttemptsTypeOK ==
  /\ at \in [Attempts -> Attempt]
  /\ tracked \in [Jobs -> Attempts \cup {None}]
  /\ packages \in [Attempts -> {"none", "kept", "released"}]

\* An attempt that was made is for a job that was accepted, and is on the path
\* of its kind.
Assigned(a) ==
  IF At(a, "idle")
    THEN at[a] = IdleAttempt /\ packages[a] = "none"
    ELSE /\ Job(a) \in Jobs
         /\ at[a].kind \in Kinds
         /\ jobs[Job(a)].currentState \in {"ACCEPTED", "RUNNING", "COMPLETED", "FAILED"}
         /\ at[a].pc \in ModelPoints => IsModel(a)
         /\ at[a].pc \in ToolPoints => ~IsModel(a)

\* A started attempt is the execution of its job.
OwnExecution(a) ==
  /\ at[a].pc \in Started => jobs[Job(a)].executionId = a
  /\ \A j \in Jobs : jobs[j].executionId = a =>
       Job(a) = j /\ at[a].pc \in Started \cup {"done"}

\* What was claimed for an attempt before it called a model or a worker.
Invoked(a) ==
  /\ at[a].ran =>
       /\ at[a].pc \in Started \cup {"done"}
       /\ jobs[Job(a)].executionId = a
       /\ IF IsModel(a) THEN jobs[Job(a)].modelInvocation = a
                        ELSE jobs[Job(a)].invocationClaimed
  /\ IsModel(a) /\ at[a].pc \in {"invoke", "working", "answered", "invalid", "committed"} =>
       jobs[Job(a)].modelInvocation = a

Sound(a) == Assigned(a) /\ OwnExecution(a) /\ Invoked(a)

RelayInv ==
  /\ StoreInv
  /\ SchedP!SchedInv
  /\ KeysKnown
  /\ AttemptsTypeOK
  /\ \A a \in Attempts : Sound(a)

-----------------------------------------------------------------------------
(* The Scheduler that Relay calls is the one that SchedulerProofs is about. *)

LEMMA SameNows == Sched!Nows = SchedP!Nows
  BY DEF Sched!Nows, SchedP!Nows, Sched!TrustedNow, SchedP!TrustedNow

LEMMA EvaluateCalls ==
  ASSUME NEW e \in Attempts, NEW j \in Jobs, NEW q \in Requirements,
         NEW decision \in {"ELIGIBLE", "REFUSED"}, NEW now \in Sched!Nows,
         Sched!Evaluate(e, j, q, decision, now)
  PROVE  SchedP!SchedNext
<1>1. SchedP!Evaluate(e, j, q, decision, now)
  BY DEF Sched!Evaluate, SchedP!Evaluate, Sched!Evict, SchedP!Evict,
         Sched!ReadClock, SchedP!ReadClock
<1>. QED
  BY <1>1, SameNows DEF SchedP!SchedNext

LEMMA ReserveCalls ==
  ASSUME NEW e \in Attempts, NEW r \in Attempts, NEW j \in Jobs, NEW now \in Sched!Nows,
         Sched!Reserve(e, r, j, now)
  PROVE  SchedP!SchedNext
<1>1. SchedP!Reserve(e, r, j, now)
  BY DEF Sched!Reserve, SchedP!Reserve, Sched!Presentable, SchedP!Presentable,
         Sched!Fresh, SchedP!Fresh, Sched!LiveOwners, SchedP!LiveOwners,
         Sched!OnResource, SchedP!OnResource, Sched!Assessed, SchedP!Assessed,
         Sched!LeaseOver, SchedP!LeaseOver, Sched!ExpireIfNeeded, SchedP!ExpireIfNeeded,
         Sched!ReadClock, SchedP!ReadClock
<1>. QED
  BY <1>1, SameNows DEF SchedP!SchedNext

LEMMA ReserveRefusedCalls ==
  ASSUME NEW e \in Attempts, NEW j \in Jobs, NEW now \in Sched!Nows,
         Sched!ReserveRefused(e, j, now)
  PROVE  SchedP!SchedNext
<1>1. SchedP!ReserveRefused(e, j, now)
  BY DEF Sched!ReserveRefused, SchedP!ReserveRefused, Sched!Presentable, SchedP!Presentable,
         Sched!Fresh, SchedP!Fresh, Sched!LiveOwners, SchedP!LiveOwners,
         Sched!OnResource, SchedP!OnResource, Sched!Assessed, SchedP!Assessed,
         Sched!LeaseOver, SchedP!LeaseOver, Sched!ReadClock, SchedP!ReadClock
<1>. QED
  BY <1>1, SameNows DEF SchedP!SchedNext

LEMMA ReleaseCalls ==
  ASSUME NEW r \in Attempts, NEW now \in Sched!Nows, Sched!Release(r, 1, now)
  PROVE  SchedP!SchedNext
<1>1. SchedP!Release(r, 1, now)
  BY DEF Sched!Release, SchedP!Release, Sched!Releasable, SchedP!Releasable,
         Sched!LeaseOver, SchedP!LeaseOver, Sched!ExpireIfNeeded, SchedP!ExpireIfNeeded,
         Sched!ReadClock, SchedP!ReadClock
<1>2. 1 \in 1..2
  OBVIOUS
<1>. QED
  BY <1>1, <1>2, SameNows DEF SchedP!SchedNext

LEMMA ConfirmCalls ==
  ASSUME NEW c \in Attempts, NEW j \in Jobs, NEW q \in Requirements, NEW r \in Attempts,
         NEW jobCurrent \in BOOLEAN, NEW now \in Sched!Nows,
         Sched!ConfirmCall(c, j, q, r, jobCurrent, now)
  PROVE  SchedP!SchedNext
<1>1. SchedP!ConfirmCall(c, j, q, r, jobCurrent, now)
  BY DEF Sched!ConfirmCall, SchedP!ConfirmCall, Sched!LeaseOver, SchedP!LeaseOver,
         Sched!ExpireIfNeeded, SchedP!ExpireIfNeeded, Sched!ReadClock, SchedP!ReadClock
<1>. QED
  BY <1>1, SameNows DEF SchedP!SchedNext

LEMMA ResumeCalls ==
  ASSUME NEW c \in Attempts, NEW eligible \in BOOLEAN, Sched!ConfirmResume(c, eligible)
  PROVE  SchedP!SchedNext
<1>1. SchedP!ConfirmResume(c, eligible)
  BY DEF Sched!ConfirmResume, SchedP!ConfirmResume, Sched!StartChecks, SchedP!StartChecks
<1>. QED
  BY <1>1 DEF SchedP!SchedNext

-----------------------------------------------------------------------------
(* Every step of Relay is a call of the job store, or leaves it alone.      *)

LEMMA StepsWereBegun ==
  ASSUME NEW a \in Attempts, Step(a)
  PROVE  ~At(a, "idle") /\ ~At(a, "done")
  BY DEF Step, EvaluateStep, ReserveStep, PrepareStep, BuildStep, PackageStep, PackageFails,
         AbandonStep, FreshStep, ConfirmStep, ConfirmedStep, RefusedStep, CleanupStep,
         StartStep, LostStep, AuthorizeStep, DenyStep, CallWorkerStep, WorkerStep,
         GatewayThrows, ClaimModelStep, InvokeStep, ModelStep, GiveUpStep, CommittedStep, At

\* What the step proofs know of attempt a before its step.
Attempting(a) ==
  /\ Job(a) \in Jobs
  /\ at[a] \in Attempt
  /\ \A j \in Jobs : jobs[j] \in JobRecord

LEMMA StepsAreAttempts ==
  ASSUME RelayInv, NEW a \in Attempts, ~At(a, "idle")
  PROVE  Attempting(a)
  BY DEF RelayInv, Sound, Assigned, AttemptsTypeOK, Attempting, StoreInv, StoreTypeOK

\* An execution id is new when an attempt starts its job with it.
LEMMA StartIsFresh ==
  ASSUME RelayInv, NEW a \in Attempts, At(a, "start")
  PROVE  UnusedExecution(a)
  BY DEF RelayInv, Sound, OwnExecution, At, Started, UnusedExecution

LEMMA CommitCalls ==
  ASSUME NEW a \in Attempts, Job(a) \in Jobs, NEW outcome \in Outcomes, NEW onReject,
         CommitCall(a, outcome, onReject)
  PROVE  [AnsweredNext]_jobs
<1>1. IsModel(a) \in BOOLEAN
  BY DEF IsModel
<1>2. CASE CommitOk(Job(a), a, outcome, IsModel(a)) /\ CommitDo(Job(a), outcome)
  BY <1>1, <1>2 DEF AnsweredNext, Commit, Attempts
<1>. QED
  BY <1>2 DEF CommitCall

LEMMA OutcomeCodesKnown ==
  \A invocation, outcome : OutcomeCode(invocation, outcome) \in Outcomes
  BY DEF OutcomeCode, Outcomes, FailOutcomes

LEMMA AnsweredCalls ==
  ASSUME RelayInv, NEW a \in Attempts, Step(a)
  PROVE  [AnsweredNext]_jobs
<1>0. ~At(a, "idle")
  BY StepsWereBegun
<1>1. Attempting(a) /\ Job(a) \in Jobs /\ a \in Executions
  BY <1>0, StepsAreAttempts DEF Attempting, Attempts
<1>2. CASE PrepareStep(a)
  BY <1>1, <1>2, RelayRevisionAssumption DEF PrepareStep, ClaimContext, AnsweredNext
<1>3. CASE RefusedStep(a)
  BY <1>1, <1>3 DEF RefusedStep, ReleaseClaim, ReleaseContext, AnsweredNext
<1>4. CASE LostStep(a)
  BY <1>1, <1>4 DEF LostStep, ReleaseClaim, ReleaseContext, AnsweredNext
<1>5. CASE StartStep(a)
  BY <1>1, <1>5, StartIsFresh DEF StartStep, Running, AnsweredNext
<1>6. CASE AuthorizeStep(a)
  BY <1>1, <1>6 DEF AuthorizeStep, RecordDecision, Decisions, AnsweredNext
<1>7. CASE DenyStep(a)
  BY <1>1, <1>7, CommitCalls DEF DenyStep, Outcomes
<1>8. CASE CallWorkerStep(a)
  BY <1>1, <1>8 DEF CallWorkerStep, ClaimWorker, AnsweredNext
<1>9. CASE WorkerStep(a)
  BY <1>1, <1>9, CommitCalls DEF WorkerStep, WorkOutcomes, Outcomes
<1>10. CASE ClaimModelStep(a)
  BY <1>1, <1>10 DEF ClaimModelStep, ClaimModel, AnsweredNext
<1>11. CASE ModelStep(a)
  BY <1>1, <1>11, CommitCalls, OutcomeCodesKnown DEF ModelStep, Outcomes, FailOutcomes
<1>. QED
  BY <1>2, <1>3, <1>4, <1>5, <1>6, <1>7, <1>8, <1>9, <1>10, <1>11
  DEF Step, EvaluateStep, ReserveStep, BuildStep, PackageStep, PackageFails, AbandonStep,
      FreshStep, ConfirmStep, ConfirmedStep, CleanupStep, GatewayThrows, InvokeStep,
      GiveUpStep, CommittedStep

LEMMA StoreCalls ==
  ASSUME RelayInv, NEW a \in Attempts, Step(a)
  PROVE  [StoreNext]_jobs
  BY AnsweredCalls DEF StoreNext

-----------------------------------------------------------------------------
(* Every step of Relay is a call of the Scheduler, or leaves it alone.      *)

LEMMA ReleaseTrackedCalls ==
  ASSUME AttemptsTypeOK, NEW j \in Jobs, ReleaseTracked(j)
  PROVE  SchedP!SchedNext \/ UNCHANGED sched
  BY ReleaseCalls, SMT DEF ReleaseTracked, AttemptsTypeOK

LEMMA ReleaseOwnCalls ==
  ASSUME NEW a \in Attempts, ReleaseOwn(a)
  PROVE  SchedP!SchedNext \/ UNCHANGED sched
  BY ReleaseCalls DEF ReleaseOwn

LEMMA SchedulerCalls ==
  ASSUME RelayInv, NEW a \in Attempts, Step(a)
  PROVE  SchedP!SchedNext \/ UNCHANGED sched
<1>0. ~At(a, "idle")
  BY StepsWereBegun
<1>1. Job(a) \in Jobs /\ AttemptsTypeOK /\ RequirementOf[Job(a)] \in Requirements
  BY <1>0, StepsAreAttempts, RelayAssumption DEF Attempting, RelayInv
<1>2. CASE EvaluateStep(a)
  BY <1>1, <1>2, EvaluateCalls DEF EvaluateStep
<1>3. CASE ReserveStep(a)
  BY <1>1, <1>3, ReserveCalls, ReserveRefusedCalls DEF ReserveStep
<1>4. CASE AbandonStep(a)
  BY <1>4, ReleaseOwnCalls DEF AbandonStep
<1>5. CASE ConfirmStep(a)
  <2> DEFINE jobCurrent == /\ jobs[Job(a)].currentState = "ACCEPTED"
                           /\ jobs[Job(a)].revision = at[a].rev
  <2>1. jobCurrent \in BOOLEAN
    OBVIOUS
  <2>2. PICK now \in Sched!Nows :
          Sched!ConfirmCall(a, Job(a), RequirementOf[Job(a)], a, jobCurrent, now)
    BY <1>5 DEF ConfirmStep
  <2> HIDE DEF jobCurrent
  <2>. QED
    BY <1>1, <2>1, <2>2, ConfirmCalls
<1>6. CASE ConfirmedStep(a)
  BY <1>6, ResumeCalls DEF ConfirmedStep
<1>7. CASE RefusedStep(a)
  BY <1>7, ReleaseOwnCalls DEF RefusedStep
<1>8. CASE CleanupStep(a)
  BY <1>1, <1>8, ReleaseTrackedCalls DEF CleanupStep
<1>9. CASE LostStep(a)
  BY <1>1, <1>9, ReleaseTrackedCalls DEF LostStep, sched
<1>10. CASE GatewayThrows(a)
  BY <1>1, <1>10, ReleaseTrackedCalls DEF GatewayThrows
<1>11. CASE GiveUpStep(a)
  BY <1>1, <1>11, ReleaseTrackedCalls DEF GiveUpStep
<1>12. CASE CommittedStep(a)
  BY <1>1, <1>12, ReleaseTrackedCalls DEF CommittedStep
<1>. QED
  BY <1>2, <1>3, <1>4, <1>5, <1>6, <1>7, <1>8, <1>9, <1>10, <1>11, <1>12
  DEF Step, PrepareStep, BuildStep, PackageStep, PackageFails, FreshStep, StartStep,
      AuthorizeStep, DenyStep, CallWorkerStep, WorkerStep, ClaimModelStep, InvokeStep,
      ModelStep

-----------------------------------------------------------------------------
(* What no call of the store takes back.                                    *)

RecordGrows(j) ==
  /\ jobs[j].currentState # "ABSENT" =>
       /\ jobs'[j].currentState # "ABSENT"
       /\ jobs'[j].fingerprint = jobs[j].fingerprint
  /\ jobs[j].currentState \in {"ACCEPTED", "RUNNING", "COMPLETED", "FAILED"} =>
       jobs'[j].currentState \in {"ACCEPTED", "RUNNING", "COMPLETED", "FAILED"}
  /\ jobs[j].executionId # NoExecution => jobs'[j].executionId = jobs[j].executionId
  /\ jobs[j].modelInvocation # NoExecution =>
       jobs'[j].modelInvocation = jobs[j].modelInvocation
  /\ jobs[j].invocationClaimed => jobs'[j].invocationClaimed
  /\ jobs'[j].currentState # "ABSENT" =>
       jobs[j].currentState # "ABSENT" \/ jobs'[j].fingerprint \in Fingerprints

LEMMA GrowsStep ==
  ASSUME StoreInv, [StoreNext]_jobs
  PROVE  \A k \in Jobs : RecordGrows(k)
<1> USE DEF StoreInv, StoreTypeOK, JobRecord, JobStates, LiveStates, TerminalStates,
            ExecutionInv, Untouched, EffectExclusive, RecordGrows
<1>1. ASSUME NEW j \in Jobs, NEW ns \in Namespaces, NEW fp \in Fingerprints, Claim(j, ns, fp)
      PROVE  \A k \in Jobs : RecordGrows(k)
  BY <1>1, SMTT(30) DEF Claim, ClaimOk, ClaimDo, AbsentJob, Present
<1>2. ASSUME NEW j \in Jobs, Accept(j) PROVE \A k \in Jobs : RecordGrows(k)
  BY <1>2, SMTT(30) DEF Accept, AcceptOk, AcceptDo
<1>3. ASSUME NEW j \in Jobs, ClaimContext(j) PROVE \A k \in Jobs : RecordGrows(k)
  BY <1>3, SMTT(30) DEF ClaimContext, ClaimContextDo
<1>4. ASSUME NEW j \in Jobs, ReleaseContext(j) PROVE \A k \in Jobs : RecordGrows(k)
  BY <1>4, SMTT(30) DEF ReleaseContext, ReleaseContextDo
<1>5. ASSUME NEW j \in Jobs, NEW e \in Executions, Running(j, e)
      PROVE  \A k \in Jobs : RecordGrows(k)
  BY <1>5, SMTT(30) DEF Running, RunningOk, RunningDo
<1>6. ASSUME NEW j \in Jobs, NEW e \in Executions, NEW decision \in Decisions,
             RecordDecision(j, e, decision)
      PROVE  \A k \in Jobs : RecordGrows(k)
  BY <1>6, SMTT(30) DEF RecordDecision, RecordDecisionDo
<1>7. ASSUME NEW j \in Jobs, NEW e \in Executions, ClaimWorker(j, e)
      PROVE  \A k \in Jobs : RecordGrows(k)
  BY <1>7, SMTT(30) DEF ClaimWorker, ClaimWorkerDo
<1>8. ASSUME NEW j \in Jobs, NEW e \in Executions, ClaimModel(j, e)
      PROVE  \A k \in Jobs : RecordGrows(k)
  BY <1>8, SMTT(30) DEF ClaimModel, ClaimModelOk, ClaimModelDo
<1>9. ASSUME NEW j \in Jobs, NEW e \in Executions, NEW outcome \in Outcomes,
             NEW modelBacked \in BOOLEAN, Commit(j, e, outcome, modelBacked)
      PROVE  \A k \in Jobs : RecordGrows(k)
  <2>1. StateOf(outcome) \in {"COMPLETED", "FAILED"}
    BY DEF StateOf
  <2>. QED
    BY <1>9, <2>1, SMTT(30) DEF Commit, CommitOk, CommitDo
<1>10. CASE UNCHANGED jobs
  BY <1>10
<1>11. ASSUME NEW j \in Jobs, NEW e \in Executions, NEW to \in TerminalStates,
              Finish(j, e, to)
       PROVE  \A k \in Jobs : RecordGrows(k)
  BY <1>11, SMTT(30) DEF Finish, FinishOk, FinishDo
<1>. QED
  BY <1>1, <1>2, <1>3, <1>4, <1>5, <1>6, <1>7, <1>8, <1>9, <1>10, <1>11
  DEF StoreNext, AnsweredNext

\* The calls that leave the execution on record as it was.
KeepsExecution ==
  \A j \in Jobs :
    /\ jobs[j].currentState \in {"ACCEPTED", "RUNNING", "COMPLETED", "FAILED"} =>
         jobs'[j].currentState \in {"ACCEPTED", "RUNNING", "COMPLETED", "FAILED"}
    /\ jobs'[j].executionId = jobs[j].executionId
    /\ jobs'[j].modelInvocation = jobs[j].modelInvocation
    /\ jobs'[j].invocationClaimed = jobs[j].invocationClaimed

LEMMA ContextKeeps ==
  ASSUME StoreTypeOK, NEW j \in Jobs, ClaimContextDo(j) \/ ReleaseContextDo(j)
  PROVE  KeepsExecution
  BY DEF StoreTypeOK, JobRecord, ClaimContextDo, ReleaseContextDo, KeepsExecution

LEMMA AcceptKeeps ==
  ASSUME StoreInv, NEW j \in Jobs,
         Accept(j) \/ \E ns \in Namespaces, fp \in Fingerprints : Claim(j, ns, fp)
  PROVE  KeepsExecution
<1> USE DEF StoreInv, StoreTypeOK, JobRecord, KeepsExecution
<1>1. CASE Accept(j)
  BY <1>1 DEF Accept, AcceptOk, AcceptDo
<1>2. ASSUME NEW ns \in Namespaces, NEW fp \in Fingerprints, Claim(j, ns, fp)
      PROVE  KeepsExecution
  BY ZenonT(60), <1>2 DEF Claim, ClaimOk, ClaimDo, AbsentJob, Present, ExecutionInv, Untouched,
              EffectExclusive
<1>. QED
  BY <1>1, <1>2

LEMMA DecisionKeeps ==
  ASSUME StoreTypeOK, NEW j \in Jobs, NEW e, NEW decision, RecordDecisionDo(j, e, decision)
  PROVE  KeepsExecution
  BY DEF StoreTypeOK, JobRecord, RecordDecisionDo, KeepsExecution

LEMMA CommitKeeps ==
  ASSUME StoreTypeOK, NEW a \in Attempts, Job(a) \in Jobs, NEW outcome, NEW onReject,
         CommitCall(a, outcome, onReject)
  PROVE  KeepsExecution
<1>1. StateOf(outcome) \in {"COMPLETED", "FAILED"}
  BY DEF StateOf
<1>2. CASE CommitDo(Job(a), outcome)
  BY <1>1, <1>2 DEF StoreTypeOK, JobRecord, CommitDo, KeepsExecution
<1>3. CASE UNCHANGED jobs
  BY <1>3 DEF KeepsExecution
<1>. QED
  BY <1>2, <1>3 DEF CommitCall

-----------------------------------------------------------------------------
(* The attempts.                                                            *)

\* An attempt moves alone, for the job and on the path it was made for.
Moved(a) ==
  /\ at' \in [Attempts -> Attempt]
  /\ at'[a].pc # "idle"
  /\ at'[a].job = at[a].job
  /\ at'[a].kind = at[a].kind
  /\ \A b \in Attempts : b # a => at'[b] = at[b]

LEMMA GotoMoves ==
  ASSUME AttemptsTypeOK, NEW a \in Attempts, NEW pc \in Points, pc # "idle", Goto(a, pc)
  PROVE  Moved(a) /\ at'[a].pc = pc /\ at'[a].ran = at[a].ran
<1> DEFINE context == IF pc = "done" THEN <<>> ELSE at[a].context
           moved == [at[a] EXCEPT !.pc = pc, !.context = context]
<1>1. at[a] \in Attempt
  BY DEF AttemptsTypeOK
<1>2. context \in Contexts
  <2>1. <<>> \in Contexts
    BY DEF Contexts
  <2>2. at[a].context \in Contexts
    BY <1>1 DEF Attempt
  <2>. QED
    BY <2>1, <2>2
<1>3. at' = [at EXCEPT ![a] = moved]
  BY <1>1 DEF Goto, AttemptsTypeOK, Attempt
<1> HIDE DEF context
<1>4. /\ moved \in Attempt
      /\ moved.pc = pc /\ moved.job = at[a].job
      /\ moved.kind = at[a].kind /\ moved.ran = at[a].ran
  BY <1>1, <1>2 DEF Attempt
<1> HIDE DEF moved
<1>. QED
  BY <1>3, <1>4 DEF AttemptsTypeOK, Moved

LEMMA AttemptMoves ==
  ASSUME AttemptsTypeOK, NEW a \in Attempts, NEW rec \in Attempt,
         at' = [at EXCEPT ![a] = rec], rec.pc # "idle",
         rec.job = at[a].job, rec.kind = at[a].kind
  PROVE  Moved(a) /\ at'[a] = rec
  BY DEF AttemptsTypeOK, Moved

\* Who did not move is as sound as before: the store only grows, and no job is
\* set RUNNING for it.
LEMMA OthersStaySound ==
  ASSUME RelayInv, NEW a \in Attempts, NEW b \in Attempts,
         \A j \in Jobs : RecordGrows(j),
         \A j \in Jobs : jobs'[j].executionId \in {jobs[j].executionId, a},
         at'[b] = at[b], b # a, At(b, "idle") => packages'[b] = packages[b]
  PROVE  Sound(b)'
<1>1. Sound(b)
  BY DEF RelayInv
<1>2. Assigned(b)'
  BY <1>1 DEF Sound, Assigned, RecordGrows, At, Job, IsModel
<1>3. CASE At(b, "idle")
  <2>1. at'[b].pc = "idle" /\ ~at'[b].ran
    BY <1>1, <1>3 DEF Sound, Assigned, At, IdleAttempt
  <2>2. \A j \in Jobs : jobs'[j].executionId # b
    BY <1>1, <1>3 DEF Sound, OwnExecution, At, Started
  <2>. QED
    BY <1>2, <2>1, <2>2 DEF Sound, OwnExecution, Invoked, Started
<1>4. CASE ~At(b, "idle")
  <2>1. Job(b) \in Jobs /\ b # NoExecution
    BY <1>1, <1>4, NoExecutionAssumption DEF Sound, Assigned, Attempts
  <2>2. OwnExecution(b)'
    BY <1>1, <2>1 DEF Sound, OwnExecution, RecordGrows, Job
  <2>3. Invoked(b)'
    BY <1>1, <2>1 DEF Sound, Invoked, RecordGrows, Job, IsModel
  <2>. QED
    BY <1>2, <2>2, <2>3 DEF Sound
<1>. QED
  BY <1>3, <1>4

\* A job is set RUNNING for an attempt.
SetRunning(a) ==
  /\ jobs'[Job(a)].currentState = "RUNNING"
  /\ jobs'[Job(a)].executionId = a
  /\ \A j \in Jobs : j # Job(a) => jobs'[j].executionId = jobs[j].executionId

LEMMA RunningSets ==
  ASSUME StoreTypeOK, NEW a \in Attempts, Job(a) \in Jobs,
         RunningOk(Job(a)), RunningDo(Job(a), a)
  PROVE  SetRunning(a)
  BY DEF StoreTypeOK, JobRecord, RunningOk, RunningDo, SetRunning

\* A started model attempt claims its invocation.
ModelClaimed(a) ==
  /\ jobs'[Job(a)].modelInvocation = a
  /\ jobs'[Job(a)].currentState = "RUNNING"
  /\ jobs'[Job(a)].invocationClaimed = jobs[Job(a)].invocationClaimed
  /\ \A j \in Jobs : jobs'[j].executionId = jobs[j].executionId

LEMMA ClaimModelClaims ==
  ASSUME StoreTypeOK, NEW a \in Attempts, Job(a) \in Jobs,
         ClaimModelOk(Job(a), a), ClaimModelDo(Job(a), a)
  PROVE  ModelClaimed(a)
  BY DEF StoreTypeOK, JobRecord, ClaimModelOk, ClaimModelDo, ModelClaimed

\* A started tool attempt claims its worker.
WorkerClaimed(a) ==
  /\ jobs'[Job(a)].invocationClaimed
  /\ jobs[Job(a)].executionId = a
  /\ \A j \in Jobs :
       /\ jobs[j].currentState \in {"ACCEPTED", "RUNNING", "COMPLETED", "FAILED"} =>
            jobs'[j].currentState \in {"ACCEPTED", "RUNNING", "COMPLETED", "FAILED"}
       /\ jobs'[j].executionId = jobs[j].executionId

LEMMA ClaimWorkerClaims ==
  ASSUME StoreTypeOK, NEW a \in Attempts, Job(a) \in Jobs, jobs[Job(a)].executionId = a,
         ClaimWorkerOk(Job(a), a), ClaimWorkerDo(Job(a))
  PROVE  WorkerClaimed(a)
  BY DEF StoreTypeOK, JobRecord, ClaimWorkerOk, ClaimWorkerDo, WorkerClaimed

LEMMA PresentContent ==
  ASSUME KeysKnown, NEW a \in Attempts, Assigned(a), ~At(a, "idle")
  PROVE  jobs[Job(a)].fingerprint \in Fingerprints
         /\ Content(a) = ContentOf[jobs[Job(a)].fingerprint]
  BY DEF KeysKnown, Assigned, Present, Content

\* The attempt that moves stays sound.
MovesSoundly(a) ==
  /\ Moved(a)
  /\ Sound(a)'
  /\ \A j \in Jobs : jobs'[j].executionId \in {jobs[j].executionId, a}

LEMMA StepIsSound ==
  ASSUME RelayInv, NEW a \in Attempts, Step(a)
  PROVE  MovesSoundly(a)
<1>1. ~At(a, "idle")
  BY StepsWereBegun
<1>2. /\ Job(a) \in Jobs /\ at[a] \in Attempt /\ AttemptsTypeOK /\ Sound(a)
      /\ \A j \in Jobs : jobs[j] \in JobRecord
      /\ StoreTypeOK
  BY <1>1, StepsAreAttempts DEF RelayInv, Attempting, StoreInv
<1>3. Kinds \subseteq {"tool", "model"} /\ SchedulerWired \in BOOLEAN
  BY RelayAssumption
<1> USE DEF MovesSoundly, Sound, Assigned, OwnExecution, Invoked, At, Job, IsModel,
            Started, ModelPoints, ToolPoints, Points
<1>4. CASE EvaluateStep(a)
  BY <1>1, <1>2, <1>3, <1>4, GotoMoves DEF EvaluateStep, RelayInv, Moved
<1>5. CASE ReserveStep(a)
  BY <1>1, <1>2, <1>3, <1>5, GotoMoves DEF ReserveStep, RelayInv, Moved
<1>6. CASE BuildStep(a)
  <2>1. PICK p \in {"listing", "abandon"} : Goto(a, p)
    BY <1>6 DEF BuildStep
  <2>2. Moved(a) /\ at'[a].pc = p /\ jobs' = jobs
    BY <1>2, <1>6, <2>1, GotoMoves DEF BuildStep
  <2>3. \A j \in Jobs : jobs'[j].executionId \in {jobs[j].executionId, a}
    BY <2>2
  <2>4. at'[a].ran = at[a].ran /\ UNCHANGED packages /\ at[a].pc = "build"
    BY <1>2, <1>6, <2>1, GotoMoves DEF BuildStep
  <2>5. Assigned(a)'
    BY <1>2, <1>3, <2>2, <2>4 DEF Moved
  <2>6. OwnExecution(a)' /\ Invoked(a)'
    BY <1>2, <2>2, <2>4 DEF Moved
  <2>. QED
    BY <2>2, <2>3, <2>5, <2>6
<1>7. CASE PackageFails(a)
  BY <1>1, <1>2, <1>3, <1>7, GotoMoves DEF PackageFails, RelayInv, Moved
<1>8. CASE AbandonStep(a)
  BY <1>1, <1>2, <1>3, <1>8, GotoMoves DEF AbandonStep, RelayInv, Moved
<1>9. CASE ConfirmedStep(a)
  BY <1>1, <1>2, <1>3, <1>9, GotoMoves DEF ConfirmedStep, RelayInv, Moved
<1>10. CASE CleanupStep(a)
  BY <1>1, <1>2, <1>3, <1>10, GotoMoves DEF CleanupStep, RelayInv, Moved
<1>11. CASE GatewayThrows(a)
  BY <1>1, <1>2, <1>3, <1>11, GotoMoves DEF GatewayThrows, RelayInv, Moved
<1>12. CASE GiveUpStep(a)
  BY <1>1, <1>2, <1>3, <1>12, GotoMoves DEF GiveUpStep, RelayInv, Moved
<1>13. CASE CommittedStep(a)
  BY SMTT(30), <1>1, <1>2, <1>3, <1>13, GotoMoves DEF CommittedStep, RelayInv, Moved
<1>14. CASE PrepareStep(a)
  <2>1. Moved(a) /\ at'[a].pc \in {"build", "abandon"} /\ at'[a].ran = at[a].ran
    BY <1>2, <1>14, GotoMoves DEF PrepareStep
  <2>2. KeepsExecution
    BY <1>2, <1>14, ContextKeeps DEF PrepareStep, KeepsExecution
  <2>. QED
    BY <1>1, <1>2, <1>3, <1>14, <2>1, <2>2 DEF KeepsExecution, Moved, PrepareStep
<1>15. CASE RefusedStep(a)
  <2>1. Moved(a) /\ at'[a].pc \in {"cleanup", "cleanupAll", "done"} /\ at'[a].ran = at[a].ran
    BY <1>2, <1>15, GotoMoves DEF RefusedStep, ReleaseClaim
  <2>2. KeepsExecution
    <3>1. CASE ReleaseContextDo(Job(a))
      BY <1>2, <3>1, ContextKeeps
    <3>2. CASE UNCHANGED jobs
      BY <3>2 DEF KeepsExecution
    <3>. QED
      BY <1>15, <3>1, <3>2 DEF RefusedStep, ReleaseClaim
  <2>3. at[a].pc = "refused" /\ (IsModel(a) \/ at'[a].pc = "done")
    BY <1>2, <1>15, GotoMoves DEF RefusedStep
  <2>. QED
    BY <1>1, <1>2, <1>3, <2>1, <2>2, <2>3 DEF KeepsExecution, Moved
<1>16. CASE LostStep(a)
  <2>1. Moved(a) /\ at'[a].pc \in {"cleanup", "cleanupAll", "done"} /\ at'[a].ran = at[a].ran
    BY <1>2, <1>16, GotoMoves DEF LostStep, ReleaseClaim
  <2>2. KeepsExecution
    <3>1. CASE ReleaseContextDo(Job(a))
      BY <1>2, <3>1, ContextKeeps
    <3>2. CASE UNCHANGED jobs
      BY <3>2 DEF KeepsExecution
    <3>. QED
      BY <1>16, <3>1, <3>2 DEF LostStep, ReleaseClaim
  <2>3. at[a].pc = "lost" /\ (IsModel(a) \/ at'[a].pc = "done")
    BY <1>2, <1>16, GotoMoves DEF LostStep
  <2>. QED
    BY <1>1, <1>2, <1>3, <2>1, <2>2, <2>3 DEF KeepsExecution, Moved
<1>17. CASE StartStep(a)
  <2>1. Moved(a) /\ at'[a].pc \in {"claim", "authorize", "lost"} /\ at'[a].ran = at[a].ran
    BY <1>2, <1>17, GotoMoves DEF StartStep
  <2>2. CASE RunningOk(Job(a)) /\ RunningDo(Job(a), a)
             /\ Goto(a, IF IsModel(a) THEN "claim" ELSE "authorize")
    <3>1. at'[a].pc = IF IsModel(a) THEN "claim" ELSE "authorize"
      BY <1>2, <2>2, GotoMoves
    <3>2. SetRunning(a)
      BY <1>2, <2>2, RunningSets
    <3>. QED
      BY <1>1, <1>2, <1>3, <1>17, <2>1, <3>1, <3>2 DEF SetRunning, Moved, StartStep
  <2>3. CASE UNCHANGED jobs /\ Goto(a, "lost")
    BY <1>1, <1>2, <1>3, <1>17, <2>1, <2>3, GotoMoves DEF Moved, StartStep
  <2>. QED
    BY <1>17, <2>2, <2>3 DEF StartStep
<1>18. CASE AuthorizeStep(a)
  <2>1. Moved(a) /\ at'[a].pc \in {"recorded", "done"} /\ at'[a].ran = at[a].ran
    BY <1>2, <1>18, GotoMoves DEF AuthorizeStep
  <2>2. KeepsExecution
    BY <1>2, <1>18, DecisionKeeps DEF AuthorizeStep, KeepsExecution
  <2>. QED
    BY <1>1, <1>2, <1>3, <1>18, <2>1, <2>2 DEF KeepsExecution, Moved, AuthorizeStep
<1>19. CASE DenyStep(a)
  <2>1. Moved(a) /\ at'[a].pc \in {"committed", "done"} /\ at'[a].ran = at[a].ran
    BY <1>2, <1>19, GotoMoves DEF DenyStep, CommitCall
  <2>2. KeepsExecution
    BY <1>2, <1>19, CommitKeeps DEF DenyStep
  <2>3. ~IsModel(a)
    BY <1>1, <1>2, <1>19 DEF DenyStep
  <2>. QED
    BY <1>1, <1>2, <1>3, <1>19, <2>1, <2>2, <2>3 DEF KeepsExecution, Moved, DenyStep
<1>20. CASE WorkerStep(a)
  <2>1. Moved(a) /\ at'[a].pc \in {"committed", "done"} /\ at'[a].ran = at[a].ran
    BY <1>2, <1>20, GotoMoves DEF WorkerStep, CommitCall
  <2>2. KeepsExecution
    BY <1>2, <1>20, CommitKeeps DEF WorkerStep
  <2>. QED
    BY <1>1, <1>2, <1>3, <1>20, <2>1, <2>2 DEF KeepsExecution, Moved, WorkerStep
<1>21. CASE ModelStep(a)
  <2>1. Moved(a) /\ at'[a].pc \in {"committed", "uncommitted"} /\ at'[a].ran = at[a].ran
    BY <1>2, <1>21, GotoMoves DEF ModelStep, CommitCall
  <2>2. KeepsExecution
    BY <1>2, <1>21, CommitKeeps DEF ModelStep
  <2>. QED
    BY <1>1, <1>2, <1>3, <1>21, <2>1, <2>2 DEF KeepsExecution, Moved, ModelStep
<1>22. CASE ClaimModelStep(a)
  <2>1. Moved(a) /\ at'[a].ran = at[a].ran
    BY <1>2, <1>22, GotoMoves DEF ClaimModelStep
  <2>2. CASE ClaimModelOk(Job(a), a) /\ ClaimModelDo(Job(a), a) /\ Goto(a, "invoke")
    <3>1. at'[a].pc = "invoke"
      BY <1>2, <2>2, GotoMoves
    <3>2. ModelClaimed(a)
      BY <1>2, <2>2, ClaimModelClaims
    <3>. QED
      BY <1>1, <1>2, <1>3, <1>22, <2>1, <3>1, <3>2 DEF ModelClaimed, Moved, ClaimModelStep
  <2>3. CASE UNCHANGED jobs /\ Goto(a, "unclaimed")
    BY <1>1, <1>2, <1>3, <1>22, <2>1, <2>3, GotoMoves DEF Moved, ClaimModelStep
  <2>. QED
    BY <1>22, <2>2, <2>3 DEF ClaimModelStep
<1>23. CASE PackageStep(a)
  <2>1. Moved(a) /\ at'[a].pc \in {"fresh", "start"} /\ at'[a].ran = at[a].ran
    <3>1. PICK listed \in Listings : at' = [at EXCEPT
            ![a].pc = IF SchedulerWired THEN "fresh" ELSE "start",
            ![a].context = ContextItems(listed, Environment, Content(a).department)]
      BY <1>23 DEF PackageStep
    <3> DEFINE context == ContextItems(listed, Environment, Content(a).department)
               rec == [at[a] EXCEPT !.pc = IF SchedulerWired THEN "fresh" ELSE "start",
                                    !.context = context]
    <3>2. context \in Contexts
      BY <1>1, <1>2, PresentContent DEF Contexts, RelayInv
    <3>3. at' = [at EXCEPT ![a] = rec]
      BY <1>2, <3>1 DEF AttemptsTypeOK, Attempt
    <3> HIDE DEF context
    <3>4. rec \in Attempt /\ rec.pc \in {"fresh", "start"} /\ rec.ran = at[a].ran
          /\ rec.job = at[a].job /\ rec.kind = at[a].kind
      BY <1>2, <3>2 DEF Attempt
    <3>. QED
      BY ZenonT(60), <1>2, <3>3, <3>4, AttemptMoves
  <2>. QED
    BY <1>1, <1>2, <1>3, <1>23, <2>1 DEF PackageStep, Moved
<1>24. CASE FreshStep(a)
  <2> DEFINE rec == [at[a] EXCEPT
        !.pc  = IF jobs[Job(a)].currentState = "ACCEPTED" THEN "confirm" ELSE "refused",
        !.rev = IF jobs[Job(a)].currentState = "ACCEPTED" THEN jobs[Job(a)].revision ELSE 0]
  <2>1. at' = [at EXCEPT ![a] = rec]
    BY <1>2, <1>24 DEF FreshStep, AttemptsTypeOK, Attempt
  <2>2. rec \in Attempt /\ rec.pc \in {"confirm", "refused"} /\ rec.ran = at[a].ran
        /\ rec.job = at[a].job /\ rec.kind = at[a].kind
    BY ZenonT(60), <1>2 DEF Attempt, JobRecord
  <2> HIDE DEF rec
  <2>3. Moved(a) /\ at'[a] = rec
    BY <1>2, <2>1, <2>2, AttemptMoves
  <2>. QED
    BY <1>1, <1>2, <1>3, <1>24, <2>2, <2>3 DEF FreshStep, Moved
<1>25. CASE ConfirmStep(a)
  <2> DEFINE rec == [at[a] EXCEPT !.pc = "confirming", !.rev = 0]
  <2>1. at' = [at EXCEPT ![a] = rec]
    BY <1>2, <1>25 DEF ConfirmStep, AttemptsTypeOK, Attempt
  <2>2. rec \in Attempt /\ rec.pc = "confirming" /\ rec.ran = at[a].ran
        /\ rec.job = at[a].job /\ rec.kind = at[a].kind
    BY <1>2 DEF Attempt
  <2> HIDE DEF rec
  <2>3. Moved(a) /\ at'[a] = rec
    BY <1>2, <2>1, <2>2, AttemptMoves
  <2>. QED
    BY <1>1, <1>2, <1>3, <1>25, <2>2, <2>3 DEF ConfirmStep, Moved
<1>26. CASE CallWorkerStep(a)
  <2>1. CASE ClaimWorkerOk(Job(a), a) /\ ClaimWorkerDo(Job(a))
             /\ at' = [at EXCEPT ![a].pc = "working", ![a].ran = TRUE]
    <3> DEFINE rec == [at[a] EXCEPT !.pc = "working", !.ran = TRUE]
    <3>1. at' = [at EXCEPT ![a] = rec]
      BY <1>2, <2>1 DEF AttemptsTypeOK, Attempt
    <3>2. rec \in Attempt /\ rec.pc = "working" /\ rec.ran
          /\ rec.job = at[a].job /\ rec.kind = at[a].kind
      BY <1>2 DEF Attempt
    <3> HIDE DEF rec
    <3>3. Moved(a) /\ at'[a] = rec
      BY <1>2, <3>1, <3>2, AttemptMoves
    <3>4. WorkerClaimed(a)
      BY <1>1, <1>2, <1>26, <2>1, ClaimWorkerClaims DEF CallWorkerStep
    <3>5. ~IsModel(a)
      BY <1>1, <1>2, <1>26 DEF CallWorkerStep
    <3>. QED
      BY <1>1, <1>2, <1>3, <1>26, <3>2, <3>3, <3>4, <3>5 DEF WorkerClaimed, Moved, CallWorkerStep
  <2>2. CASE UNCHANGED jobs /\ Goto(a, "done")
    BY SMTT(60), <1>1, <1>2, <1>3, <1>26, <2>2, GotoMoves DEF Moved, CallWorkerStep
  <2>. QED
    BY <1>26, <2>1, <2>2 DEF CallWorkerStep
<1>27. CASE InvokeStep(a)
  <2>1. CASE at' = [at EXCEPT ![a].pc = "working", ![a].ran = TRUE]
    <3> DEFINE rec == [at[a] EXCEPT !.pc = "working", !.ran = TRUE]
    <3>1. at' = [at EXCEPT ![a] = rec]
      BY <1>2, <2>1 DEF AttemptsTypeOK, Attempt
    <3>2. rec \in Attempt /\ rec.pc = "working" /\ rec.ran
          /\ rec.job = at[a].job /\ rec.kind = at[a].kind
      BY <1>2 DEF Attempt
    <3> HIDE DEF rec
    <3>3. Moved(a) /\ at'[a] = rec
      BY <1>2, <3>1, <3>2, AttemptMoves
    <3>. QED
      BY <1>1, <1>2, <1>3, <1>27, <3>2, <3>3 DEF Moved, InvokeStep
  <2>2. CASE at' = [at EXCEPT ![a].pc = "answered"]
    <3> DEFINE rec == [at[a] EXCEPT !.pc = "answered"]
    <3>1. rec \in Attempt /\ rec.pc = "answered" /\ rec.ran = at[a].ran
          /\ rec.job = at[a].job /\ rec.kind = at[a].kind
      BY <1>2 DEF Attempt
    <3>2. at' = [at EXCEPT ![a] = rec]
      BY <1>2, <2>2 DEF AttemptsTypeOK, Attempt
    <3> HIDE DEF rec
    <3>3. Moved(a) /\ at'[a] = rec
      BY <1>2, <3>1, <3>2, AttemptMoves
    <3>. QED
      BY <1>1, <1>2, <1>3, <1>27, <3>1, <3>3 DEF Moved, InvokeStep
  <2>3. CASE Goto(a, "invalid")
    BY ZenonT(60), <1>1, <1>2, <1>3, <1>27, <2>3, GotoMoves DEF Moved, InvokeStep
  <2>. QED
    BY <1>27, <2>1, <2>2, <2>3 DEF InvokeStep
<1>. QED
  BY <1>4, <1>5, <1>6, <1>7, <1>8, <1>9, <1>10, <1>11, <1>12, <1>13, <1>14, <1>15, <1>16, <1>17, <1>18, <1>19, <1>20, <1>21, <1>22, <1>23, <1>24, <1>25, <1>26, <1>27 DEF Step

\* What is tracked and retained.
LEMMA TablesStep ==
  ASSUME RelayInv, NEW a \in Attempts, Step(a)
  PROVE  /\ tracked' \in [Jobs -> Attempts \cup {None}]
         /\ packages' \in [Attempts -> {"none", "kept", "released"}]
         /\ \A b \in Attempts : At(b, "idle") /\ b # a => packages'[b] = packages[b]
<1>1. ~At(a, "idle")
  BY StepsWereBegun
<1>2. Job(a) \in Jobs /\ AttemptsTypeOK
  BY <1>1, StepsAreAttempts DEF RelayInv, Attempting
<1>3. tracked' \in [Jobs -> Attempts \cup {None}]
  BY <1>2 DEF AttemptsTypeOK, Step, EvaluateStep, ReserveStep, PrepareStep, BuildStep,
         PackageStep, PackageFails, AbandonStep, FreshStep, ConfirmStep, ConfirmedStep,
         RefusedStep, CleanupStep, StartStep, LostStep, AuthorizeStep, DenyStep,
         CallWorkerStep, WorkerStep, GatewayThrows, ClaimModelStep, InvokeStep, ModelStep,
         GiveUpStep, CommittedStep, ReleaseTracked
<1>4. ASSUME NEW b \in Attempts, At(b, "idle")
      PROVE  at[b].job # Job(a)
  BY <1>2, <1>4, RelayNoneAssumption DEF RelayInv, Sound, Assigned, IdleAttempt
<1>5. CASE UNCHANGED packages
  BY <1>2, <1>3, <1>5 DEF AttemptsTypeOK
<1>6. CASE packages' = [packages EXCEPT ![a] = "kept"]
  BY <1>2, <1>3, <1>6 DEF AttemptsTypeOK
<1>7. CASE ReleasePackages(Job(a))
  BY <1>2, <1>3, <1>4, <1>7 DEF AttemptsTypeOK, ReleasePackages
<1>. QED
  BY <1>5, <1>6, <1>7
  DEF Step, EvaluateStep, ReserveStep, PrepareStep, BuildStep, PackageStep, PackageFails,
      AbandonStep, FreshStep, ConfirmStep, ConfirmedStep, RefusedStep, CleanupStep,
      StartStep, LostStep, AuthorizeStep, DenyStep, CallWorkerStep, WorkerStep,
      GatewayThrows, ClaimModelStep, InvokeStep, ModelStep, GiveUpStep, CommittedStep

-----------------------------------------------------------------------------
(* The invariant.                                                           *)

LEMMA RelayInvInit == RelayInit => RelayInv
<1> SUFFICES ASSUME RelayInit PROVE RelayInv
  OBVIOUS
<1>1. StoreInv
  BY StoreInvInit DEF RelayInit
<1>2. SchedP!SchedInv
  <2>1. SchedP!SchedInit
    BY DEF RelayInit, Sched!SchedInit, SchedP!SchedInit, Sched!NoTrace, SchedP!NoTrace,
           Sched!NoReservation, SchedP!NoReservation, Sched!NoStart, SchedP!NoStart
  <2>. QED
    BY <2>1, SchedP!SchedInvInit, RelayLeaseAssumption, RelayResourceOfAssumption,
       RelayNoneAssumption
<1>3. KeysKnown
  BY DEF RelayInit, StoreInit, AbsentJob, KeysKnown, Present
<1>4. AttemptsTypeOK
  BY DEF RelayInit, AttemptsTypeOK, Attempt, IdleAttempt, Points, Contexts
<1>5. ASSUME NEW a \in Attempts PROVE Sound(a)
  BY <1>5, NoExecutionAssumption
  DEF RelayInit, StoreInit, AbsentJob, Sound, Assigned, OwnExecution, Invoked, IdleAttempt,
      At, Started, IsModel, Attempts
<1>. QED
  BY <1>1, <1>2, <1>3, <1>4, <1>5 DEF RelayInv

\* What a step of Relay is to the store, where it ends no job without a result,
\* and to the Scheduler.
LEMMA PartsStep ==
  ASSUME RelayInv, [RelayNext]_relayVars
  PROVE  [AnsweredNext]_jobs /\ [StoreNext]_jobs /\ [SchedP!SchedNext]_sched
<1>1. ASSUME NEW j \in Jobs, SubmitJob(j) \/ AcceptJob(j)
      PROVE  [AnsweredNext]_jobs /\ UNCHANGED sched
  BY <1>1 DEF SubmitJob, AcceptJob, AnsweredNext
<1>2. ASSUME NEW a \in Attempts, NEW j \in Jobs, NEW kind \in Kinds, Begin(a, j, kind)
      PROVE  UNCHANGED jobs /\ UNCHANGED sched
  BY <1>2 DEF Begin
<1>3. ASSUME NEW a \in Attempts, Step(a)
      PROVE  [AnsweredNext]_jobs /\ [SchedP!SchedNext]_sched
  BY <1>3, AnsweredCalls, SchedulerCalls
<1>4. CASE UNCHANGED relayVars
  BY <1>4 DEF relayVars, sched
<1>. QED
  BY <1>1, <1>2, <1>3, <1>4 DEF RelayNext, StoreNext

LEMMA BeginIsSound ==
  ASSUME RelayInv, NEW a \in Attempts, NEW j \in Jobs, NEW kind \in Kinds, Begin(a, j, kind)
  PROVE  /\ AttemptsTypeOK'
         /\ Sound(a)'
         /\ \A b \in Attempts : b # a => at'[b] = at[b]
<1> DEFINE point == IF SchedulerWired THEN "evaluate"
                    ELSE IF kind = "model" THEN "prepare" ELSE "start"
           rec == [ pc |-> point, job |-> j, kind |-> kind, rev |-> 0, ran |-> FALSE,
                    context |-> <<>> ]
<1>1. at' = [at EXCEPT ![a] = rec] /\ UNCHANGED <<jobs, tracked, packages>>
  BY DEF Begin
<1>2. jobs[j].currentState = "ACCEPTED" /\ At(a, "idle")
  BY DEF Begin
<1>3. point \in {"evaluate", "prepare", "start"} /\ (point = "prepare" => kind = "model")
  OBVIOUS
<1> HIDE DEF point
<1>4. <<>> \in Contexts
  BY DEF Contexts
<1>5. /\ rec \in Attempt
      /\ rec.pc = point /\ rec.job = j /\ rec.kind = kind /\ ~rec.ran
  BY <1>3, <1>4, RelayAssumption DEF Attempt, Points
<1> HIDE DEF rec
<1>6. AttemptsTypeOK' /\ at'[a] = rec /\ \A b \in Attempts : b # a => at'[b] = at[b]
  BY <1>1, <1>5 DEF RelayInv, AttemptsTypeOK
<1>7. \A k \in Jobs : jobs[k].executionId # a
  BY <1>2 DEF RelayInv, Sound, OwnExecution, At, Started
<1>8. Sound(a)'
  BY <1>1, <1>2, <1>3, <1>5, <1>6, <1>7
  DEF Sound, Assigned, OwnExecution, Invoked, At, Job, IsModel, Started, ModelPoints, ToolPoints
<1>. QED
  BY <1>6, <1>8

LEMMA RelayInvStep == RelayInv /\ [RelayNext]_relayVars => RelayInv'
<1> SUFFICES ASSUME RelayInv, [RelayNext]_relayVars PROVE RelayInv'
  OBVIOUS
<1>1. [StoreNext]_jobs /\ [SchedP!SchedNext]_sched
  BY PartsStep
<1>2. StoreInv'
  BY <1>1, StoreInvStep DEF RelayInv
<1>3. SchedP!SchedInv'
  BY <1>1, SchedP!SchedInvStep, RelayLeaseAssumption, RelayResourceOfAssumption,
     RelayNoneAssumption
  DEF RelayInv, sched, SchedP!schedVars, SchedP!SchedInv, SchedP!SchedTypeOK
<1>4. \A j \in Jobs : RecordGrows(j)
  BY <1>1, GrowsStep DEF RelayInv
<1>5. KeysKnown'
  BY <1>4 DEF RelayInv, KeysKnown, Present, RecordGrows
<1>6. AttemptsTypeOK' /\ \A a \in Attempts : Sound(a)'
  <2>1. ASSUME NEW j \in Jobs, SubmitJob(j) \/ AcceptJob(j)
        PROVE  AttemptsTypeOK' /\ \A a \in Attempts : Sound(a)'
    <3>1. UNCHANGED <<at, tracked, packages>>
      BY <2>1 DEF SubmitJob, AcceptJob
    <3>2. KeepsExecution
      BY <2>1, AcceptKeeps DEF SubmitJob, AcceptJob, RelayInv
    <3>3. AttemptsTypeOK'
      BY <3>1 DEF RelayInv, AttemptsTypeOK
    <3>4. ASSUME NEW a \in Attempts PROVE Sound(a)'
      <4>1. Sound(a) /\ (At(a, "idle") \/ Job(a) \in Jobs)
        BY DEF RelayInv, Sound, Assigned
      <4>2. Assigned(a)'
        BY <3>1, <3>2, <4>1 DEF Sound, Assigned, KeepsExecution, At, Job, IsModel
      <4>3. OwnExecution(a)'
        BY <3>1, <3>2, <4>1 DEF Sound, OwnExecution, KeepsExecution, At, Job, Started
      <4>4. Invoked(a)'
        BY <3>1, <3>2, <4>1
        DEF Sound, Invoked, KeepsExecution, At, Job, IsModel, Started, Assigned, IdleAttempt
      <4>. QED
        BY <4>2, <4>3, <4>4 DEF Sound
    <3>. QED
      BY <3>3, <3>4
  <2>2. ASSUME NEW a \in Attempts, NEW j \in Jobs, NEW kind \in Kinds, Begin(a, j, kind)
        PROVE  AttemptsTypeOK' /\ \A b \in Attempts : Sound(b)'
    <3>1. UNCHANGED <<jobs, packages>>
      BY <2>2 DEF Begin
    <3>2. ASSUME NEW b \in Attempts, b # a PROVE Sound(b)'
      BY <1>4, <2>2, <3>1, <3>2, BeginIsSound, OthersStaySound
    <3>. QED
      BY <2>2, <3>2, BeginIsSound
  <2>3. ASSUME NEW a \in Attempts, Step(a)
        PROVE  AttemptsTypeOK' /\ \A b \in Attempts : Sound(b)'
    <3>1. MovesSoundly(a)
      BY <2>3, StepIsSound
    <3>2. AttemptsTypeOK'
      BY <2>3, <3>1, TablesStep DEF MovesSoundly, Moved, AttemptsTypeOK
    <3>3. ASSUME NEW b \in Attempts, b # a PROVE Sound(b)'
      BY <1>4, <2>3, <3>1, <3>3, TablesStep, OthersStaySound DEF MovesSoundly, Moved
    <3>. QED
      BY <3>1, <3>2, <3>3 DEF MovesSoundly
  <2>4. CASE UNCHANGED relayVars
    BY <2>4 DEF relayVars, RelayInv, AttemptsTypeOK, Sound, Assigned, OwnExecution, Invoked,
                At, Job, IsModel
  <2>. QED
    BY <2>1, <2>2, <2>3, <2>4 DEF RelayNext
<1>. QED
  BY <1>2, <1>3, <1>5, <1>6 DEF RelayInv

LEMMA RelayInvAlways == RelaySpec => []RelayInv
  BY RelayInvInit, RelayInvStep, PTL DEF RelaySpec

-----------------------------------------------------------------------------
(* The theorems.                                                            *)

\* Whatever attempts are made and however they interleave, Relay uses the job
\* store as a client may that ends a job with its result only: each of its
\* steps calls the store at most once, never with an execution id that is in
\* use, and never with a bare terminal transition (every #store call of
\* RelayService).
THEOREM RelayIsStoreClient == RelaySpec => AnsweredSpec
<1>1. RelayInit => StoreInit
  BY DEF RelayInit
<1>2. RelayInv /\ [RelayNext]_relayVars => [AnsweredNext]_jobs
  BY PartsStep
<1>. QED
  BY <1>1, <1>2, RelayInvAlways, PTL DEF RelaySpec, AnsweredSpec

\* Relay moves its jobs through the answered lifecycle: calls of a worker or a
\* model are claimed on one path, a COMPLETED job had one of them, and every
\* terminal job has its result (every #store call of RelayService).
THEOREM RelayImplementsLifecycle == RelaySpec => AnsweredLifecycle
  BY RelayIsStoreClient, AnsweredStoreImplementsLifecycle

\* No attempt, failed, late or retried, leaves a job terminal with no result
\* that says how it ended (commitTerminalResult is Relay's only way to end it).
THEOREM RelayAnswersJobs == RelaySpec => []Answered
  BY RelayIsStoreClient, AnsweredAlways, PTL

\* A terminal record is not written again by any attempt, late or retried.
THEOREM RelayKeepsTerminal == RelaySpec => TerminalIsFinal
  BY RelayIsStoreClient, AnsweredIsStore, TerminalStaysFinal

\* Relay uses the Scheduler as any caller may (#schedulerStageOne,
\* #schedulerConfirm, #releaseReservation).
THEOREM RelayIsSchedulerClient == RelaySpec => SchedP!SchedSpec
<1>1. RelayInit => SchedP!SchedInit
  BY DEF RelayInit, Sched!SchedInit, SchedP!SchedInit, Sched!NoTrace, SchedP!NoTrace,
         Sched!NoReservation, SchedP!NoReservation, Sched!NoStart, SchedP!NoStart
<1>2. RelayInv /\ [RelayNext]_relayVars => [SchedP!SchedNext]_SchedP!schedVars
  BY PartsStep DEF sched, SchedP!schedVars
<1>. QED
  BY <1>1, <1>2, RelayInvAlways, PTL DEF RelaySpec, SchedP!SchedSpec, SchedP!schedVars

\* A start that the Scheduler confirms to Relay rests on an evaluation that was
\* ELIGIBLE for the job, requirement and resource, and on no later than two
\* leases (#schedulerConfirm).
THEOREM RelayStartsTraceable == RelaySpec => SchedP!GrantTraceable
  BY RelayIsSchedulerClient, SchedP!GrantIsTraceable, RelayLeaseAssumption,
     RelayResourceOfAssumption, RelayNoneAssumption

LEMMA SameSchedTypes == SchedP!SchedTypeOK => Sched!SchedTypeOK
  BY DEF SchedP!SchedTypeOK, Sched!SchedTypeOK, SchedP!Trace, Sched!Trace,
         SchedP!Reservation, Sched!Reservation, SchedP!Start, Sched!Start

\* Every record of Relay and of the services it calls stays well formed,
\* whatever fails and however attempts interleave.
THEOREM RelayTypeCorrect == RelaySpec => []RelayTypeOK
<1>1. RelayInv => RelayTypeOK
  BY SameSchedTypes DEF RelayInv, StoreInv, SchedP!SchedInv, AttemptsTypeOK, RelayTypeOK
<1>. QED
  BY <1>1, RelayInvAlways, PTL

\* However many attempts are made at a job, concurrently or one after another,
\* at most one ever calls the worker or a model, and it is the one whose
\* execution the store has claimed (ToolGateway.execute, executeModelSummary
\* and the claims they await).
THEOREM EffectIsSingle == RelaySpec => []SingleEffect
<1>1. RelayInv => SingleEffect
  BY DEF RelayInv, Sound, Invoked, SingleEffect, Job, IsModel
<1>. QED
  BY <1>1, RelayInvAlways, PTL

===============================================================================
