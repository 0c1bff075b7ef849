-------------------------- MODULE RelayStoreProofs --------------------------
(***************************************************************************)
(* RelayStore, for any number of jobs, executions and keys: the safety      *)
(* invariants that the run relay_store checks, the two action properties    *)
(* and the refinement of JobLifecycle, each for any client; and what is     *)
(* more for clients that end a job with commitTerminalResult only.          *)
(*                                                                          *)
(* The invariants are not inductive: commitTerminalResult trusts a          *)
(* recorded decision without looking at how it was recorded.  The           *)
(* strengthening is Untouched - before RUNNING nothing of an execution is   *)
(* on record - and DecisionOfExecution - a decision was recorded for the    *)
(* execution that the job still has.                                        *)
(***************************************************************************)
EXTENDS RelayStore, TLAPS

\* A job that has not started carries nothing of an execution.
Untouched ==
  \A j \in Jobs :
    /\ jobs[j].currentState \in {"ABSENT", "SUBMITTED", "ACCEPTED"} =>
         /\ jobs[j].gatewayDecision = "none"
         /\ jobs[j].modelInvocation = NoExecution
         /\ jobs[j].executionId = NoExecution
    /\ jobs[j].currentState = "ABSENT" => jobs[j].revision = 0
    /\ jobs[j].currentState \in {"RUNNING", "COMPLETED", "FAILED"} =>
         jobs[j].executionId # NoExecution

\* A recorded decision is about the execution that is running.
DecisionOfExecution ==
  \A j \in Jobs :
    jobs[j].gatewayDecision # "none" => jobs[j].executionRequest = jobs[j].executionId

\* The execution on record: everything but the namespaces.
ExecutionInv == Untouched /\ DecisionOfExecution /\ EffectExclusive /\ TerminalTruth

StoreInv ==
  /\ StoreTypeOK
  /\ ExecutionInv
  /\ NamespaceOwned

-----------------------------------------------------------------------------
(* Type correctness.                                                        *)

LEMMA StateOfTerminal == \A outcome \in Outcomes : StateOf(outcome) \in TerminalStates
  BY DEF StateOf, TerminalStates

LEMMA TypeStep ==
  ASSUME StoreTypeOK, [StoreNext]_jobs
  PROVE  StoreTypeOK'
<1> USE DEF StoreTypeOK, JobRecord, JobStates, LiveStates, TerminalStates, Decisions
<1>1. ASSUME NEW j \in Jobs, NEW ns \in Namespaces, NEW fp \in Fingerprints, Claim(j, ns, fp)
      PROVE  StoreTypeOK'
  BY <1>1 DEF Claim, ClaimDo, AbsentJob
<1>2. ASSUME NEW j \in Jobs, Accept(j) PROVE StoreTypeOK'
  BY <1>2 DEF Accept, AcceptDo
<1>3. ASSUME NEW j \in Jobs, ClaimContext(j) PROVE StoreTypeOK'
  BY <1>3 DEF ClaimContext, ClaimContextDo
<1>4. ASSUME NEW j \in Jobs, ReleaseContext(j) PROVE StoreTypeOK'
  BY <1>4 DEF ReleaseContext, ReleaseContextDo
<1>5. ASSUME NEW j \in Jobs, NEW e \in Executions, Running(j, e) PROVE StoreTypeOK'
  BY <1>5 DEF Running, RunningDo
<1>6. ASSUME NEW j \in Jobs, NEW e \in Executions, NEW decision \in Decisions,
             RecordDecision(j, e, decision)
      PROVE  StoreTypeOK'
  BY <1>6 DEF RecordDecision, RecordDecisionDo
<1>7. ASSUME NEW j \in Jobs, NEW e \in Executions, ClaimWorker(j, e) PROVE StoreTypeOK'
  BY <1>7 DEF ClaimWorker, ClaimWorkerDo
<1>8. ASSUME NEW j \in Jobs, NEW e \in Executions, ClaimModel(j, e) PROVE StoreTypeOK'
  BY <1>8 DEF ClaimModel, ClaimModelDo
<1>9. ASSUME NEW j \in Jobs, NEW e \in Executions, NEW outcome \in Outcomes,
             NEW modelBacked \in BOOLEAN, Commit(j, e, outcome, modelBacked)
      PROVE  StoreTypeOK'
  BY <1>9, StateOfTerminal, SMTT(30) DEF Commit, CommitDo
<1>10. CASE UNCHANGED jobs
  BY <1>10
<1>11. ASSUME NEW j \in Jobs, NEW e \in Executions, NEW to \in TerminalStates,
              Finish(j, e, to)
       PROVE  StoreTypeOK'
  BY <1>11 DEF Finish, FinishDo
<1>. QED
  BY <1>1, <1>2, <1>3, <1>4, <1>5, <1>6, <1>7, <1>8, <1>9, <1>10, <1>11 DEF StoreNext, AnsweredNext

-----------------------------------------------------------------------------
(* The execution on record: everything but the namespaces.                  *)

LEMMA ExecutionStep ==
  ASSUME StoreTypeOK, ExecutionInv, [StoreNext]_jobs
  PROVE  ExecutionInv'
<1> USE DEF StoreTypeOK, JobRecord, ExecutionInv, Untouched, DecisionOfExecution,
            EffectExclusive, TerminalTruth, TerminalStates, DenialOutcomes, StateOf
<1>1. ASSUME NEW j \in Jobs, NEW ns \in Namespaces, NEW fp \in Fingerprints,
             Claim(j, ns, fp)
      PROVE  ExecutionInv'
  BY <1>1, NoExecutionAssumption, SMTT(30) DEF Claim, ClaimOk, ClaimDo, AbsentJob, Present, NamespaceOwners
<1>2. ASSUME NEW j \in Jobs, Accept(j)
      PROVE  ExecutionInv'
  BY <1>2, NoExecutionAssumption, SMTT(30) DEF Accept, AcceptOk, AcceptDo
<1>3. ASSUME NEW j \in Jobs, ClaimContext(j)
      PROVE  ExecutionInv'
  BY <1>3, NoExecutionAssumption, SMTT(30) DEF ClaimContext, ClaimContextOk, ContextClaimable, ClaimContextDo
<1>4. ASSUME NEW j \in Jobs, ReleaseContext(j)
      PROVE  ExecutionInv'
  BY <1>4, NoExecutionAssumption, SMTT(30) DEF ReleaseContext, ReleaseContextOk, ReleaseContextDo
<1>5. ASSUME NEW j \in Jobs, NEW e \in Executions, Running(j, e)
      PROVE  ExecutionInv'
  BY <1>5, NoExecutionAssumption, SMTT(60) DEF Running, RunningOk, RunningDo
<1>6. ASSUME NEW j \in Jobs, NEW e \in Executions, NEW decision \in Decisions,
             RecordDecision(j, e, decision)
      PROVE  ExecutionInv'
  BY <1>6, NoExecutionAssumption, SMTT(60) DEF RecordDecision, RecordDecisionOk, RecordDecisionDo
<1>7. ASSUME NEW j \in Jobs, NEW e \in Executions, ClaimWorker(j, e)
      PROVE  ExecutionInv'
  BY <1>7, NoExecutionAssumption, SMTT(30) DEF ClaimWorker, ClaimWorkerOk, WorkerClaimable, ClaimWorkerDo
<1>8. ASSUME NEW j \in Jobs, NEW e \in Executions, ClaimModel(j, e)
      PROVE  ExecutionInv'
  BY <1>8, NoExecutionAssumption, SMTT(30) DEF ClaimModel, ClaimModelOk, ClaimModelDo
<1>9. ASSUME NEW j \in Jobs, NEW e \in Executions, NEW outcome \in Outcomes,
             NEW modelBacked \in BOOLEAN, Commit(j, e, outcome, modelBacked)
      PROVE  ExecutionInv'
  <2>1. /\ jobs[j].currentState = "RUNNING"
        /\ \/ /\ jobs[j].gatewayDecision = "ALLOW"
              /\ jobs[j].invocationClaimed
              /\ outcome \notin DenialOutcomes
           \/ /\ jobs[j].gatewayDecision = "DENY"
              /\ outcome \in DenialOutcomes
           \/ /\ jobs[j].gatewayDecision = "none"
              /\ jobs[j].modelInvocation # NoExecution
              /\ outcome \notin DenialOutcomes
    <3>1. CASE OnWorkerPath(j) /\ WorkerResultOk(j, outcome)
      BY <1>9, <3>1 DEF Commit, CommitOk, OnWorkerPath, WorkerResultOk
    <3>2. CASE OnModelPath(j) /\ modelBacked
      BY <1>9, <3>2 DEF Commit, CommitOk, OnModelPath
    <3>. QED
      BY <1>9, <3>1, <3>2 DEF Commit, CommitOk
  <2>2. /\ \A k \in Jobs : k # j => jobs'[k] = jobs[k]
        /\ jobs'[j].currentState      = StateOf(outcome)
        /\ jobs'[j].result            = outcome
        /\ jobs'[j].gatewayDecision   = jobs[j].gatewayDecision
        /\ jobs'[j].invocationClaimed = jobs[j].invocationClaimed
        /\ jobs'[j].modelInvocation   = jobs[j].modelInvocation
        /\ jobs'[j].executionId       = jobs[j].executionId
        /\ jobs'[j].executionRequest  = jobs[j].executionRequest
    BY <1>9 DEF Commit, CommitDo
  <2>3. StateOf(outcome) \in {"COMPLETED", "FAILED"} /\ outcome # "none"
    BY DEF Outcomes, FailOutcomes
  <2>4. Untouched' /\ DecisionOfExecution'
    BY <2>1, <2>2, <2>3
  <2>5. EffectExclusive'
    BY <2>2
  <2>6. TerminalTruth'
    BY <2>1, <2>2, <2>3
  <2>. QED
    BY <2>4, <2>5, <2>6
<1>10. CASE UNCHANGED jobs
  BY <1>10
<1>11. ASSUME NEW j \in Jobs, NEW e \in Executions, NEW to \in TerminalStates,
              Finish(j, e, to)
       PROVE  ExecutionInv'
  <2>1. jobs[j].currentState = "RUNNING" /\ jobs[j].result = "none"
    BY <1>11, NoExecutionAssumption DEF Finish, FinishOk
  <2>2. /\ \A k \in Jobs : k # j => jobs'[k] = jobs[k]
        /\ jobs'[j] = [jobs[j] EXCEPT !.currentState = to, !.revision = @ + 1]
    BY <1>11 DEF Finish, FinishDo
  <2>3. to \in {"COMPLETED", "FAILED"}
    OBVIOUS
  <2>4. /\ jobs'[j].currentState      = to
        /\ jobs'[j].result            = "none"
        /\ jobs'[j].gatewayDecision   = jobs[j].gatewayDecision
        /\ jobs'[j].invocationClaimed = jobs[j].invocationClaimed
        /\ jobs'[j].modelInvocation   = jobs[j].modelInvocation
        /\ jobs'[j].executionId       = jobs[j].executionId
        /\ jobs'[j].executionRequest  = jobs[j].executionRequest
    BY <2>1, <2>2
  <2>5. \A k \in Jobs : k # j => jobs'[k] = jobs[k]
    BY <2>2
  <2>6. Untouched' /\ DecisionOfExecution'
    BY <2>1, <2>3, <2>4, <2>5
  <2>7. EffectExclusive'
    BY <2>4, <2>5
  <2>8. TerminalTruth'
    BY <2>4, <2>5
  <2>. QED
    BY <2>6, <2>7, <2>8
<1> HIDE DEF StoreTypeOK, JobRecord, ExecutionInv, Untouched, DecisionOfExecution,
            EffectExclusive, TerminalTruth, TerminalStates, DenialOutcomes, StateOf
<1>. QED
  BY <1>1, <1>2, <1>3, <1>4, <1>5, <1>6, <1>7, <1>8, <1>9, <1>10, <1>11 DEF StoreNext, AnsweredNext

-----------------------------------------------------------------------------
(* Namespaces: only claimOrReturnExisting makes a job present, and no call  *)
(* changes a namespace afterwards.                                          *)

LEMMA NamespaceStep ==
  ASSUME StoreTypeOK, NamespaceOwned, [StoreNext]_jobs
  PROVE  NamespaceOwned'
<1> USE DEF StoreTypeOK, JobRecord, NamespaceOwned, Present
<1>1. ASSUME NEW j \in Jobs, NEW ns \in Namespaces, NEW fp \in Fingerprints,
             Claim(j, ns, fp)
      PROVE  NamespaceOwned'
  BY <1>1, SMTT(30) DEF Claim, ClaimOk, ClaimDo, AbsentJob, NamespaceOwners
<1>2. ASSUME NEW j \in Jobs, jobs[j].currentState # "ABSENT",
             \A k \in Jobs : jobs'[k].namespace = jobs[k].namespace,
             \A k \in Jobs : k # j => jobs'[k] = jobs[k]
      PROVE  NamespaceOwned'
  BY <1>2
<1>3. ASSUME NEW j \in Jobs, Accept(j) PROVE NamespaceOwned'
  BY <1>2, <1>3 DEF Accept, AcceptOk, AcceptDo
<1>4. ASSUME NEW j \in Jobs, ClaimContext(j) PROVE NamespaceOwned'
  BY <1>2, <1>4 DEF ClaimContext, ClaimContextOk, ContextClaimable, ClaimContextDo
<1>5. ASSUME NEW j \in Jobs, ReleaseContext(j) PROVE NamespaceOwned'
  BY <1>2, <1>5 DEF ReleaseContext, ReleaseContextOk, ReleaseContextDo
<1>6. ASSUME NEW j \in Jobs, NEW e \in Executions, Running(j, e) PROVE NamespaceOwned'
  BY <1>2, <1>6 DEF Running, RunningOk, RunningDo
<1>7. ASSUME NEW j \in Jobs, NEW e \in Executions, NEW decision \in Decisions,
             RecordDecision(j, e, decision)
      PROVE  NamespaceOwned'
  BY <1>2, <1>7 DEF RecordDecision, RecordDecisionOk, RecordDecisionDo
<1>8. ASSUME NEW j \in Jobs, NEW e \in Executions, ClaimWorker(j, e) PROVE NamespaceOwned'
  BY <1>2, <1>8 DEF ClaimWorker, ClaimWorkerOk, WorkerClaimable, ClaimWorkerDo
<1>9. ASSUME NEW j \in Jobs, NEW e \in Executions, ClaimModel(j, e) PROVE NamespaceOwned'
  BY <1>2, <1>9 DEF ClaimModel, ClaimModelOk, ClaimModelDo
<1>10. ASSUME NEW j \in Jobs, NEW e \in Executions, NEW outcome \in Outcomes,
              NEW modelBacked \in BOOLEAN, Commit(j, e, outcome, modelBacked)
       PROVE  NamespaceOwned'
  BY <1>2, <1>10 DEF Commit, CommitOk, CommitDo
<1>11. CASE UNCHANGED jobs
  BY <1>11
<1>12. ASSUME NEW j \in Jobs, NEW e \in Executions, NEW to \in TerminalStates,
              Finish(j, e, to)
       PROVE  NamespaceOwned'
  BY <1>2, <1>12 DEF Finish, FinishOk, FinishDo
<1>. QED
  BY <1>1, <1>3, <1>4, <1>5, <1>6, <1>7, <1>8, <1>9, <1>10, <1>11, <1>12 DEF StoreNext, AnsweredNext

-----------------------------------------------------------------------------
(* The invariants.                                                          *)

LEMMA StoreInvInit == StoreInit => StoreInv
  BY NoExecutionAssumption
  DEF StoreInit, StoreInv, StoreTypeOK, JobRecord, JobStates, AbsentJob, ExecutionInv,
      Untouched, DecisionOfExecution, EffectExclusive, TerminalTruth, NamespaceOwned,
      Present, TerminalStates, DenialOutcomes

LEMMA StoreInvStep == StoreInv /\ [StoreNext]_jobs => StoreInv'
  BY TypeStep, ExecutionStep, NamespaceStep DEF StoreInv

LEMMA StoreInvAlways == StoreSpec => []StoreInv
  BY StoreInvInit, StoreInvStep, PTL DEF StoreSpec

\* Whatever clients call, in whatever order, every record stays well formed
\* (every writer of the #jobs map).
THEOREM StoreTypeCorrect == StoreSpec => []StoreTypeOK
<1>1. StoreInv => StoreTypeOK
  BY DEF StoreInv
<1>. QED
  BY <1>1, StoreInvAlways, PTL

\* No job ever has both a tool decision and a model invocation, and a worker
\* is only claimed under an ALLOW for the running execution.
THEOREM EffectIsExclusive == StoreSpec => []EffectExclusive
<1>1. StoreInv => EffectExclusive
  BY DEF StoreInv, ExecutionInv
<1>. QED
  BY <1>1, StoreInvAlways, PTL

\* Whatever clients call, a stored result agrees with the state, the decision
\* and the claims that led to it (commitTerminalResult); a job closed by
\* applyTransition alone has no result.
THEOREM TerminalIsTrue == StoreSpec => []TerminalTruth
<1>1. StoreInv => TerminalTruth
  BY DEF StoreInv, ExecutionInv
<1>. QED
  BY <1>1, StoreInvAlways, PTL

\* An idempotency namespace never has two jobs (claimOrReturnExisting).
THEOREM NamespaceHasOneOwner == StoreSpec => []NamespaceOwned
<1>1. StoreInv => NamespaceOwned
  BY DEF StoreInv
<1>. QED
  BY <1>1, StoreInvAlways, PTL

-----------------------------------------------------------------------------
(* The action properties.                                                   *)

\* What a step may do to the record of one job.
RecordMoves(j) ==
  /\ jobs[j].currentState \in TerminalStates => jobs'[j] = jobs[j]
  /\ jobs'[j] # jobs[j] => jobs'[j].revision = jobs[j].revision + 1
  /\ jobs[j].executionId # NoExecution => jobs'[j].executionId = jobs[j].executionId

LEMMA RecordStep ==
  ASSUME StoreTypeOK, ExecutionInv, [StoreNext]_jobs
  PROVE  \A k \in Jobs : RecordMoves(k)
<1> USE DEF StoreTypeOK, JobRecord, ExecutionInv, Untouched, RecordMoves, TerminalStates
<1>1. ASSUME NEW j \in Jobs, NEW ns \in Namespaces, NEW fp \in Fingerprints,
             Claim(j, ns, fp)
      PROVE  \A k \in Jobs : RecordMoves(k)
  BY <1>1, SMTT(30) DEF Claim, ClaimOk, ClaimDo, AbsentJob, Present
<1>2. ASSUME NEW j \in Jobs, Accept(j)
      PROVE  \A k \in Jobs : RecordMoves(k)
  BY <1>2, SMTT(30) DEF Accept, AcceptOk, AcceptDo
<1>3. ASSUME NEW j \in Jobs, ClaimContext(j)
      PROVE  \A k \in Jobs : RecordMoves(k)
  BY <1>3, SMTT(30) DEF ClaimContext, ClaimContextOk, ContextClaimable, ClaimContextDo
<1>4. ASSUME NEW j \in Jobs, ReleaseContext(j)
      PROVE  \A k \in Jobs : RecordMoves(k)
  BY <1>4, SMTT(30) DEF ReleaseContext, ReleaseContextOk, ReleaseContextDo
<1>5. ASSUME NEW j \in Jobs, NEW e \in Executions, Running(j, e)
      PROVE  \A k \in Jobs : RecordMoves(k)
  BY <1>5, SMTT(30) DEF Running, RunningOk, RunningDo
<1>6. ASSUME NEW j \in Jobs, NEW e \in Executions, NEW decision \in Decisions,
             RecordDecision(j, e, decision)
      PROVE  \A k \in Jobs : RecordMoves(k)
  BY <1>6, SMTT(30) DEF RecordDecision, RecordDecisionOk, RecordDecisionDo
<1>7. ASSUME NEW j \in Jobs, NEW e \in Executions, ClaimWorker(j, e)
      PROVE  \A k \in Jobs : RecordMoves(k)
  BY <1>7, SMTT(30) DEF ClaimWorker, ClaimWorkerOk, WorkerClaimable, ClaimWorkerDo
<1>8. ASSUME NEW j \in Jobs, NEW e \in Executions, ClaimModel(j, e)
      PROVE  \A k \in Jobs : RecordMoves(k)
  BY <1>8, SMTT(30) DEF ClaimModel, ClaimModelOk, ClaimModelDo
<1>9. ASSUME NEW j \in Jobs, NEW e \in Executions, NEW outcome \in Outcomes,
             NEW modelBacked \in BOOLEAN, Commit(j, e, outcome, modelBacked)
      PROVE  \A k \in Jobs : RecordMoves(k)
  BY <1>9, SMTT(30) DEF Commit, CommitOk, CommitDo
<1>10. CASE UNCHANGED jobs
  BY <1>10
<1>11. ASSUME NEW j \in Jobs, NEW e \in Executions, NEW to \in TerminalStates,
              Finish(j, e, to)
       PROVE  \A k \in Jobs : RecordMoves(k)
  BY <1>11, SMTT(30) DEF Finish, FinishOk, FinishDo
<1>. QED
  BY <1>1, <1>2, <1>3, <1>4, <1>5, <1>6, <1>7, <1>8, <1>9, <1>10, <1>11 DEF StoreNext, AnsweredNext

\* No call ever writes a terminal job.
THEOREM TerminalStaysFinal == StoreSpec => TerminalIsFinal
<1>1. StoreInv /\ [StoreNext]_jobs =>
        [\A j \in Jobs :
           jobs[j].currentState \in TerminalStates => jobs'[j] = jobs[j]]_jobs
  BY RecordStep DEF StoreInv, RecordMoves
<1>. QED
  BY <1>1, StoreInvAlways, PTL DEF StoreSpec, TerminalIsFinal

\* Equal revisions mean an unchanged record: the comparison the Scheduler
\* makes before a start is confirmed cannot be fooled by a job that changed
\* and changed back.
THEOREM RevisionIsVersion == StoreSpec => VersionStamp
<1>1. StoreInv /\ [StoreNext]_jobs =>
        [\A j \in Jobs :
           /\ jobs'[j] # jobs[j] => jobs'[j].revision = jobs[j].revision + 1
           /\ jobs[j].executionId # NoExecution =>
                jobs'[j].executionId = jobs[j].executionId]_jobs
  BY RecordStep DEF StoreInv, RecordMoves
<1>. QED
  BY <1>1, StoreInvAlways, PTL DEF StoreSpec, VersionStamp

-----------------------------------------------------------------------------
(* Clients that end a job with its result only (commitTerminalResult).      *)

LEMMA AnsweredStep ==
  ASSUME StoreTypeOK, Answered, [AnsweredNext]_jobs
  PROVE  Answered'
<1> USE DEF StoreTypeOK, JobRecord, Answered, TerminalStates
<1>1. ASSUME NEW j \in Jobs, NEW ns \in Namespaces, NEW fp \in Fingerprints,
             Claim(j, ns, fp)
      PROVE  Answered'
  BY <1>1 DEF Claim, ClaimDo, AbsentJob
<1>2. ASSUME NEW j \in Jobs, Accept(j) PROVE Answered'
  BY <1>2 DEF Accept, AcceptDo
<1>3. ASSUME NEW j \in Jobs, ClaimContext(j) PROVE Answered'
  BY <1>3 DEF ClaimContext, ClaimContextDo
<1>4. ASSUME NEW j \in Jobs, ReleaseContext(j) PROVE Answered'
  BY <1>4 DEF ReleaseContext, ReleaseContextDo
<1>5. ASSUME NEW j \in Jobs, NEW e \in Executions, Running(j, e) PROVE Answered'
  BY <1>5 DEF Running, RunningDo
<1>6. ASSUME NEW j \in Jobs, NEW e \in Executions, NEW decision \in Decisions,
             RecordDecision(j, e, decision)
      PROVE  Answered'
  BY <1>6 DEF RecordDecision, RecordDecisionDo
<1>7. ASSUME NEW j \in Jobs, NEW e \in Executions, ClaimWorker(j, e) PROVE Answered'
  BY <1>7 DEF ClaimWorker, ClaimWorkerDo
<1>8. ASSUME NEW j \in Jobs, NEW e \in Executions, ClaimModel(j, e) PROVE Answered'
  BY <1>8 DEF ClaimModel, ClaimModelDo
<1>9. ASSUME NEW j \in Jobs, NEW e \in Executions, NEW outcome \in Outcomes,
             NEW modelBacked \in BOOLEAN, Commit(j, e, outcome, modelBacked)
      PROVE  Answered'
  <2>1. outcome # "none"
    BY DEF Outcomes, DenialOutcomes, FailOutcomes
  <2>. QED
    BY <1>9, <2>1 DEF Commit, CommitDo
<1>10. CASE UNCHANGED jobs
  BY <1>10
<1>. QED
  BY <1>1, <1>2, <1>3, <1>4, <1>5, <1>6, <1>7, <1>8, <1>9, <1>10 DEF AnsweredNext

LEMMA AnsweredIsStore == AnsweredSpec => StoreSpec
<1>1. [AnsweredNext]_jobs => [StoreNext]_jobs
  BY DEF StoreNext
<1>. QED
  BY <1>1, PTL DEF AnsweredSpec, StoreSpec

LEMMA AnsweredAlways == AnsweredSpec => [](StoreInv /\ Answered)
<1>1. StoreInit => Answered
  BY DEF StoreInit, AbsentJob, Answered, TerminalStates
<1>2. StoreInv /\ Answered /\ [AnsweredNext]_jobs => Answered'
  BY AnsweredStep DEF StoreInv
<1>. QED
  BY <1>1, <1>2, AnsweredIsStore, StoreInvAlways, PTL DEF AnsweredSpec

-----------------------------------------------------------------------------
(* The refinement of JobLifecycle.  Each call is one step of the lifecycle  *)
(* or, where only decisions, context claims and revisions change, none.     *)

LEMMA LifecycleInit == StoreInit => Lifecycle!LifeInit
  BY DEF StoreInit, AbsentJob, PhaseOf, EffectOf, VerdictOf, Lifecycle!LifeInit

LEMMA LifecycleStep ==
  ASSUME StoreTypeOK, ExecutionInv, [AnsweredNext]_jobs
  PROVE  [Lifecycle!AnsweredNext]_Lifecycle!lifeVars
<1> USE DEF StoreTypeOK, JobRecord, PhaseOf, EffectOf, VerdictOf
<1>1. ASSUME NEW j \in Jobs, NEW ns \in Namespaces, NEW fp \in Fingerprints,
             Claim(j, ns, fp)
      PROVE  Lifecycle!Submit(j)
  <2>1. /\ jobs[j].currentState = "ABSENT"
        /\ EffectOf(j) = "none"
    BY <1>1 DEF Claim, ClaimOk, Present, ExecutionInv, Untouched, EffectExclusive
  <2>2. /\ jobs' = [jobs EXCEPT ![j] = jobs'[j]]
        /\ jobs'[j].currentState = "SUBMITTED"
        /\ jobs'[j].invocationClaimed = FALSE
        /\ jobs'[j].modelInvocation = NoExecution
    BY <1>1 DEF Claim, ClaimDo, AbsentJob
  <2>3. VerdictOf(j) = "none" /\ jobs'[j].result = "none"
    BY <1>1, <2>1
    DEF Claim, ClaimDo, AbsentJob, ExecutionInv, TerminalTruth, StateOf
  <2>4. \A k \in Jobs : VerdictOf(k)' = VerdictOf(k)
    BY <2>2, <2>3
  <2>5. \A k \in Jobs : EffectOf(k)' = EffectOf(k)
    BY <2>1, <2>2
  <2>6. PhaseOf(j) = "ABSENT" /\ \A k \in Jobs : PhaseOf(k)' = IF k = j THEN "SUBMITTED" ELSE PhaseOf(k)
    BY <2>1, <2>2
  <2> HIDE DEF EffectOf, VerdictOf, PhaseOf
  <2>. QED
    BY <2>4, <2>5, <2>6 DEF Lifecycle!Submit, Lifecycle!Move
<1>2. ASSUME NEW j \in Jobs, Accept(j) PROVE Lifecycle!Accept(j)
  BY <1>2 DEF Accept, AcceptOk, AcceptDo, Lifecycle!Accept, Lifecycle!Move
<1>3. ASSUME NEW j \in Jobs, ClaimContext(j) \/ ReleaseContext(j)
      PROVE  UNCHANGED Lifecycle!lifeVars
  BY <1>3 DEF ClaimContext, ClaimContextDo, ReleaseContext, ReleaseContextDo,
              Lifecycle!lifeVars
<1>4. ASSUME NEW j \in Jobs, NEW e \in Executions, Running(j, e)
      PROVE  Lifecycle!Start(j)
  BY <1>4, SMTT(30) DEF Running, RunningOk, RunningDo, Lifecycle!Start, Lifecycle!Move
<1>5. ASSUME NEW j \in Jobs, NEW e \in Executions, NEW decision \in Decisions,
             RecordDecision(j, e, decision)
      PROVE  UNCHANGED Lifecycle!lifeVars
  BY <1>5 DEF RecordDecision, RecordDecisionDo, Lifecycle!lifeVars
<1>6. ASSUME NEW j \in Jobs, NEW e \in Executions, ClaimWorker(j, e)
      PROVE  Lifecycle!Invoke(j)
  BY <1>6 DEF ClaimWorker, ClaimWorkerOk, WorkerClaimable, ClaimWorkerDo, Lifecycle!Invoke
<1>7. ASSUME NEW j \in Jobs, NEW e \in Executions, ClaimModel(j, e)
      PROVE  Lifecycle!Invoke(j)
  BY <1>7, NoExecutionAssumption DEF ClaimModel, ClaimModelOk, ClaimModelDo, Lifecycle!Invoke
<1>8. ASSUME NEW j \in Jobs, NEW e \in Executions, NEW outcome \in Outcomes,
             NEW modelBacked \in BOOLEAN, Commit(j, e, outcome, modelBacked)
      PROVE  Lifecycle!Complete(j) \/ Lifecycle!Fail(j)
  BY <1>8, NoExecutionAssumption, SMTT(30)
  DEF Commit, CommitOk, CommitDo, OnWorkerPath, OnModelPath, WorkerResultOk, StateOf,
      DenialOutcomes, Decisions, Lifecycle!Complete, Lifecycle!Fail, Lifecycle!Move
<1>9. CASE UNCHANGED jobs
  BY <1>9 DEF Lifecycle!lifeVars
<1>. QED
  BY <1>1, <1>2, <1>3, <1>4, <1>5, <1>6, <1>7, <1>8, <1>9
  DEF AnsweredNext, Lifecycle!AnsweredNext

\* The bare transition closes the job and adds no result.
LEMMA FinishCloses ==
  ASSUME StoreTypeOK, NEW j \in Jobs, NEW e \in Executions, NEW to \in TerminalStates,
         Finish(j, e, to)
  PROVE  Lifecycle!Close(j)
<1>1. /\ jobs[j].currentState = "RUNNING"
      /\ jobs' = [jobs EXCEPT ![j] = [jobs[j] EXCEPT !.currentState = to,
                                                     !.revision     = @ + 1]]
  BY DEF Finish, FinishOk, FinishDo
<1>2. \A k \in Jobs : EffectOf(k)' = EffectOf(k) /\ VerdictOf(k)' = VerdictOf(k)
  BY <1>1 DEF StoreTypeOK, JobRecord, EffectOf, VerdictOf
<1>3. PhaseOf(j) = "RUNNING" /\ \A k \in Jobs : PhaseOf(k)' = IF k = j THEN to ELSE PhaseOf(k)
  BY <1>1 DEF StoreTypeOK, JobRecord, PhaseOf
<1>. QED
  BY <1>2, <1>3 DEF TerminalStates, Lifecycle!Close, Lifecycle!Move

\* Whatever clients call, a job goes once through the lifecycle, with at most
\* one effect and a result of success only after one (the #jobs map).
THEOREM StoreImplementsLifecycle == StoreSpec => LifecycleRefined
<1>1. StoreInv /\ [StoreNext]_jobs => [Lifecycle!LifeNext]_Lifecycle!lifeVars
  BY LifecycleStep, FinishCloses DEF StoreInv, StoreNext, Lifecycle!LifeNext
<1>. QED
  BY <1>1, LifecycleInit, StoreInvAlways, PTL
  DEF StoreSpec, LifecycleRefined, Lifecycle!LifeSpec

\* Clients that end a job with commitTerminalResult only get the stronger
\* lifecycle: every terminal job has its result, and is COMPLETED only if an
\* effect was started for it.
THEOREM AnsweredStoreImplementsLifecycle == AnsweredSpec => AnsweredLifecycle
<1>1. StoreInv /\ [AnsweredNext]_jobs => [Lifecycle!AnsweredNext]_Lifecycle!lifeVars
  BY LifecycleStep DEF StoreInv
<1>. QED
  BY <1>1, LifecycleInit, AnsweredIsStore, StoreInvAlways, PTL
  DEF AnsweredSpec, AnsweredLifecycle, Lifecycle!AnsweredSpec
=============================================================================
