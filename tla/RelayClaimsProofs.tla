-------------------------- MODULE RelayClaimsProofs --------------------------
(***************************************************************************)
(* What attempts hold between their steps in Relay, for any number of jobs, *)
(* attempts and resources: the context claim of a job and the packages that *)
(* are kept under it, and the reservation that is tracked for a job.        *)
(*                                                                          *)
(* Packages and reservations are released for a JOB, by whichever attempt   *)
(* gets there.  The argument is therefore about pairs of attempts at a job: *)
(* the claim has one holder, and who lost the race for a job tracks its own *)
(* reservation in place of the winner's.  What is given back follows: the   *)
(* claim (ClaimsAreHeld) and the reservation (CapacityInv).  Last, the      *)
(* package itself, and the completion that rests on it (SummaryInv).        *)
(***************************************************************************)
EXTENDS RelayProofs

-----------------------------------------------------------------------------
(* Approved packages.  A model attempt holds the context claim of its job   *)
(* from the claim until it is refused, or for good once the job runs for    *)
(* it; the claim has one holder, and a package is kept only under a claim.  *)
(* So the job of a package can only be completed by the holder, which       *)
(* releases the packages of the job.                                        *)

Holding == {"build", "listing", "fresh", "confirm", "confirming", "refused", "start"}

Holds(a) ==
  /\ IsModel(a)
  /\ at[a].pc \in Holding \/ jobs[Job(a)].executionId = a

\* On record: a claimed context excludes the tool path, a terminal job took one
\* of the two paths.
PathInv ==
  \A j \in Jobs :
    /\ jobs[j].gatewayDecision # "none" => ~jobs[j].modelContextClaimed
    /\ jobs[j].currentState \in TerminalStates =>
         jobs[j].gatewayDecision # "none" \/ jobs[j].modelInvocation # NoExecution

\* The claim has one holder, and is not given back by an attempt that came late.
HolderInv ==
  /\ \A a \in Attempts : Holds(a) => jobs[Job(a)].modelContextClaimed
  /\ \A a, b \in Attempts : Holds(a) /\ Holds(b) /\ Job(a) = Job(b) => a = b
  /\ \A a \in Attempts, j \in Jobs : jobs[j].modelInvocation = a => IsModel(a)
  /\ \A a \in Attempts : At(a, "lost") => jobs[Job(a)].currentState # "ACCEPTED"

\* Who is about to release the packages of job j.
ReleaseDue(j, points) == \E b \in Attempts : Job(b) = j /\ at[b].pc \in points

\* A package is kept under a claim, and not beyond the completion by a model.
KeptInv ==
  \A a \in Attempts : packages[a] = "kept" =>
    /\ jobs[Job(a)].modelContextClaimed \/ ReleaseDue(Job(a), {"cleanupAll"})
    /\ /\ jobs[Job(a)].currentState \in TerminalStates
       /\ jobs[Job(a)].modelInvocation # NoExecution
       => ReleaseDue(Job(a), {"committed", "cleanupAll"})

PackageInv == PathInv /\ HolderInv /\ KeptInv

LEMMA PathStep ==
  ASSUME StoreInv, PathInv, [AnsweredNext]_jobs
  PROVE  PathInv'
<1> USE DEF StoreInv, StoreTypeOK, JobRecord, PathInv, ExecutionInv, Untouched,
            EffectExclusive, TerminalTruth, TerminalStates
<1>1. ASSUME NEW j \in Jobs, NEW ns \in Namespaces, NEW fp \in Fingerprints, Claim(j, ns, fp)
      PROVE  PathInv'
  BY <1>1, SMTT(30) DEF Claim, ClaimDo, AbsentJob
<1>2. ASSUME NEW j \in Jobs, Accept(j) PROVE PathInv'
  BY <1>2, SMTT(30) DEF Accept, AcceptOk, AcceptDo
<1>3. ASSUME NEW j \in Jobs, ClaimContext(j) PROVE PathInv'
  BY <1>3, SMTT(30) DEF ClaimContext, ClaimContextOk, ContextClaimable, ClaimContextDo
<1>4. ASSUME NEW j \in Jobs, ReleaseContext(j) PROVE PathInv'
  BY <1>4, SMTT(30) DEF ReleaseContext, ReleaseContextOk, ReleaseContextDo
<1>5. ASSUME NEW j \in Jobs, NEW e \in Executions, Running(j, e) PROVE PathInv'
  BY <1>5, SMTT(30) DEF Running, RunningOk, RunningDo
<1>6. ASSUME NEW j \in Jobs, NEW e \in Executions, NEW decision \in Decisions,
             RecordDecision(j, e, decision)
      PROVE  PathInv'
  BY <1>6, SMTT(30) DEF RecordDecision, RecordDecisionOk, RecordDecisionDo
<1>7. ASSUME NEW j \in Jobs, NEW e \in Executions, ClaimWorker(j, e) PROVE PathInv'
  BY <1>7, SMTT(30) DEF ClaimWorker, ClaimWorkerDo
<1>8. ASSUME NEW j \in Jobs, NEW e \in Executions, ClaimModel(j, e) PROVE PathInv'
  BY <1>8, SMTT(30) DEF ClaimModel, ClaimModelOk, ClaimModelDo
<1>9. ASSUME NEW j \in Jobs, NEW e \in Executions, NEW outcome \in Outcomes,
             NEW modelBacked \in BOOLEAN, Commit(j, e, outcome, modelBacked)
      PROVE  PathInv'
  BY <1>9, SMTT(30) DEF Commit, CommitOk, CommitDo, OnWorkerPath, OnModelPath
<1>10. CASE UNCHANGED jobs
  BY <1>10
<1>. QED
  BY <1>1, <1>2, <1>3, <1>4, <1>5, <1>6, <1>7, <1>8, <1>9, <1>10 DEF AnsweredNext

\* Who claims contexts, and who gives claims back.
KeepsClaims ==
  \A j \in Jobs : jobs'[j].modelContextClaimed = jobs[j].modelContextClaimed

Takes(a) ==
  /\ At(a, "prepare") /\ IsModel(a)
  /\ jobs[Job(a)].currentState = "ACCEPTED"
  /\ ~jobs[Job(a)].modelContextClaimed
  /\ jobs'[Job(a)].modelContextClaimed
  /\ \A j \in Jobs : j # Job(a) => jobs'[j].modelContextClaimed = jobs[j].modelContextClaimed

GivesBack(a) ==
  /\ at[a].pc \in {"refused", "lost"} /\ IsModel(a)
  /\ jobs[Job(a)].currentState = "ACCEPTED"
  /\ at'[a].pc = "cleanupAll"
  /\ ~jobs'[Job(a)].modelContextClaimed
  /\ \A j \in Jobs : j # Job(a) => jobs'[j].modelContextClaimed = jobs[j].modelContextClaimed

LEMMA CallsKeepClaims ==
  ASSUME StoreTypeOK, NEW j \in Jobs, NEW e, NEW decision, NEW outcome,
         \/ RunningDo(j, e) \/ RecordDecisionDo(j, e, decision) \/ ClaimWorkerDo(j)
         \/ ClaimModelDo(j, e) \/ CommitDo(j, outcome)
  PROVE  KeepsClaims
  BY DEF StoreTypeOK, JobRecord, RunningDo, RecordDecisionDo, ClaimWorkerDo, ClaimModelDo,
         CommitDo, KeepsClaims

LEMMA ContextIsTaken ==
  ASSUME StoreTypeOK, NEW a \in Attempts, Job(a) \in Jobs, At(a, "prepare"), IsModel(a),
         ClaimContextOk(Job(a)), ClaimContextDo(Job(a))
  PROVE  Takes(a)
  BY DEF StoreTypeOK, JobRecord, ClaimContextOk, ContextClaimable, ClaimContextDo, Takes

LEMMA ContextIsGivenBack ==
  ASSUME StoreTypeOK, AttemptsTypeOK, NEW a \in Attempts, Job(a) \in Jobs,
         at[a].pc \in {"refused", "lost"}, IsModel(a), ReleaseClaim(a)
  PROVE  GivesBack(a) \/ (UNCHANGED jobs /\ at'[a].pc = "cleanup")
<1>1. CASE ReleaseContextOk(Job(a)) /\ ReleaseContextDo(Job(a)) /\ Goto(a, "cleanupAll")
  <2>1. at'[a].pc = "cleanupAll"
    BY <1>1, GotoMoves DEF Points
  <2>2. /\ jobs[Job(a)].currentState = "ACCEPTED"
        /\ ~jobs'[Job(a)].modelContextClaimed
        /\ \A j \in Jobs : j # Job(a) =>
             jobs'[j].modelContextClaimed = jobs[j].modelContextClaimed
    BY <1>1 DEF StoreTypeOK, JobRecord, ReleaseContextOk, ReleaseContextDo
  <2>. QED
    BY <2>1, <2>2 DEF GivesBack
<1>2. CASE UNCHANGED jobs /\ Goto(a, "cleanup")
  BY <1>2, GotoMoves DEF Points
<1>. QED
  BY <1>1, <1>2 DEF ReleaseClaim

\* A step takes a claim, gives one back, or leaves claims and holders as they
\* are; and a start that was lost was lost for good.
ClaimsMove(a) ==
  \/ Takes(a)
  \/ GivesBack(a)
  \/ KeepsClaims /\ (at'[a].pc \in Holding /\ IsModel(a) => at[a].pc \in Holding)

LEMMA StepMovesClaims ==
  ASSUME RelayInv, NEW a \in Attempts, Step(a)
  PROVE  /\ ClaimsMove(a)
         /\ at'[a].pc \in {"claim", "authorize"} => at[a].pc = "start"
         /\ at'[a].pc = "lost" => jobs'[Job(a)].currentState # "ACCEPTED"
<1> DEFINE Goal ==
      /\ ClaimsMove(a)
      /\ at'[a].pc \in {"claim", "authorize"} => at[a].pc = "start"
      /\ at'[a].pc = "lost" => jobs'[Job(a)].currentState # "ACCEPTED"
<1>1. Job(a) \in Jobs /\ StoreTypeOK /\ AttemptsTypeOK /\ Assigned(a)
  BY StepsWereBegun, StepsAreAttempts DEF RelayInv, Attempting, StoreInv, Sound
<1>2. SchedulerWired \in BOOLEAN
  BY RelayAssumption
<1> USE DEF ClaimsMove, Holding, At
<1>3. CASE UNCHANGED jobs /\ \E pc \in Points :
             /\ at'[a].pc = pc
             /\ pc \notin {"claim", "authorize", "lost"}
             /\ pc \in Holding /\ IsModel(a) => at[a].pc \in Holding
  BY <1>3 DEF KeepsClaims
<1>4. CASE EvaluateStep(a)
  BY <1>1, <1>3, <1>4, GotoMoves DEF EvaluateStep, Points
<1>5. CASE ReserveStep(a)
  BY <1>1, <1>3, <1>5, GotoMoves DEF ReserveStep, Points
<1>6. CASE BuildStep(a) \/ PackageFails(a) \/ AbandonStep(a) \/ CleanupStep(a)
  BY <1>1, <1>3, <1>6, GotoMoves
  DEF BuildStep, PackageFails, AbandonStep, CleanupStep, Points
<1>7. CASE GatewayThrows(a) \/ GiveUpStep(a) \/ CommittedStep(a) \/ ConfirmedStep(a)
  BY <1>1, <1>3, <1>7, GotoMoves
  DEF GatewayThrows, GiveUpStep, CommittedStep, ConfirmedStep, Points
<1>8. CASE PackageStep(a) \/ FreshStep(a) \/ ConfirmStep(a)
  <2>1. at'[a].pc \in {"fresh", "start", "confirm", "refused", "confirming"}
    BY <1>1, <1>2, <1>8 DEF PackageStep, FreshStep, ConfirmStep, AttemptsTypeOK, Attempt
  <2>2. UNCHANGED jobs /\ at[a].pc \in {"listing", "fresh", "confirm"}
    BY <1>8 DEF PackageStep, FreshStep, ConfirmStep
  <2>. QED
    BY <1>3, <2>1, <2>2 DEF Points
<1>18. CASE InvokeStep(a)
  <2>1. at'[a].pc \in {"working", "answered", "invalid"}
    <3>1. CASE at' = [at EXCEPT ![a].pc = "working", ![a].ran = TRUE]
      BY <1>1, <3>1 DEF AttemptsTypeOK, Attempt
    <3>2. CASE at' = [at EXCEPT ![a].pc = "answered"]
      BY <1>1, <3>2 DEF AttemptsTypeOK, Attempt
    <3>3. CASE Goto(a, "invalid")
      BY <1>1, <3>3, GotoMoves DEF Points
    <3>. QED
      BY <1>18, <3>1, <3>2, <3>3 DEF InvokeStep
  <2>2. UNCHANGED jobs
    BY <1>18 DEF InvokeStep
  <2>. QED
    BY <1>3, <2>1, <2>2 DEF Points
<1>9. CASE PrepareStep(a)
  <2>1. IsModel(a) /\ At(a, "prepare")
    BY <1>1, <1>9 DEF PrepareStep, Assigned, ModelPoints
  <2>2. at'[a].pc \in {"build", "abandon"}
    BY <1>1, <1>9, GotoMoves DEF PrepareStep, Points
  <2>3. CASE ClaimContextOk(Job(a)) /\ ClaimContextDo(Job(a))
    BY <1>1, <2>1, <2>2, <2>3, ContextIsTaken
  <2>4. CASE UNCHANGED jobs /\ Goto(a, "abandon")
    BY <1>1, <1>3, <2>4, GotoMoves DEF Points
  <2>. QED
    BY <1>9, <2>3, <2>4 DEF PrepareStep
<1>10. CASE RefusedStep(a) \/ LostStep(a)
  <2>1. at[a].pc \in {"refused", "lost"}
    BY <1>10 DEF RefusedStep, LostStep
  <2>2. CASE IsModel(a)
    <3>1. ReleaseClaim(a)
      BY <1>10, <2>2 DEF RefusedStep, LostStep
    <3>2. GivesBack(a) \/ (UNCHANGED jobs /\ at'[a].pc = "cleanup")
      BY <1>1, <2>1, <2>2, <3>1, ContextIsGivenBack
    <3>3. CASE GivesBack(a)
      BY <3>3 DEF GivesBack
    <3>. QED
      BY <1>3, <3>2, <3>3 DEF Points
  <2>3. CASE ~IsModel(a)
    BY <1>1, <1>3, <1>10, <2>3, GotoMoves DEF RefusedStep, LostStep, Points
  <2>. QED
    BY <2>2, <2>3
<1>11. CASE StartStep(a)
  <2>1. at'[a].pc \in {"claim", "authorize", "lost"} /\ At(a, "start")
    BY <1>1, <1>11, GotoMoves DEF StartStep, Points
  <2>2. CASE RunningOk(Job(a)) /\ RunningDo(Job(a), a)
             /\ Goto(a, IF IsModel(a) THEN "claim" ELSE "authorize")
    <3>1. at'[a].pc # "lost"
      BY <1>1, <2>2, GotoMoves DEF Points
    <3>. QED
      BY <1>1, <2>1, <2>2, <3>1, CallsKeepClaims
  <2>3. CASE ~RunningOk(Job(a)) /\ UNCHANGED jobs /\ Goto(a, "lost")
    <3>1. at'[a].pc = "lost"
      BY <1>1, <2>3, GotoMoves DEF Points
    <3>. QED
      BY <2>3, <3>1 DEF RunningOk, KeepsClaims
  <2>. QED
    BY <1>11, <2>2, <2>3 DEF StartStep
<1>12. ASSUME KeepsClaims, at'[a].pc \in Points \ (Holding \cup {"claim", "authorize", "lost"})
       PROVE  Goal
  BY <1>12
<1>13. CASE AuthorizeStep(a)
  <2>1. at'[a].pc \in {"recorded", "done"}
    BY <1>1, <1>13, GotoMoves DEF AuthorizeStep, Points
  <2>2. KeepsClaims
    BY <1>1, <1>13, CallsKeepClaims DEF AuthorizeStep, KeepsClaims
  <2>. QED
    BY <1>12, <2>1, <2>2 DEF Points
<1>14. CASE CallWorkerStep(a)
  <2>1. at'[a].pc \in {"working", "done"}
    BY <1>1, <1>14, GotoMoves DEF CallWorkerStep, Points, AttemptsTypeOK, Attempt
  <2>2. KeepsClaims
    BY <1>1, <1>14, CallsKeepClaims DEF CallWorkerStep, KeepsClaims
  <2>. QED
    BY <1>12, <2>1, <2>2 DEF Points
<1>15. CASE ClaimModelStep(a)
  <2>1. at'[a].pc \in {"invoke", "unclaimed"}
    BY <1>1, <1>15, GotoMoves DEF ClaimModelStep, Points
  <2>2. KeepsClaims
    BY <1>1, <1>15, CallsKeepClaims DEF ClaimModelStep, KeepsClaims
  <2>. QED
    BY <1>12, <2>1, <2>2 DEF Points
<1>16. ASSUME NEW outcome, NEW onReject \in {"done", "uncommitted"},
              CommitCall(a, outcome, onReject)
       PROVE  Goal
  <2>1. at'[a].pc \in {"committed", "done", "uncommitted"}
    BY <1>1, <1>16, GotoMoves DEF CommitCall, Points
  <2>2. KeepsClaims
    BY <1>1, <1>16, CallsKeepClaims DEF CommitCall, KeepsClaims
  <2>. QED
    BY <1>12, <2>1, <2>2 DEF Points
<1> HIDE DEF ClaimsMove
<1>17. CASE DenyStep(a) \/ WorkerStep(a) \/ ModelStep(a)
  BY <1>16, <1>17 DEF DenyStep, WorkerStep, ModelStep
<1>. QED
  BY <1>4, <1>5, <1>6, <1>7, <1>8, <1>9, <1>10, <1>11, <1>13, <1>14, <1>15, <1>17, <1>18 DEF Step

\* Who claims an invocation of a model, and who completes a job.
KeepsEnd ==
  \A j \in Jobs :
    /\ jobs'[j].modelInvocation = jobs[j].modelInvocation
    /\ jobs'[j].currentState \in TerminalStates <=> jobs[j].currentState \in TerminalStates

EndsMove(a) ==
  \A j \in Jobs :
    /\ jobs'[j].modelInvocation # jobs[j].modelInvocation =>
         /\ IsModel(a) /\ jobs'[j].modelInvocation = a
         /\ jobs'[j].currentState \notin TerminalStates
    /\ jobs'[j].currentState \in TerminalStates /\ jobs[j].currentState \notin TerminalStates =>
         j = Job(a) /\ at'[a].pc = "committed"

LEMMA CallsKeepEnd ==
  ASSUME StoreTypeOK, NEW j \in Jobs, NEW e, NEW decision,
         \/ RunningOk(j) /\ RunningDo(j, e)
         \/ RecordDecisionDo(j, e, decision)
         \/ ClaimWorkerDo(j)
  PROVE  KeepsEnd
  BY DEF StoreTypeOK, JobRecord, RunningOk, RunningDo, RecordDecisionDo, ClaimWorkerDo,
         KeepsEnd, TerminalStates

LEMMA ContextKeepsEnd ==
  ASSUME StoreTypeOK, NEW j \in Jobs, ClaimContextDo(j) \/ ReleaseContextDo(j)
  PROVE  KeepsEnd
  BY DEF StoreTypeOK, JobRecord, ClaimContextDo, ReleaseContextDo, KeepsEnd

LEMMA CommitEnds ==
  ASSUME StoreTypeOK, AttemptsTypeOK, NEW a \in Attempts, Job(a) \in Jobs, NEW outcome,
         NEW onReject, CommitCall(a, outcome, onReject)
  PROVE  EndsMove(a)
<1>1. CASE CommitDo(Job(a), outcome) /\ Goto(a, "committed")
  <2>1. at'[a].pc = "committed"
    BY <1>1, GotoMoves DEF Points
  <2>. QED
    BY <1>1, <2>1 DEF StoreTypeOK, JobRecord, CommitDo, EndsMove
<1>2. CASE UNCHANGED jobs
  BY <1>2 DEF EndsMove
<1>. QED
  BY <1>1, <1>2 DEF CommitCall

LEMMA StepMovesEnds ==
  ASSUME RelayInv, NEW a \in Attempts, Step(a)
  PROVE  EndsMove(a)
<1>1. Job(a) \in Jobs /\ StoreTypeOK /\ AttemptsTypeOK /\ Assigned(a)
  BY StepsWereBegun, StepsAreAttempts DEF RelayInv, Attempting, StoreInv, Sound
<1>2. KeepsEnd => EndsMove(a)
  BY DEF KeepsEnd, EndsMove
<1>3. CASE UNCHANGED jobs
  BY <1>3 DEF EndsMove
<1>4. CASE PrepareStep(a)
  BY <1>1, <1>2, <1>3, <1>4, ContextKeepsEnd DEF PrepareStep
<1>5. CASE RefusedStep(a) \/ LostStep(a)
  BY <1>1, <1>2, <1>3, <1>5, ContextKeepsEnd DEF RefusedStep, LostStep, ReleaseClaim
<1>6. CASE StartStep(a)
  BY <1>1, <1>2, <1>3, <1>6, CallsKeepEnd DEF StartStep
<1>7. CASE AuthorizeStep(a)
  BY <1>1, <1>2, <1>3, <1>7, CallsKeepEnd DEF AuthorizeStep
<1>8. CASE CallWorkerStep(a)
  BY <1>1, <1>2, <1>3, <1>8, CallsKeepEnd DEF CallWorkerStep
<1>9. CASE ClaimModelStep(a)
  <2>1. IsModel(a)
    BY <1>1, <1>9 DEF ClaimModelStep, Assigned, ModelPoints, At
  <2>2. CASE ClaimModelOk(Job(a), a) /\ ClaimModelDo(Job(a), a)
    BY <1>1, <2>1, <2>2
    DEF StoreTypeOK, JobRecord, ClaimModelOk, ClaimModelDo, EndsMove, TerminalStates
  <2>. QED
    BY <1>3, <1>9, <2>2 DEF ClaimModelStep
<1>10. CASE DenyStep(a) \/ WorkerStep(a) \/ ModelStep(a)
  BY <1>1, <1>10, CommitEnds DEF DenyStep, WorkerStep, ModelStep
<1>. QED
  BY <1>3, <1>4, <1>5, <1>6, <1>7, <1>8, <1>9, <1>10
  DEF Step, EvaluateStep, ReserveStep, BuildStep, PackageStep, PackageFails, AbandonStep,
      FreshStep, ConfirmStep, ConfirmedStep, CleanupStep, GatewayThrows, InvokeStep,
      GiveUpStep, CommittedStep

\* Only the step from "start" sets an execution.
LEMMA ExecutionsKept ==
  ASSUME RelayInv, NEW a \in Attempts, Step(a), ~At(a, "start")
  PROVE  \A j \in Jobs : jobs'[j].executionId = jobs[j].executionId
<1> DEFINE Kept == \A j \in Jobs : jobs'[j].executionId = jobs[j].executionId
<1>1. Job(a) \in Jobs /\ StoreTypeOK /\ AttemptsTypeOK
  BY StepsWereBegun, StepsAreAttempts DEF RelayInv, Attempting, StoreInv
<1>2. KeepsExecution => Kept
  BY DEF KeepsExecution
<1>3. CASE UNCHANGED jobs
  BY <1>3
<1>4. CASE PrepareStep(a)
  BY <1>1, <1>2, <1>3, <1>4, ContextKeeps DEF PrepareStep
<1>5. CASE RefusedStep(a) \/ LostStep(a)
  BY <1>1, <1>2, <1>3, <1>5, ContextKeeps DEF RefusedStep, LostStep, ReleaseClaim
<1>6. CASE AuthorizeStep(a)
  BY <1>1, <1>2, <1>3, <1>6, DecisionKeeps DEF AuthorizeStep
<1>7. CASE CallWorkerStep(a)
  BY <1>1, <1>3, <1>7 DEF CallWorkerStep, ClaimWorkerDo, StoreTypeOK, JobRecord
<1>8. CASE ClaimModelStep(a)
  BY <1>1, <1>3, <1>8, ClaimModelClaims DEF ClaimModelStep, ModelClaimed
<1>9. CASE DenyStep(a) \/ WorkerStep(a) \/ ModelStep(a)
  BY <1>1, <1>2, <1>9, CommitKeeps DEF DenyStep, WorkerStep, ModelStep
<1>. QED
  BY <1>3, <1>4, <1>5, <1>6, <1>7, <1>8, <1>9
  DEF Step, EvaluateStep, ReserveStep, BuildStep, PackageStep, PackageFails, AbandonStep,
      FreshStep, ConfirmStep, ConfirmedStep, CleanupStep, GatewayThrows, InvokeStep,
      GiveUpStep, CommittedStep, StartStep

\* A job that was started is never ACCEPTED again.
LEMMA StartedStays ==
  ASSUME StoreInv, [StoreNext]_jobs, NEW j \in Jobs,
         jobs[j].currentState \in {"RUNNING", "COMPLETED", "FAILED"}
  PROVE  jobs'[j].currentState \in {"RUNNING", "COMPLETED", "FAILED"}
<1>1. jobs[j].executionId # NoExecution
  BY DEF StoreInv, ExecutionInv, Untouched
<1>2. jobs'[j].executionId # NoExecution
  BY <1>1, GrowsStep DEF RecordGrows
<1>3. StoreInv'
  BY StoreInvStep
<1>4. jobs'[j].currentState \notin {"ABSENT", "SUBMITTED", "ACCEPTED"}
  BY <1>2, <1>3 DEF StoreInv, ExecutionInv, Untouched
<1>5. jobs'[j].currentState \in JobStates
  BY <1>3 DEF StoreInv, StoreTypeOK, JobRecord
<1>. QED
  BY <1>4, <1>5 DEF JobStates, LiveStates, TerminalStates

\* An attempt that starts a job holds its claim already; one that does not hold
\* the claim gets it only when nobody does.
LEMMA HolderStep ==
  ASSUME RelayInv, HolderInv, NEW a \in Attempts, Step(a)
  PROVE  HolderInv'
<1>1. ~At(a, "idle") /\ Job(a) \in Jobs /\ Sound(a)
  BY StepsWereBegun, StepsAreAttempts DEF RelayInv, Attempting
<1>2. /\ Moved(a)
      /\ \A j \in Jobs : jobs'[j].executionId \in {jobs[j].executionId, a}
      /\ Sound(a)'
  BY StepIsSound DEF MovesSoundly
<1>3. ClaimsMove(a) /\ EndsMove(a)
  BY StepMovesClaims, StepMovesEnds
<1>4. \A b \in Attempts : IsModel(b)' = IsModel(b) /\ Job(b)' = Job(b)
  BY <1>2 DEF Moved, IsModel, Job
<1>5. \A b \in Attempts : IsModel(b) => Job(b) \in Jobs /\ Sound(b)
  BY DEF RelayInv, Sound, Assigned, IsModel, IdleAttempt, At
<1>6. \A j \in Jobs : jobs[j].currentState = "ACCEPTED" => jobs[j].executionId \notin Attempts
  BY NoExecutionAssumption DEF RelayInv, StoreInv, ExecutionInv, Untouched, Attempts
<1>7. \A b \in Attempts : b # a /\ Holds(b)' => Holds(b)
  BY <1>2, <1>4, <1>5 DEF Holds, Moved, IsModel, Job
<1>8. Holds(a)' => Holds(a) \/ Takes(a)
  <2>1. CASE At(a, "start")
    BY <1>4, <2>1 DEF Holds, Holding, At
  <2>2. CASE ~At(a, "start") /\ jobs'[Job(a)].executionId = a
    BY <1>1, <1>4, <2>2, ExecutionsKept DEF Holds
  <2>3. CASE jobs'[Job(a)].executionId # a
    BY <1>1, <1>3, <1>4, <2>3 DEF ClaimsMove, Holds, GivesBack, Holding
  <2>. QED
    BY <2>1, <2>2, <2>3
<1>9. ASSUME NEW b \in Attempts, Holds(b)' PROVE (jobs[Job(b)].modelContextClaimed)'
  <2>1. CASE b = a /\ Takes(a)
    BY <1>4, <2>1 DEF Takes
  <2>2. CASE Holds(b)
    <3>1. jobs[Job(b)].modelContextClaimed /\ Job(b) \in Jobs
      BY <1>5, <2>2 DEF HolderInv, Holds
    <3>2. CASE Takes(a)
      BY <1>4, <3>1, <3>2 DEF Takes
    <3>3. CASE GivesBack(a)
      <4>1. Job(b) # Job(a)
        <5>1. At(a, "refused")
          BY <3>3 DEF GivesBack, HolderInv, At
        <5>2. Holds(a)
          BY <3>3, <5>1 DEF GivesBack, Holds, Holding, At
        <5>3. b # a
          <6>1. at'[a].pc = "cleanupAll" /\ jobs[Job(a)].executionId \notin Attempts
            BY <1>1, <1>6, <3>3 DEF GivesBack
          <6>2. jobs'[Job(a)].executionId # a
            BY <1>1, <5>1, <6>1, ExecutionsKept DEF At
          <6>. QED
            BY <1>4, <1>9, <6>1, <6>2 DEF Holds, Holding
        <5>. QED
          BY <2>2, <5>2, <5>3 DEF HolderInv
      <4>. QED
        BY <1>4, <3>1, <3>3, <4>1 DEF GivesBack
    <3>4. CASE KeepsClaims
      BY <1>4, <3>1, <3>4 DEF KeepsClaims
    <3>. QED
      BY <1>3, <3>2, <3>3, <3>4 DEF ClaimsMove
  <2>. QED
    BY <1>7, <1>8, <1>9, <2>1, <2>2
<1>10. ASSUME NEW b \in Attempts, NEW c \in Attempts, Holds(b)', Holds(c)', Job(b)' = Job(c)'
       PROVE  b = c
  <2>1. ASSUME Takes(a), NEW d \in Attempts, Holds(d) PROVE Job(d) # Job(a)
    BY <2>1 DEF Takes, HolderInv
  <2>. QED
    BY <1>4, <1>7, <1>8, <1>10, <2>1 DEF HolderInv
<1>11. \A b \in Attempts, j \in Jobs : jobs'[j].modelInvocation = b => IsModel(b)'
  BY <1>3, <1>4 DEF EndsMove, HolderInv
<1>12. ASSUME NEW b \in Attempts, At(b, "lost")'
       PROVE  (jobs[Job(b)].currentState # "ACCEPTED")'
  <2>1. CASE b = a
    BY <1>4, <1>12, <2>1, StepMovesClaims DEF At
  <2>2. CASE b # a
    <3>1. At(b, "lost") /\ Job(b) \in Jobs /\ Assigned(b)
      BY <1>2, <1>12, <2>2 DEF Moved, At, RelayInv, Sound, Assigned
    <3>2. jobs[Job(b)].currentState \in {"RUNNING", "COMPLETED", "FAILED"}
      BY <3>1 DEF HolderInv, Assigned, At
    <3>3. jobs'[Job(b)].currentState \in {"RUNNING", "COMPLETED", "FAILED"}
      BY <3>1, <3>2, StoreCalls, StartedStays DEF RelayInv
    <3>. QED
      BY <1>4, <3>3
  <2>. QED
    BY <2>1, <2>2
<1>. QED
  BY <1>9, <1>10, <1>11, <1>12 DEF HolderInv
\* What a step does to the packages.
PackagesMove(a) ==
  \/ UNCHANGED packages /\ at[a].pc \notin {"committed", "cleanupAll"}
  \/ At(a, "listing") /\ UNCHANGED jobs /\ packages' = [packages EXCEPT ![a] = "kept"]
  \/ ReleasePackages(Job(a)) /\ UNCHANGED jobs

LEMMA StepMovesPackages ==
  ASSUME NEW a \in Attempts, Step(a)
  PROVE  PackagesMove(a)
  BY DEF PackagesMove, At, Step, EvaluateStep, ReserveStep, PrepareStep, BuildStep,
         PackageStep, PackageFails, AbandonStep, FreshStep, ConfirmStep, ConfirmedStep,
         RefusedStep, CleanupStep, StartStep, LostStep, AuthorizeStep, DenyStep,
         CallWorkerStep, WorkerStep, GatewayThrows, ClaimModelStep, InvokeStep, ModelStep,
         GiveUpStep, CommittedStep

\* The attempt that releases a claim, or completes a job, is about to release
\* the packages of the job; and nobody keeps a package for a job that a model
\* completed, because whoever could has to hold the claim the model holds.
LEMMA KeptStep ==
  ASSUME RelayInv, PathInv, HolderInv, KeptInv, NEW a \in Attempts, Step(a)
  PROVE  KeptInv'
<1>1. ~At(a, "idle") /\ Job(a) \in Jobs /\ Sound(a)
  BY StepsWereBegun, StepsAreAttempts DEF RelayInv, Attempting
<1>2. Moved(a)
  BY StepIsSound DEF MovesSoundly
<1>3. ClaimsMove(a) /\ EndsMove(a) /\ PackagesMove(a)
  BY StepMovesClaims, StepMovesEnds, StepMovesPackages
<1>4. \A b \in Attempts : Job(b)' = Job(b)
  BY <1>2 DEF Moved, Job
<1>5. \A b \in Attempts : packages[b] = "kept" => Job(b) \in Jobs
  BY DEF RelayInv, Sound, Assigned
<1>6. packages \in [Attempts -> {"none", "kept", "released"}]
  BY DEF RelayInv, AttemptsTypeOK
<1> SUFFICES ASSUME NEW k \in Attempts, packages'[k] = "kept"
             PROVE  /\ \/ jobs'[Job(k)].modelContextClaimed
                       \/ ReleaseDue(Job(k), {"cleanupAll"})'
                    /\ /\ jobs'[Job(k)].currentState \in TerminalStates
                       /\ jobs'[Job(k)].modelInvocation # NoExecution
                       => ReleaseDue(Job(k), {"committed", "cleanupAll"})'
  BY <1>4 DEF KeptInv, ReleaseDue, Job
<1>7. CASE k = a /\ At(a, "listing") /\ UNCHANGED jobs
  <2>1. Holds(a) /\ jobs[Job(a)].modelContextClaimed
    BY <1>1, <1>7 DEF Holds, Holding, HolderInv, Sound, Assigned, ModelPoints, At
  <2>2. ASSUME jobs[Job(a)].modelInvocation # NoExecution PROVE FALSE
    <3> DEFINE c == jobs[Job(a)].modelInvocation
    <3>1. c = jobs[Job(a)].executionId /\ c \in Attempts
      BY <1>1, <2>2
      DEF RelayInv, StoreInv, StoreTypeOK, JobRecord, ExecutionInv, EffectExclusive, Attempts
    <3>2. Job(c) = Job(a)
      BY <1>1, <3>1 DEF RelayInv, Sound, OwnExecution
    <3>3. Holds(c)
      BY <1>1, <3>1, <3>2 DEF Holds, HolderInv
    <3>4. c = a
      BY <2>1, <3>1, <3>2, <3>3 DEF HolderInv
    <3>. QED
      BY <1>1, <1>7, <3>1, <3>4 DEF Sound, OwnExecution, At, Started
  <2>. QED
    BY <1>7, <2>1, <2>2
<1>8. CASE packages[k] = "kept" /\ (Job(k) = Job(a) => at[a].pc \notin {"committed", "cleanupAll"})
  <2>1. ASSUME NEW points \in SUBSET {"committed", "cleanupAll"}, ReleaseDue(Job(k), points)
        PROVE  ReleaseDue(Job(k), points)'
    <3>1. PICK b \in Attempts : Job(b) = Job(k) /\ at[b].pc \in points
      BY <2>1 DEF ReleaseDue
    <3>2. b # a
      BY <1>8, <3>1
    <3>. QED
      BY <1>2, <1>4, <3>1, <3>2 DEF ReleaseDue, Moved, Job
  <2>2. \/ jobs'[Job(k)].modelContextClaimed
        \/ ReleaseDue(Job(k), {"cleanupAll"})'
    <3>1. CASE ReleaseDue(Job(k), {"cleanupAll"})
      BY <2>1, <3>1
    <3>2. CASE jobs[Job(k)].modelContextClaimed /\ jobs'[Job(k)].modelContextClaimed
      BY <3>2
    <3>3. CASE jobs[Job(k)].modelContextClaimed /\ ~jobs'[Job(k)].modelContextClaimed
      <4>1. Job(k) = Job(a) /\ at'[a].pc = "cleanupAll"
        BY <1>3, <1>5, <1>8, <3>3 DEF ClaimsMove, Takes, GivesBack, KeepsClaims
      <4>. QED
        BY <1>4, <4>1 DEF ReleaseDue, Job
    <3>. QED
      BY <1>8, <3>1, <3>2, <3>3 DEF KeptInv
  <2>3. ASSUME jobs'[Job(k)].currentState \in TerminalStates,
               jobs'[Job(k)].modelInvocation # NoExecution
        PROVE  ReleaseDue(Job(k), {"committed", "cleanupAll"})'
    <3>1. CASE jobs[Job(k)].currentState \in TerminalStates
      <4>1. jobs[Job(k)].modelInvocation # NoExecution
        BY <1>3, <1>5, <1>8, <2>3 DEF EndsMove
      <4>. QED
        BY <1>8, <2>1, <3>1, <4>1 DEF KeptInv
    <3>2. CASE jobs[Job(k)].currentState \notin TerminalStates
      <4>1. Job(k) = Job(a) /\ at'[a].pc = "committed"
        BY <1>3, <1>5, <1>8, <2>3, <3>2 DEF EndsMove
      <4>. QED
        BY <1>4, <4>1 DEF ReleaseDue, Job
    <3>. QED
      BY <3>1, <3>2
  <2>. QED
    BY <2>2, <2>3
<1>9. packages[k] = "kept" \/ (k = a /\ At(a, "listing") /\ UNCHANGED jobs)
  BY <1>3, <1>6 DEF PackagesMove, ReleasePackages
<1>10. packages[k] = "kept" /\ Job(k) = Job(a) => at[a].pc \notin {"committed", "cleanupAll"}
  BY <1>3, <1>6 DEF PackagesMove, ReleasePackages, Job, At
<1>. QED
  BY <1>7, <1>8, <1>9, <1>10

\* A job that an attempt was made for is not what accept works on.
LEMMA AcceptTouchesOthers ==
  ASSUME RelayInv, NEW j \in Jobs, SubmitJob(j) \/ AcceptJob(j), NEW a \in Attempts,
         ~At(a, "idle")
  PROVE  jobs'[Job(a)] = jobs[Job(a)]
<1>1. jobs[Job(a)].currentState \in {"ACCEPTED", "RUNNING", "COMPLETED", "FAILED"}
      /\ Job(a) \in Jobs
  BY DEF RelayInv, Sound, Assigned
<1>2. jobs[j].currentState \in {"ABSENT", "SUBMITTED"}
  BY DEF SubmitJob, AcceptJob, Claim, ClaimOk, Present, Accept, AcceptOk
<1>. QED
  BY <1>1, <1>2 DEF SubmitJob, AcceptJob, Claim, ClaimDo, Accept, AcceptDo, RelayInv, StoreInv,
                    StoreTypeOK

LEMMA PackageInvInit == RelayInit => PackageInv
  BY NoExecutionAssumption
  DEF RelayInit, StoreInit, AbsentJob, PackageInv, PathInv, HolderInv, KeptInv, Holds,
      IdleAttempt, IsModel, At, Attempts, TerminalStates

LEMMA PackageInvStep == RelayInv /\ PackageInv /\ [RelayNext]_relayVars => PackageInv'
<1> SUFFICES ASSUME RelayInv, PackageInv, [RelayNext]_relayVars PROVE PackageInv'
  OBVIOUS
<1> USE DEF PackageInv
<1>1. PathInv'
  BY PartsStep, PathStep DEF RelayInv
<1>2. \A b \in Attempts : IsModel(b) => ~At(b, "idle")
  BY DEF RelayInv, Sound, Assigned, IsModel, IdleAttempt
<1>3. \A b \in Attempts : packages[b] = "kept" => ~At(b, "idle")
  BY DEF RelayInv, Sound, Assigned
<1>4. ASSUME NEW j \in Jobs, SubmitJob(j) \/ AcceptJob(j)
      PROVE  HolderInv' /\ KeptInv'
  <2>1. UNCHANGED <<at, packages>>
    BY <1>4 DEF SubmitJob, AcceptJob
  <2>2. \A b \in Attempts : ~At(b, "idle") => jobs'[Job(b)] = jobs[Job(b)]
    BY <1>4, AcceptTouchesOthers
  <2>3. \A k \in Jobs : jobs'[k].modelInvocation = jobs[k].modelInvocation
    BY <1>4, AcceptKeeps DEF SubmitJob, AcceptJob, RelayInv, KeepsExecution
  <2>4. HolderInv'
    BY <1>2, <2>1, <2>2, <2>3 DEF HolderInv, Holds, At, Job, IsModel
  <2>5. KeptInv'
    BY <1>3, <2>1, <2>2 DEF KeptInv, ReleaseDue, At, Job
  <2>. QED
    BY <2>4, <2>5
<1>5. ASSUME NEW a \in Attempts, NEW j \in Jobs, NEW kind \in Kinds, Begin(a, j, kind)
      PROVE  HolderInv' /\ KeptInv'
  <2>1. UNCHANGED <<jobs, packages>> /\ At(a, "idle")
    BY <1>5 DEF Begin
  <2>2. \A b \in Attempts : b # a => at'[b] = at[b]
    BY <1>5, BeginIsSound
  <2>3. /\ at'[a].kind = kind /\ at'[a].pc \in {"evaluate", "prepare", "start"}
        /\ kind = "model" => at'[a].pc # "start"
    BY <1>5, RelayAssumption DEF Begin, RelayInv, AttemptsTypeOK
  <2>4. \A k \in Jobs : jobs[k].executionId # a /\ jobs[k].modelInvocation # a
    BY <2>1, NoExecutionAssumption
    DEF RelayInv, Sound, OwnExecution, StoreInv, ExecutionInv, EffectExclusive, At, Started,
        Attempts
  <2>5. ~Holds(a)'
    <3>1. at'[a].job \in Jobs
      BY <1>5 DEF Begin, RelayInv, AttemptsTypeOK
    <3>. QED
      BY <2>1, <2>3, <2>4, <3>1 DEF Holds, IsModel, Holding, Job
  <2>6. \A b \in Attempts : b # a => Holds(b)' = Holds(b)
    BY <2>1, <2>2 DEF Holds, IsModel, Job
  <2>7. HolderInv'
    <3>1. \A b \in Attempts : Holds(b)' =>
            b # a /\ Holds(b) /\ jobs'[Job(b)'].modelContextClaimed /\ Job(b)' = Job(b)
      BY <2>1, <2>2, <2>5, <2>6 DEF HolderInv, Job
    <3>2. \A b \in Attempts, k \in Jobs : jobs'[k].modelInvocation = b => IsModel(b)'
      BY <2>1, <2>2, <2>4 DEF HolderInv, IsModel
    <3>3. \A b \in Attempts : At(b, "lost")' => jobs'[Job(b)'].currentState # "ACCEPTED"
      BY <2>1, <2>2, <2>3 DEF HolderInv, At, Job
    <3>. QED
      BY <3>1, <3>2, <3>3 DEF HolderInv, Job
  <2>8. KeptInv'
    <3>1. \A k \in Jobs, points \in SUBSET {"committed", "cleanupAll"} :
            ReleaseDue(k, points) => ReleaseDue(k, points)'
      BY <2>1, <2>2 DEF ReleaseDue, At, Job
    <3>2. \A b \in Attempts : packages[b] = "kept" => b # a /\ Job(b) \in Jobs /\ Job(b)' = Job(b)
      BY <1>3, <2>1, <2>2 DEF Job, RelayInv, Sound, Assigned
    <3>. QED
      BY <2>1, <3>1, <3>2 DEF KeptInv, Job
  <2>. QED
    BY <2>7, <2>8
<1>6. ASSUME NEW a \in Attempts, Step(a)
      PROVE  HolderInv' /\ KeptInv'
  BY <1>6, HolderStep, KeptStep
<1>7. CASE UNCHANGED relayVars
  <2>1. UNCHANGED <<jobs, at, packages>>
    BY <1>7 DEF relayVars
  <2>2. HolderInv'
    BY <2>1 DEF HolderInv, Holds, At, Job, IsModel
  <2>3. KeptInv'
    <3>1. \A k, points : ReleaseDue(k, points)' = ReleaseDue(k, points)
      BY <2>1 DEF ReleaseDue, Job
    <3>. QED
      BY <2>1, <3>1 DEF KeptInv, Job
  <2>. QED
    BY <1>1, <2>2, <2>3
<1>. QED
  BY <1>1, <1>4, <1>5, <1>6, <1>7 DEF RelayNext

\* A completed job leaves no approved package behind once its attempts have
\* returned, whatever failed and whoever completed it
\* (#releaseApprovedPackages, called by completion and #releaseModelAttempt).
THEOREM PackagesAreReleased == RelaySpec => []PackagesReleased
<1>1. RelayInit => RelayInv /\ PackageInv
  BY RelayInvInit, PackageInvInit
<1>2. RelayInv /\ PackageInv /\ [RelayNext]_relayVars => (RelayInv /\ PackageInv)'
  BY RelayInvStep, PackageInvStep
<1>3. RelayInv /\ PackageInv => PackagesReleased
  <2> SUFFICES ASSUME RelayInv, PackageInv, NEW a \in Attempts, packages[a] = "kept",
                      jobs[Job(a)].currentState \in TerminalStates
               PROVE  ~Settled(Job(a))
    BY DEF PackagesReleased
  <2>1. Job(a) \in Jobs
    BY DEF RelayInv, Sound, Assigned
  <2>2. ReleaseDue(Job(a), {"committed", "cleanupAll"})
    <3>1. CASE jobs[Job(a)].modelInvocation # NoExecution
      BY <3>1 DEF PackageInv, KeptInv
    <3>2. CASE jobs[Job(a)].modelInvocation = NoExecution
      <4>1. ~jobs[Job(a)].modelContextClaimed
        BY <2>1, <3>2 DEF PackageInv, PathInv
      <4>. QED
        BY <4>1 DEF PackageInv, KeptInv, ReleaseDue
    <3>. QED
      BY <3>1, <3>2
  <2>. QED
    BY <2>2 DEF ReleaseDue, Settled, InProgress, Job
<1>. QED
  BY <1>1, <1>2, <1>3, PTL DEF RelaySpec

-----------------------------------------------------------------------------
(* Tracked reservations, of tool attempts.  A reservation is tracked for a  *)
(* job once its attempt tried to start the job, and the loser of a race     *)
(* tracks its own in place of the winner's: what a loser releases is never  *)
(* what the running attempt holds.  With model attempts this does not hold: *)
(* one that is refused releases what is tracked for the job without having  *)
(* tried to start it (#releaseModelAttempt).                                *)

Tracked ==
  \A j \in Jobs : tracked[j] # None =>
    /\ SchedulerWired
    /\ Job(tracked[j]) = j
    /\ at[tracked[j]].pc \in Started \cup {"lost", "done"}

LosersTrackTheirs ==
  \A a \in Attempts : At(a, "lost") =>
    /\ jobs[Job(a)].currentState # "ACCEPTED"
    /\ tracked[Job(a)] # jobs[Job(a)].executionId

UnreleasedInv ==
  \A a \in Attempts : at[a].pc \notin {"lost", "done"} => rsv[a].state # "RELEASED"

TrackInv == Tracked /\ LosersTrackTheirs /\ UnreleasedInv

\* No reservation is released, except perhaps one.
ReleasesAtMost(r) ==
  \A b \in Attempts : rsv'[b].state = "RELEASED" => rsv[b].state = "RELEASED" \/ b = r

LEMMA ExpiryReleasesNone ==
  ASSUME Sched!SchedTypeOK, NEW rs, NEW now, NEW b \in Attempts
  PROVE  /\ Sched!ExpireIfNeeded(rs, now)[b].state = "RELEASED" => rsv[b].state = "RELEASED"
         /\ DOMAIN Sched!ExpireIfNeeded(rs, now) = Attempts
<1>1. rsv[b] \in Sched!Reservation
  BY DEF Sched!SchedTypeOK
<1>. QED
  BY <1>1 DEF Sched!ExpireIfNeeded, Sched!Reservation

LEMMA ReserveReleasesNone ==
  ASSUME Sched!SchedTypeOK, NEW e \in Attempts, NEW r \in Attempts, NEW j, NEW now,
         Sched!Reserve(e, r, j, now)
  PROVE  ReleasesAtMost(None)
<1> DEFINE expired == Sched!ExpireIfNeeded(Sched!OnResource(Sched!Assessed(e)), now)
           made == [ state |-> "ACTIVE", revision |-> 1, job |-> j,
                     resource |-> Sched!Assessed(e), elig |-> e, expiresAt |-> now + Lease ]
<1>1. rsv' = [expired EXCEPT ![r] = made] /\ made.state = "ACTIVE"
  BY DEF Sched!Reserve
<1>2. \A b \in Attempts : expired[b].state = "RELEASED" => rsv[b].state = "RELEASED"
  BY ExpiryReleasesNone
<1>3. DOMAIN expired = Attempts
  BY ExpiryReleasesNone
<1> HIDE DEF expired, made
<1>. QED
  BY <1>1, <1>2, <1>3 DEF ReleasesAtMost

LEMMA ReleaseReleasesOne ==
  ASSUME Sched!SchedTypeOK, NEW r \in Attempts, NEW now, Sched!Release(r, 1, now)
  PROVE  ReleasesAtMost(r)
<1>1. CASE rsv' = [rsv EXCEPT ![r].state = "RELEASED", ![r].revision = @ + 1]
  BY <1>1 DEF ReleasesAtMost, Sched!SchedTypeOK
<1>2. CASE rsv' = Sched!ExpireIfNeeded({r}, now)
  BY <1>2, ExpiryReleasesNone DEF ReleasesAtMost
<1>. QED
  BY <1>1, <1>2 DEF Sched!Release

\* Which reservation a step of a tool attempt may release.
LEMMA StepReleases ==
  ASSUME RelayInv, ToolsOnly, NEW a \in Attempts, Step(a)
  PROVE  \/ ReleasesAtMost(None)
         \/ at'[a].pc = "done" /\ ReleasesAtMost(a)
         \/ /\ at'[a].pc = "done" /\ at[a].pc \in Started \cup {"lost"}
            /\ ReleasesAtMost(tracked[Job(a)])
<1>1. /\ Job(a) \in Jobs /\ AttemptsTypeOK /\ Assigned(a) /\ Sched!SchedTypeOK
      /\ ~At(a, "idle")
  BY StepsWereBegun, StepsAreAttempts, SameSchedTypes
  DEF RelayInv, Attempting, Sound, SchedP!SchedInv
<1>2. at[a].kind = "tool" /\ at[a].pc \notin ModelPoints
  BY <1>1, RelayAssumption DEF Assigned, ToolsOnly, IsModel, At
<1>3. UNCHANGED rsv => ReleasesAtMost(None)
  BY DEF ReleasesAtMost
<1>4. CASE ReserveStep(a)
  BY <1>1, <1>3, <1>4, ReserveReleasesNone DEF ReserveStep, Sched!ReserveRefused, sched
<1>5. CASE ConfirmStep(a)
  <2> DEFINE jobCurrent == /\ jobs[Job(a)].currentState = "ACCEPTED"
                           /\ jobs[Job(a)].revision = at[a].rev
  <2>1. PICK now \in Sched!Nows :
          Sched!ConfirmCall(a, Job(a), RequirementOf[Job(a)], a, jobCurrent, now)
    BY <1>5 DEF ConfirmStep
  <2>2. rsv' = Sched!ExpireIfNeeded({a}, now)
    BY <2>1 DEF Sched!ConfirmCall
  <2>. QED
    BY <1>1, <2>2, ExpiryReleasesNone DEF ReleasesAtMost
<1>6. CASE RefusedStep(a)
  <2>1. at'[a].pc = "done"
    BY <1>1, <1>2, <1>6, GotoMoves DEF RefusedStep, IsModel, Points
  <2>2. UNCHANGED rsv \/ ReleasesAtMost(a)
    BY <1>1, <1>6, ReleaseReleasesOne DEF RefusedStep, ReleaseOwn, sched
  <2>. QED
    BY <1>3, <2>1, <2>2
<1>7. ASSUME ReleaseTracked(Job(a)), Goto(a, "done"), at[a].pc \in Started \cup {"lost"}
      PROVE  \/ ReleasesAtMost(None)
             \/ /\ at'[a].pc = "done" /\ at[a].pc \in Started \cup {"lost"}
                /\ ReleasesAtMost(tracked[Job(a)])
  <2>1. at'[a].pc = "done"
    BY <1>1, <1>7, GotoMoves DEF Points
  <2>2. UNCHANGED rsv \/ ReleasesAtMost(tracked[Job(a)])
    BY <1>1, <1>7, ReleaseReleasesOne DEF ReleaseTracked, AttemptsTypeOK, sched
  <2>. QED
    BY <1>3, <1>7, <2>1, <2>2
<1>8. CASE LostStep(a)
  BY <1>2, <1>7, <1>8 DEF LostStep, IsModel, At
<1>9. CASE GatewayThrows(a) \/ CommittedStep(a)
  BY <1>7, <1>9 DEF GatewayThrows, CommittedStep, Started, At
<1>10. CASE AbandonStep(a) \/ CleanupStep(a) \/ GiveUpStep(a)
  BY <1>2, <1>10 DEF AbandonStep, CleanupStep, GiveUpStep, ModelPoints, At
<1>. QED
  BY <1>3, <1>4, <1>5, <1>6, <1>8, <1>9, <1>10
  DEF Step, EvaluateStep, PrepareStep, BuildStep, PackageStep, PackageFails, FreshStep,
      ConfirmedStep, StartStep, AuthorizeStep, DenyStep, CallWorkerStep, WorkerStep,
      ClaimModelStep, InvokeStep, ModelStep, sched, Sched!Evaluate, Sched!ConfirmResume

\* What a step of a tool attempt tracks.
LEMMA StepTracks ==
  ASSUME RelayInv, ToolsOnly, NEW a \in Attempts, Step(a)
  PROVE  /\ \/ UNCHANGED tracked /\ (at'[a].pc = "lost" => ~SchedulerWired)
            \/ tracked' = [tracked EXCEPT ![Job(a)] = None] /\ at'[a].pc # "lost"
            \/ /\ SchedulerWired /\ At(a, "start")
               /\ tracked' = [tracked EXCEPT ![Job(a)] = a]
         /\ at'[a].pc = "lost" => UNCHANGED jobs /\ At(a, "start")
         /\ At(a, "lost") => at'[a].pc = "done"
         /\ At(a, "start") => at'[a].pc \in Started \cup {"lost"}
<1>1. Job(a) \in Jobs /\ StoreTypeOK /\ AttemptsTypeOK /\ Assigned(a)
  BY StepsWereBegun, StepsAreAttempts DEF RelayInv, Attempting, StoreInv, Sound
<1>2. ~IsModel(a) /\ at[a].pc \notin ModelPoints
  BY <1>1, StepsWereBegun DEF Assigned, ToolsOnly, IsModel, At
<1>3. CASE StartStep(a)
  <2>1. At(a, "start")
        /\ tracked' = IF SchedulerWired THEN [tracked EXCEPT ![Job(a)] = a] ELSE tracked
    BY <1>3 DEF StartStep
  <2>2. CASE Goto(a, "authorize")
    BY <1>1, <2>1, <2>2, GotoMoves DEF Points, Started, At
  <2>3. CASE UNCHANGED jobs /\ Goto(a, "lost")
    BY <1>1, <2>1, <2>3, GotoMoves DEF Points, At
  <2>. QED
    BY <1>2, <1>3, <2>2, <2>3 DEF StartStep
<1>4. ASSUME ~At(a, "start")
      PROVE  at'[a].pc # "lost"
  <2>1. at'[a].pc \in {"claim", "authorize"} => FALSE
    BY <1>4, StepMovesClaims DEF At
  <2>2. CASE FreshStep(a) \/ ConfirmStep(a) \/ PackageStep(a)
    BY <1>1, <1>2, <2>2
    DEF FreshStep, ConfirmStep, PackageStep, AttemptsTypeOK, Attempt, ModelPoints, At
  <2>3. CASE CallWorkerStep(a)
    BY <1>1, <2>3, GotoMoves DEF CallWorkerStep, AttemptsTypeOK, Attempt, Points
  <2>4. CASE EvaluateStep(a) \/ ReserveStep(a) \/ BuildStep(a) \/ PackageFails(a)
             \/ AbandonStep(a) \/ CleanupStep(a) \/ GatewayThrows(a) \/ GiveUpStep(a)
             \/ CommittedStep(a) \/ ConfirmedStep(a)
    BY <1>1, <2>4, GotoMoves
    DEF EvaluateStep, ReserveStep, BuildStep, PackageFails, AbandonStep, CleanupStep,
        GatewayThrows, GiveUpStep, CommittedStep, ConfirmedStep, Points
  <2>5. CASE RefusedStep(a) \/ LostStep(a) \/ AuthorizeStep(a)
    BY <1>1, <1>2, <2>5, GotoMoves DEF RefusedStep, LostStep, AuthorizeStep, Points
  <2>6. CASE DenyStep(a) \/ WorkerStep(a)
    BY <1>1, <2>6, GotoMoves DEF DenyStep, WorkerStep, CommitCall, Points
  <2>. QED
    BY <1>2, <1>4, <2>2, <2>3, <2>4, <2>5, <2>6
    DEF Step, PrepareStep, ClaimModelStep, InvokeStep, ModelStep, StartStep, ModelPoints, At,
        IsModel
<1>5. CASE LostStep(a)
  <2>1. At(a, "lost") /\ Goto(a, "done")
        /\ tracked' = [tracked EXCEPT ![Job(a)] = None]
    BY <1>2, <1>5 DEF LostStep, ReleaseTracked
  <2>. QED
    BY <1>1, <2>1, GotoMoves DEF Points, At
<1>6. ASSUME ~StartStep(a), ~LostStep(a)
      PROVE  /\ ~At(a, "start") /\ ~At(a, "lost")
             /\ \/ UNCHANGED tracked
                \/ tracked' = [tracked EXCEPT ![Job(a)] = None]
  BY <1>6
  DEF Step, EvaluateStep, ReserveStep, PrepareStep, BuildStep, PackageStep, PackageFails,
      AbandonStep, FreshStep, ConfirmStep, ConfirmedStep, RefusedStep, CleanupStep,
      AuthorizeStep, DenyStep, CallWorkerStep, WorkerStep, GatewayThrows, ClaimModelStep,
      InvokeStep, ModelStep, GiveUpStep, CommittedStep, ReleaseTracked, At
<1>. QED
  BY <1>3, <1>4, <1>5, <1>6

LEMMA TrackStep ==
  ASSUME RelayInv, ToolsOnly, TrackInv, NEW a \in Attempts, Step(a)
  PROVE  TrackInv'
<1>1. ~At(a, "idle") /\ ~At(a, "done") /\ Job(a) \in Jobs /\ Sound(a) /\ AttemptsTypeOK
  BY StepsWereBegun, StepsAreAttempts DEF RelayInv, Attempting
<1>2. Moved(a) /\ Sound(a)'
  BY StepIsSound DEF MovesSoundly
<1>3. \A b \in Attempts : Job(b)' = Job(b)
  BY <1>2 DEF Moved, Job
<1>4. [StoreNext]_jobs /\ \A j \in Jobs : RecordGrows(j)
  BY StoreCalls, GrowsStep DEF RelayInv
<1>5. at[a].pc \in Started \cup {"lost"} => at'[a].pc \in Started \cup {"lost", "done"}
  <2>1. CASE at[a].pc \in Started
    <3>1. jobs[Job(a)].executionId = a /\ a # NoExecution
      BY <1>1, <2>1, NoExecutionAssumption DEF Sound, OwnExecution, Attempts
    <3>2. jobs'[Job(a)].executionId = a
      BY <1>1, <1>4, <3>1 DEF RecordGrows
    <3>. QED
      BY <1>1, <1>2, <3>2 DEF Sound, OwnExecution
  <2>. QED
    BY <2>1, StepTracks DEF At
<1>6. Tracked'
  <2> SUFFICES ASSUME NEW j \in Jobs, tracked'[j] # None
               PROVE  /\ SchedulerWired
                      /\ at'[tracked'[j]].job = j
                      /\ at'[tracked'[j]].pc \in Started \cup {"lost", "done"}
    BY DEF Tracked, Job
  <2>1. CASE tracked'[j] = tracked[j]
    <3> DEFINE b == tracked[j]
    <3>1. b \in Attempts /\ SchedulerWired /\ at[b].job = j
          /\ at[b].pc \in Started \cup {"lost", "done"}
      BY <1>1, <2>1 DEF AttemptsTypeOK, TrackInv, Tracked, Job
    <3>. QED
      BY <1>1, <1>2, <1>5, <2>1, <3>1 DEF Moved, At
  <2>2. CASE tracked'[j] # tracked[j]
    <3>1. SchedulerWired /\ At(a, "start") /\ j = Job(a) /\ tracked'[j] = a
      BY <1>1, <2>2, StepTracks DEF AttemptsTypeOK
    <3>. QED
      BY <1>2, <3>1, StepTracks DEF Moved, Job
  <2>. QED
    BY <2>1, <2>2
<1>7. LosersTrackTheirs'
  <2> SUFFICES ASSUME NEW b \in Attempts, at'[b].pc = "lost"
               PROVE  /\ jobs'[Job(b)].currentState # "ACCEPTED"
                      /\ tracked'[Job(b)] # jobs'[Job(b)].executionId
    BY <1>3 DEF LosersTrackTheirs, At, Job
  <2>1. CASE b = a
    <3>1. UNCHANGED jobs /\ At(a, "start")
      BY <2>1, StepTracks
    <3>2. jobs[Job(a)].executionId # a
      BY <1>1, <3>1 DEF Sound, OwnExecution, At, Started
    <3>3. jobs'[Job(a)].currentState # "ACCEPTED"
      BY <2>1, StepMovesClaims
    <3>4. jobs[Job(a)].executionId # None
      <4>1. jobs[Job(a)].currentState \in {"RUNNING", "COMPLETED", "FAILED"}
        BY <1>1, <3>1, <3>3 DEF Sound, Assigned
      <4>2. jobs[Job(a)].executionId # NoExecution
            /\ jobs[Job(a)].executionId \in Attempts \cup {NoExecution}
        BY <1>1, <4>1
        DEF RelayInv, StoreInv, ExecutionInv, Untouched, StoreTypeOK, JobRecord, Attempts
      <4>. QED
        BY <4>2, RelayNoneAssumption
    <3>5. tracked'[Job(a)] \in {a, None}
      <4>1. CASE SchedulerWired
        BY <1>1, <2>1, <4>1, StepTracks DEF AttemptsTypeOK
      <4>2. CASE ~SchedulerWired
        BY <1>1, <1>6, <4>2 DEF Tracked
      <4>. QED
        BY <4>1, <4>2
    <3>. QED
      BY <2>1, <3>1, <3>2, <3>3, <3>4, <3>5
  <2>2. CASE b # a
    <3>1. At(b, "lost") /\ Job(b) \in Jobs /\ Assigned(b)
      BY <1>2, <2>2 DEF Moved, At, RelayInv, Sound, Assigned
    <3>2. /\ jobs[Job(b)].currentState \in {"RUNNING", "COMPLETED", "FAILED"}
          /\ tracked[Job(b)] # jobs[Job(b)].executionId
      BY <3>1 DEF TrackInv, LosersTrackTheirs, Assigned, At
    <3>3. jobs'[Job(b)].currentState \in {"RUNNING", "COMPLETED", "FAILED"}
      BY <1>4, <3>1, <3>2, StartedStays DEF RelayInv
    <3>4. /\ jobs[Job(b)].executionId \in Attempts
          /\ jobs'[Job(b)].executionId = jobs[Job(b)].executionId
      BY <1>4, <3>1, <3>2
      DEF RelayInv, StoreInv, ExecutionInv, Untouched, StoreTypeOK, JobRecord, RecordGrows,
          Attempts
    <3>5. At(a, "start") => jobs[Job(b)].executionId # a
      BY <1>1, <3>1 DEF Sound, OwnExecution, At, Started
    <3>6. tracked'[Job(b)] = tracked[Job(b)] \/ tracked'[Job(b)] = None
          \/ (tracked'[Job(b)] = a /\ At(a, "start"))
      BY <1>1, <3>1, StepTracks DEF AttemptsTypeOK
    <3>. QED
      BY <3>2, <3>3, <3>4, <3>5, <3>6, RelayNoneAssumption
  <2>. QED
    BY <2>1, <2>2
<1>8. UnreleasedInv'
  <2> SUFFICES ASSUME NEW b \in Attempts, at'[b].pc \notin {"lost", "done"},
                      rsv'[b].state = "RELEASED"
               PROVE  FALSE
    BY DEF UnreleasedInv
  <2>1. at[b].pc \notin {"lost", "done"}
    BY <1>1, <1>2, StepTracks DEF Moved, At
  <2>2. rsv[b].state # "RELEASED"
    BY <2>1 DEF TrackInv, UnreleasedInv
  <2>3. b # None
    BY RelayNoneAssumption
  <2>4. /\ at'[a].pc = "done" /\ at[a].pc \in Started \cup {"lost"}
        /\ b = tracked[Job(a)]
    BY <2>2, <2>3, StepReleases DEF ReleasesAtMost
  <2>5. Job(b) = Job(a) /\ at[b].pc \in Started /\ b # a
    BY <1>1, <2>1, <2>3, <2>4 DEF TrackInv, Tracked
  <2>6. jobs[Job(a)].executionId = b
    BY <2>5 DEF RelayInv, Sound, OwnExecution
  <2>7. At(a, "lost")
    BY <1>1, <2>4, <2>5, <2>6 DEF Sound, OwnExecution, At
  <2>. QED
    BY <2>4, <2>6, <2>7 DEF TrackInv, LosersTrackTheirs
<1>. QED
  BY <1>6, <1>7, <1>8 DEF TrackInv

LEMMA TrackInvInit == RelayInit => TrackInv
  BY DEF RelayInit, TrackInv, Tracked, LosersTrackTheirs, UnreleasedInv, IdleAttempt, At,
         Sched!SchedInit, Sched!NoReservation

LEMMA TrackInvStep ==
  RelayInv /\ ToolsOnly /\ TrackInv /\ [RelayNext]_relayVars => TrackInv'
<1> SUFFICES ASSUME RelayInv, ToolsOnly, TrackInv, [RelayNext]_relayVars PROVE TrackInv'
  OBVIOUS
<1>1. ASSUME NEW j \in Jobs, SubmitJob(j) \/ AcceptJob(j)
      PROVE  TrackInv'
  <2>1. UNCHANGED <<at, tracked, rsv>>
    BY <1>1 DEF SubmitJob, AcceptJob, sched
  <2>2. \A b \in Attempts : ~At(b, "idle") => jobs'[Job(b)] = jobs[Job(b)]
    BY <1>1, AcceptTouchesOthers
  <2>. QED
    BY <2>1, <2>2 DEF TrackInv, Tracked, LosersTrackTheirs, UnreleasedInv, At, Job
<1>2. ASSUME NEW a \in Attempts, NEW j \in Jobs, NEW kind \in Kinds, Begin(a, j, kind)
      PROVE  TrackInv'
  <2>1. UNCHANGED <<jobs, tracked, rsv>> /\ At(a, "idle")
    BY <1>2 DEF Begin, sched
  <2>2. \A b \in Attempts : b # a => at'[b] = at[b]
    BY <1>2, BeginIsSound
  <2>3. at'[a].pc # "lost"
    <3>1. at'[a].pc \in {"evaluate", "prepare", "start"}
      BY <1>2, RelayAssumption DEF Begin, RelayInv, AttemptsTypeOK
    <3>. QED
      BY <3>1
  <2>4. Tracked'
    <3>1. \A k \in Jobs : tracked[k] \in Attempts \cup {None} /\ tracked[k] # a
      BY <2>1, RelayNoneAssumption DEF TrackInv, Tracked, At, Started, RelayInv, AttemptsTypeOK
    <3>2. \A k \in Jobs : tracked'[k] = tracked[k]
      BY <2>1
    <3>3. \A k \in Jobs : tracked[k] # None =>
            /\ SchedulerWired
            /\ at[tracked[k]].job = k
            /\ at[tracked[k]].pc \in Started \cup {"lost", "done"}
            /\ at'[tracked[k]] = at[tracked[k]]
      BY <2>2, <3>1 DEF TrackInv, Tracked, Job
    <3>. QED
      BY <3>2, <3>3 DEF Tracked, Job
  <2>5. LosersTrackTheirs'
    BY <2>1, <2>2, <2>3 DEF TrackInv, LosersTrackTheirs, At, Job
  <2>6. UnreleasedInv'
    BY <2>1, <2>2 DEF TrackInv, UnreleasedInv, At
  <2>. QED
    BY <2>4, <2>5, <2>6 DEF TrackInv
<1>3. ASSUME NEW a \in Attempts, Step(a)
      PROVE  TrackInv'
  BY <1>3, TrackStep
<1>4. CASE UNCHANGED relayVars
  <2>1. UNCHANGED <<jobs, at, tracked, rsv>>
    BY <1>4 DEF relayVars
  <2>. QED
    BY <2>1 DEF TrackInv, Tracked, LosersTrackTheirs, UnreleasedInv, At, Job
<1>. QED
  BY <1>1, <1>2, <1>3, <1>4 DEF RelayNext

\* What kind an attempt is of stays.
LEMMA ToolsOnlyBefore ==
  ASSUME RelayInv, [RelayNext]_relayVars, ToolsOnly'
  PROVE  ToolsOnly
<1> SUFFICES ASSUME NEW b \in Attempts PROVE ~IsModel(b)
  BY DEF ToolsOnly
<1>1. ASSUME NEW j \in Jobs, SubmitJob(j) \/ AcceptJob(j)
      PROVE  at' = at
  BY <1>1 DEF SubmitJob, AcceptJob
<1>2. ASSUME NEW a \in Attempts, NEW j \in Jobs, NEW kind \in Kinds, Begin(a, j, kind)
      PROVE  ~IsModel(b)
  <2>1. At(a, "idle") /\ \A c \in Attempts : c # a => at'[c] = at[c]
    BY <1>2, BeginIsSound DEF Begin
  <2>2. ~IsModel(a)
    BY <2>1 DEF RelayInv, Sound, Assigned, IdleAttempt, IsModel
  <2>. QED
    BY <2>1, <2>2 DEF ToolsOnly, IsModel
<1>3. ASSUME NEW a \in Attempts, Step(a)
      PROVE  IsModel(b)' = IsModel(b)
  <2>1. Moved(a)
    BY <1>3, StepIsSound DEF MovesSoundly
  <2>. QED
    BY <2>1 DEF Moved, IsModel
<1>4. CASE UNCHANGED relayVars
  BY <1>4 DEF relayVars, ToolsOnly, IsModel
<1>. QED
  BY <1>1, <1>2, <1>3, <1>4 DEF RelayNext, ToolsOnly, IsModel

LEMMA TrackInvAlways == RelaySpec => [](RelayInv /\ (ToolsOnly => TrackInv))
<1>1. RelayInit => TrackInv
  BY TrackInvInit
<1>2. RelayInv /\ (ToolsOnly => TrackInv) /\ [RelayNext]_relayVars
      => (ToolsOnly => TrackInv)'
  BY TrackInvStep, ToolsOnlyBefore
<1>. QED
  BY <1>1, <1>2, RelayInvAlways, PTL DEF RelaySpec

\* Among tool attempts, whatever fails: while a worker runs for an attempt,
\* the capacity that was reserved for it was not returned, neither by its own
\* attempt nor by the loser of a race for its job, which releases what is
\* tracked for the job (#releaseTrackedReservation).
THEOREM WorkKeepsItsReservation == RelaySpec => []WorkKeepsReservation
<1>1. (ToolsOnly => TrackInv) => WorkKeepsReservation
  BY DEF TrackInv, UnreleasedInv, WorkKeepsReservation, Working, At
<1>. QED
  BY <1>1, TrackInvAlways, PTL

LEMMA RelayLeasesRunOut == RelaySpec => []SchedP!LeasesRunOut
  BY RelayIsSchedulerClient, SchedP!LeasesAlways, RelayLeaseAssumption,
     RelayResourceOfAssumption, RelayNoneAssumption

\* Among tool attempts, whatever fails: two workers are at one exclusive
\* resource at once only if one of them has outlived its lease (reserve, the
\* start of a job, and every release between them).
THEOREM WorkIsExclusive == RelaySpec => []ExclusiveWork
<1>1. RelayInv /\ (ToolsOnly => TrackInv) /\ SchedP!LeasesRunOut => ExclusiveWork
  <2> SUFFICES ASSUME RelayInv, TrackInv, SchedP!LeasesRunOut,
                      NEW a \in Attempts, NEW b \in Attempts,
                      Working(a), Working(b), a # b, rsv[a].resource = rsv[b].resource
               PROVE  Sched!LeaseOver(a, last) \/ Sched!LeaseOver(b, last)
    BY DEF ExclusiveWork
  <2>1. /\ rsv[a].state \in {"FREE", "ACTIVE", "EXPIRED", "RELEASED"}
        /\ rsv[b].state \in {"FREE", "ACTIVE", "EXPIRED", "RELEASED"}
        /\ rsv[a].expiresAt \in Nat /\ rsv[b].expiresAt \in Nat /\ last \in Nat
    BY DEF RelayInv, SchedP!SchedInv, SchedP!SchedTypeOK, SchedP!Reservation
  <2>2. rsv[a].state # "RELEASED" /\ rsv[b].state # "RELEASED"
    BY DEF TrackInv, UnreleasedInv, Working, At
  <2>3. ~(rsv[a].state = "ACTIVE" /\ rsv[b].state = "ACTIVE")
    BY DEF RelayInv, SchedP!SchedInv, SchedP!OneOwnerPerResource, SchedP!Live, SchedP!LiveOwners
  <2>4. \A c \in {a, b} : rsv[c].state \in {"FREE", "EXPIRED"} => rsv[c].expiresAt <= last
    BY <2>1 DEF SchedP!LeasesRunOut, SchedP!LeaseOver
  <2>. QED
    BY <2>1, <2>2, <2>3, <2>4 DEF Sched!LeaseOver
<1>. QED
  BY <1>1, TrackInvAlways, RelayLeasesRunOut, PTL

-----------------------------------------------------------------------------
(* Context claims that are given back.  Where no package fails to be built, *)
(* the claim of a job that was not started yet is held by an attempt that   *)
(* goes on: it starts the job, or is refused and gives the claim back.      *)

ClaimsAreHeld ==
  \A j \in Jobs : jobs[j].modelContextClaimed =>
    \/ jobs[j].currentState \in {"RUNNING", "COMPLETED", "FAILED"}
    \/ /\ jobs[j].currentState = "ACCEPTED"
       /\ \E a \in Attempts : Job(a) = j /\ IsModel(a) /\ at[a].pc \in Holding

\* Who holds a claim keeps to the points where it is held, until the job runs
\* or the claim is given back.
LEMMA HoldersGoOn ==
  ASSUME RelayInv, ~May("memory"), NEW a \in Attempts, Step(a), IsModel(a),
         at[a].pc \in Holding
  PROVE  \/ at'[a].pc \in Holding
         \/ jobs'[Job(a)].currentState \in {"RUNNING", "COMPLETED", "FAILED"}
         \/ ~jobs'[Job(a)].modelContextClaimed
<1>1. Job(a) \in Jobs /\ StoreInv /\ StoreTypeOK /\ AttemptsTypeOK /\ Assigned(a)
      /\ jobs[Job(a)].currentState \in {"ACCEPTED", "RUNNING", "COMPLETED", "FAILED"}
  BY StepsWereBegun, StepsAreAttempts DEF RelayInv, Attempting, StoreInv, Sound, Assigned
<1>2. SchedulerWired \in BOOLEAN
  BY RelayAssumption
<1>3. jobs[Job(a)].currentState \in {"RUNNING", "COMPLETED", "FAILED"} =>
        jobs'[Job(a)].currentState \in {"RUNNING", "COMPLETED", "FAILED"}
  BY <1>1, StoreCalls, StartedStays
<1>4. CASE BuildStep(a)
  BY <1>1, <1>3, <1>4, GotoMoves DEF BuildStep, Holding, Points
<1>5. CASE ConfirmedStep(a)
  BY <1>1, <1>5, GotoMoves DEF ConfirmedStep, Holding, Points
<1>6. CASE PackageStep(a) \/ FreshStep(a) \/ ConfirmStep(a)
  BY <1>1, <1>2, <1>6 DEF PackageStep, FreshStep, ConfirmStep, AttemptsTypeOK, Attempt, Holding
<1>7. CASE RefusedStep(a)
  <2>1. CASE ReleaseContextOk(Job(a)) /\ ReleaseContextDo(Job(a))
    BY <1>1, <2>1 DEF ReleaseContextDo, StoreTypeOK, JobRecord
  <2>2. CASE ~ReleaseContextOk(Job(a)) /\ UNCHANGED jobs
    BY <1>1, <1>3, <2>2 DEF ReleaseContextOk, StoreInv, ExecutionInv, Untouched
  <2>. QED
    BY <1>7, <2>1, <2>2 DEF RefusedStep, ReleaseClaim
<1>8. CASE StartStep(a)
  BY <1>1, <1>3, <1>8, RunningSets DEF StartStep, SetRunning, RunningOk
<1>. QED
  BY <1>4, <1>5, <1>6, <1>7, <1>8
  DEF Step, Holding, At, EvaluateStep, ReserveStep, PrepareStep, PackageFails, AbandonStep,
      CleanupStep, LostStep, AuthorizeStep, DenyStep, CallWorkerStep, WorkerStep,
      GatewayThrows, ClaimModelStep, InvokeStep, ModelStep, GiveUpStep, CommittedStep

\* Who takes a claim holds it.
LEMMA TakersHold ==
  ASSUME RelayInv, NEW a \in Attempts, Step(a), Takes(a)
  PROVE  at'[a].pc \in Holding
<1>1. AttemptsTypeOK /\ at[a].pc = "prepare" /\ jobs' # jobs
  BY DEF RelayInv, Takes, At
<1>2. PrepareStep(a)
  BY <1>1, SMTT(30)
  DEF Step, At, EvaluateStep, ReserveStep, BuildStep, PackageStep, PackageFails,
      AbandonStep, FreshStep, ConfirmStep, ConfirmedStep, RefusedStep, CleanupStep, StartStep,
      LostStep, AuthorizeStep, DenyStep, CallWorkerStep, WorkerStep, GatewayThrows,
      ClaimModelStep, InvokeStep, ModelStep, GiveUpStep, CommittedStep
<1>3. Goto(a, "build")
  BY <1>1, <1>2 DEF PrepareStep
<1>. QED
  BY <1>1, <1>3, GotoMoves DEF Points, Holding

\* A context that was not claimed is claimed by who takes the claim.
LEMMA OnlyTakersClaim ==
  ASSUME RelayInv, NEW a \in Attempts, Step(a), NEW j \in Jobs,
         jobs'[j].modelContextClaimed, ~jobs[j].modelContextClaimed
  PROVE  j = Job(a) /\ Takes(a)
  BY StepMovesClaims DEF ClaimsMove, Takes, GivesBack, KeepsClaims

LEMMA ClaimsStep ==
  ASSUME RelayInv, ClaimsAreHeld, ~May("memory"), NEW a \in Attempts, Step(a)
  PROVE  ClaimsAreHeld'
<1>1. Moved(a)
  BY StepIsSound DEF MovesSoundly
<1>2. \A b \in Attempts : IsModel(b)' = IsModel(b) /\ Job(b)' = Job(b)
  BY <1>1 DEF Moved, IsModel, Job
<1>3. /\ ~At(a, "idle") /\ Job(a) \in Jobs /\ StoreInv
      /\ jobs[Job(a)].currentState \in {"ACCEPTED", "RUNNING", "COMPLETED", "FAILED"}
  BY StepsWereBegun, StepsAreAttempts DEF RelayInv, Attempting, Sound, Assigned
<1>4. [StoreNext]_jobs /\ \A j \in Jobs : RecordGrows(j)
  BY <1>3, StoreCalls, GrowsStep
<1> SUFFICES ASSUME NEW j \in Jobs, jobs'[j].modelContextClaimed,
                    jobs'[j].currentState \notin {"RUNNING", "COMPLETED", "FAILED"}
             PROVE  /\ jobs'[j].currentState = "ACCEPTED"
                    /\ \E b \in Attempts :
                         Job(b)' = j /\ IsModel(b)' /\ at'[b].pc \in Holding
  BY DEF ClaimsAreHeld
<1>5. jobs[j].currentState \notin {"RUNNING", "COMPLETED", "FAILED"}
  BY <1>3, <1>4, StartedStays
<1>6. CASE ~jobs[j].modelContextClaimed
  <2>1. j = Job(a) /\ Takes(a)
    BY <1>6, OnlyTakersClaim
  <2>2. at'[a].pc \in Holding /\ IsModel(a)
    BY <2>1, TakersHold DEF Takes
  <2>. QED
    BY <1>2, <1>3, <1>4, <2>1, <2>2 DEF RecordGrows
<1>7. CASE jobs[j].modelContextClaimed
  <2>1. PICK b \in Attempts : Job(b) = j /\ IsModel(b) /\ at[b].pc \in Holding
    BY <1>5, <1>7 DEF ClaimsAreHeld
  <2>2. at'[b].pc \in Holding
    BY <1>1, <2>1, HoldersGoOn DEF Moved
  <2>3. jobs[j].currentState = "ACCEPTED"
    BY <1>5, <1>7 DEF ClaimsAreHeld
  <2>. QED
    BY <1>2, <1>4, <2>1, <2>2, <2>3 DEF RecordGrows
<1>. QED
  BY <1>6, <1>7

LEMMA ClaimsHeldStep ==
  RelayInv /\ ClaimsAreHeld /\ ~May("memory") /\ [RelayNext]_relayVars => ClaimsAreHeld'
<1> SUFFICES ASSUME RelayInv, ClaimsAreHeld, ~May("memory"), [RelayNext]_relayVars
             PROVE  ClaimsAreHeld'
  OBVIOUS
<1>1. ASSUME NEW j \in Jobs, SubmitJob(j) \/ AcceptJob(j)
      PROVE  ClaimsAreHeld'
  <2>1. UNCHANGED at /\ (Accept(j) \/ \E ns \in Namespaces, fp \in Fingerprints : Claim(j, ns, fp))
    BY <1>1 DEF SubmitJob, AcceptJob
  <2>2. \A k \in Jobs : k # j => jobs'[k] = jobs[k]
    BY <2>1 DEF Accept, AcceptDo, Claim, ClaimDo, RelayInv, StoreInv, StoreTypeOK
  <2>3. ~jobs'[j].modelContextClaimed
    <3>1. CASE Accept(j)
      <4>1. ~jobs[j].modelContextClaimed
        BY <3>1 DEF Accept, AcceptOk, ClaimsAreHeld
      <4>. QED
        BY <3>1, <4>1 DEF Accept, AcceptDo, RelayInv, StoreInv, StoreTypeOK, JobRecord
    <3>2. ASSUME NEW ns \in Namespaces, NEW fp \in Fingerprints, Claim(j, ns, fp)
          PROVE  ~jobs'[j].modelContextClaimed
      BY <3>2 DEF Claim, ClaimDo, AbsentJob, RelayInv, StoreInv, StoreTypeOK
    <3>. QED
      BY <2>1, <3>1, <3>2
  <2>. QED
    BY <2>1, <2>2, <2>3 DEF ClaimsAreHeld, Job, IsModel
<1>2. ASSUME NEW a \in Attempts, NEW j \in Jobs, NEW kind \in Kinds, Begin(a, j, kind)
      PROVE  ClaimsAreHeld'
  <2>1. UNCHANGED jobs /\ At(a, "idle")
    BY <1>2 DEF Begin
  <2>2. \A b \in Attempts : b # a => at'[b] = at[b]
    BY <1>2, BeginIsSound
  <2>3. at[a].pc \notin Holding
    BY <2>1 DEF At, Holding
  <2>. QED
    BY <2>1, <2>2, <2>3 DEF ClaimsAreHeld, Job, IsModel
<1>3. ASSUME NEW a \in Attempts, Step(a)
      PROVE  ClaimsAreHeld'
  BY <1>3, ClaimsStep
<1>4. CASE UNCHANGED relayVars
  <2>1. UNCHANGED <<jobs, at>>
    BY <1>4 DEF relayVars
  <2>. QED
    BY <2>1 DEF ClaimsAreHeld, Job, IsModel
<1>. QED
  BY <1>1, <1>2, <1>3, <1>4 DEF RelayNext

\* Where a package that is asked for is built: a start that was refused, at any
\* stage and whatever else fails, leaves no context claim on a job that nobody
\* works at (#releaseModelAttempt).  Without the hypothesis it is false: a claim
\* is kept when buildContext fails.
THEOREM RejectedStartsAreRetriable ==
  ASSUME ~May("memory") PROVE RelaySpec => []RejectedStartRetriable
<1>1. RelayInit => ClaimsAreHeld
  BY DEF RelayInit, StoreInit, AbsentJob, ClaimsAreHeld
<1>2. RelayInv /\ ClaimsAreHeld /\ [RelayNext]_relayVars => ClaimsAreHeld'
  BY ClaimsHeldStep
<1>3. ClaimsAreHeld => RejectedStartRetriable
  <2> SUFFICES ASSUME ClaimsAreHeld, NEW j \in Jobs, jobs[j].currentState = "ACCEPTED",
                      jobs[j].modelContextClaimed
               PROVE  ~Settled(j)
    BY DEF RejectedStartRetriable
  <2>1. PICK a \in Attempts : Job(a) = j /\ at[a].pc \in Holding
    BY DEF ClaimsAreHeld
  <2>. QED
    BY <2>1 DEF Settled, InProgress, Job, Holding
<1>. QED
  BY <1>1, <1>2, <1>3, RelayInvAlways, PTL DEF RelaySpec

-----------------------------------------------------------------------------
(* Capacity that is returned, where no lease ends and the stores accept     *)
(* what they are asked for.  Then an attempt that reserved a resource owns  *)
(* it until the reservation is given back: nobody else at the same job is   *)
(* past the reservation, so what is tracked for a job is what its last      *)
(* start holds, and each way out of an attempt gives that back.             *)

Steady ==
  /\ MaxTime < Lease
  /\ ~May("memory") /\ ~May("claim") /\ ~May("commit")

Unreserved == {"idle", "evaluate", "reserve"}

\* From the reservation to the start, or to the return without one.
Admitted ==
  { "prepare", "build", "listing", "abandon", "fresh", "confirm", "confirming",
    "refused", "start" }

\* No lease has ended, and none will.
LeasesLast ==
  /\ last <= MaxTime
  /\ \A a \in Attempts :
       /\ rsv[a].state # "EXPIRED"
       /\ rsv[a].state = "ACTIVE" => rsv[a].expiresAt > MaxTime /\ rsv[a].revision = 1

OwnResource(a) == ResourceOf[RequirementOf[Job(a)]]

\* An attempt reserves the resource of its job, and what it reserved is held
\* until the start and tracked from then on.
Reserving(a) ==
  /\ at[a].pc \in Unreserved => rsv[a].state = "FREE"
  /\ at[a].pc \in Admitted /\ SchedulerWired => rsv[a].state = "ACTIVE"
  /\ At(a, "reserve") => traces[a].requirement = RequirementOf[Job(a)]
  /\ ~SchedulerWired => rsv[a].state = "FREE" /\ at[a].pc \notin {"evaluate", "reserve"}
  /\ rsv[a].state # "FREE" => rsv[a].job = Job(a) /\ rsv[a].resource = OwnResource(a)
  /\ rsv[a].state = "ACTIVE" => at[a].pc \in Admitted \/ (at[a].pc # "done" /\ tracked[Job(a)] = a)

TrackedStarts ==
  \A j \in Jobs : tracked[j] # None =>
    /\ Job(tracked[j]) = j
    /\ at[tracked[j]].pc \notin Unreserved \cup Admitted

\* A started tool attempt finds its job as it left it.
OnToolPath(a) ==
  LET job == jobs[Job(a)] IN
  SchedulerWired /\ ~IsModel(a) =>
    /\ at[a].pc \in {"authorize", "recorded", "working"} =>
         job.currentState = "RUNNING" /\ job.modelInvocation = NoExecution
    /\ At(a, "authorize") => job.gatewayDecision = "none" /\ ~job.modelContextClaimed
    /\ At(a, "recorded") =>
         job.gatewayDecision # "none" /\ job.executionRequest = a /\ ~job.invocationClaimed
    /\ At(a, "working") => job.gatewayDecision = "ALLOW" /\ job.invocationClaimed

CapacityInv ==
  /\ LeasesLast
  /\ TrackedStarts
  /\ \A a \in Attempts : Reserving(a) /\ OnToolPath(a)

\* Without an end of leases a look at a reservation changes nothing.
LEMMA NothingExpires ==
  ASSUME RelayInv, LeasesLast, NEW now \in Sched!Nows, NEW rs
  PROVE  /\ now \in 0..MaxTime
         /\ Sched!ExpireIfNeeded(rs, now) = rsv
         /\ \A r \in Attempts : rsv[r].state = "ACTIVE" => ~Sched!LeaseOver(r, now)
<1>1. MaxTime \in Nat /\ last \in Nat /\ last <= MaxTime
  BY RelayLeaseAssumption DEF LeasesLast, RelayInv, SchedP!SchedInv, SchedP!SchedTypeOK
<1>2. rsv \in [Attempts -> SchedP!Reservation]
  BY DEF RelayInv, SchedP!SchedInv, SchedP!SchedTypeOK
<1>3. now \in 0..MaxTime
  BY <1>1 DEF Sched!Nows, Sched!TrustedNow
<1>4. \A r \in Attempts : rsv[r].state = "ACTIVE" => ~Sched!LeaseOver(r, now)
  BY <1>1, <1>2, <1>3 DEF LeasesLast, Sched!LeaseOver, SchedP!Reservation
<1>. QED
  BY <1>2, <1>3, <1>4 DEF Sched!ExpireIfNeeded

\* An attempt obtains the reservation of the resource it was assessed for.
Obtains(a) ==
  /\ At(a, "reserve")
  /\ /\ rsv'[a].state = "ACTIVE" /\ rsv'[a].revision = 1
     /\ rsv'[a].expiresAt > MaxTime
     /\ rsv'[a].job = Job(a) /\ rsv'[a].resource = OwnResource(a)
  /\ \A b \in Attempts : b # a => rsv'[b] = rsv[b]

LEMMA ReserveObtains ==
  ASSUME RelayInv, LeasesLast, MaxTime < Lease, NEW a \in Attempts, At(a, "reserve"),
         traces[a].requirement = RequirementOf[Job(a)],
         NEW now \in Sched!Nows, Sched!Reserve(a, a, Job(a), now)
  PROVE  Obtains(a)
<1>1. rsv \in [Attempts -> SchedP!Reservation] /\ Lease \in Nat /\ MaxTime \in Nat
  BY RelayLeaseAssumption DEF RelayInv, SchedP!SchedInv, SchedP!SchedTypeOK
<1>2. now \in 0..MaxTime
  BY NothingExpires
<1> DEFINE made == [ state |-> "ACTIVE", revision |-> 1, job |-> Job(a),
                     resource |-> Sched!Assessed(a), elig |-> a, expiresAt |-> now + Lease ]
<1>3. rsv' = [Sched!ExpireIfNeeded(Sched!OnResource(Sched!Assessed(a)), now) EXCEPT ![a] = made]
  BY DEF Sched!Reserve
<1>4. rsv' = [rsv EXCEPT ![a] = made]
  BY <1>3, NothingExpires
<1>5. Sched!Assessed(a) = OwnResource(a)
  BY DEF Sched!Assessed, OwnResource
<1>6. now + Lease > MaxTime
  BY <1>1, <1>2
<1>. QED
  BY <1>1, <1>4, <1>5, <1>6 DEF Obtains

\* A reservation is given back.
Returns(r) ==
  /\ rsv'[r].state = IF rsv[r].state = "ACTIVE" THEN "RELEASED" ELSE rsv[r].state
  /\ rsv'[r].job = rsv[r].job /\ rsv'[r].resource = rsv[r].resource
  /\ \A b \in Attempts : b # r => rsv'[b] = rsv[b]

LEMMA ReleaseReturns ==
  ASSUME RelayInv, LeasesLast, NEW r \in Attempts, NEW now \in Sched!Nows,
         Sched!Release(r, 1, now)
  PROVE  Returns(r)
<1>1. rsv \in [Attempts -> SchedP!Reservation]
  BY DEF RelayInv, SchedP!SchedInv, SchedP!SchedTypeOK
<1>2. CASE rsv[r].state = "ACTIVE"
  <2>1. Sched!Releasable(r, 1, now)
    BY <1>2, NothingExpires DEF Sched!Releasable, LeasesLast
  <2>2. rsv' = [rsv EXCEPT ![r].state = "RELEASED", ![r].revision = @ + 1]
    BY <2>1 DEF Sched!Release
  <2>. QED
    BY <1>1, <1>2, <2>2 DEF Returns, SchedP!Reservation
<1>3. CASE rsv[r].state # "ACTIVE"
  <2>1. ~Sched!Releasable(r, 1, now)
    BY <1>3 DEF Sched!Releasable
  <2>2. rsv' = rsv
    BY <2>1, NothingExpires DEF Sched!Release
  <2>. QED
    BY <1>3, <2>2 DEF Returns
<1>. QED
  BY <1>2, <1>3

LEMMA OwnReturns ==
  ASSUME RelayInv, LeasesLast, NEW a \in Attempts, ReleaseOwn(a)
  PROVE  Returns(a)
<1>1. CASE UNCHANGED sched /\ rsv[a].state = "FREE"
  BY <1>1 DEF sched, Returns
<1>. QED
  BY <1>1, ReleaseReturns DEF ReleaseOwn

\* What is tracked for a job is given back.
GivesTracked(j) ==
  /\ tracked' = [tracked EXCEPT ![j] = None]
  /\ IF tracked[j] = None THEN UNCHANGED rsv ELSE Returns(tracked[j])

LEMMA TrackedReturns ==
  ASSUME RelayInv, LeasesLast, NEW j \in Jobs, ReleaseTracked(j)
  PROVE  GivesTracked(j)
<1>1. tracked[j] \in Attempts \cup {None}
  BY DEF RelayInv, AttemptsTypeOK
<1>. QED
  BY <1>1, ReleaseReturns DEF ReleaseTracked, GivesTracked, sched

\* A running job is changed by nobody but its execution.
LEMMA RunningIsPrivate ==
  ASSUME RelayInv, NEW a \in Attempts, NEW b \in Attempts, b # a, Step(b), NEW j \in Jobs,
         jobs[j].executionId = a, jobs[j].currentState = "RUNNING"
  PROVE  jobs'[j] = jobs[j]
<1>1. Job(b) \in Jobs /\ StoreTypeOK /\ ExecutionInv /\ a # NoExecution
  BY StepsWereBegun, StepsAreAttempts, NoExecutionAssumption
  DEF RelayInv, Attempting, StoreInv, Attempts
<1>2. CASE Job(b) # j \/ UNCHANGED jobs
  BY <1>1, <1>2
  DEF Step, EvaluateStep, ReserveStep, PrepareStep, BuildStep, PackageStep, PackageFails,
      AbandonStep, FreshStep, ConfirmStep, ConfirmedStep, RefusedStep, CleanupStep, StartStep,
      LostStep, AuthorizeStep, DenyStep, CallWorkerStep, WorkerStep, GatewayThrows,
      ClaimModelStep, InvokeStep, ModelStep, GiveUpStep, CommittedStep, ReleaseClaim,
      CommitCall, ClaimContextDo, ReleaseContextDo, RunningDo, RecordDecisionDo, ClaimWorkerDo,
      ClaimModelDo, CommitDo, StoreTypeOK
<1>3. CASE Job(b) = j
  <2>1. \A k \in Jobs : jobs[k].gatewayDecision # "none" =>
          jobs[k].executionRequest = jobs[k].executionId
    BY <1>1 DEF ExecutionInv, DecisionOfExecution
  <2>2. /\ ~ClaimContextOk(j) /\ ~ReleaseContextOk(j) /\ ~RunningOk(j)
        /\ ~RecordDecisionOk(j, b) /\ ~ClaimWorkerOk(j, b) /\ ~ClaimModelOk(j, b)
        /\ \A outcome, modelBacked : ~CommitOk(j, b, outcome, modelBacked)
    BY <2>1
    DEF ClaimContextOk, ContextClaimable, ReleaseContextOk, RunningOk, RecordDecisionOk,
        ClaimWorkerOk, WorkerClaimable, ClaimModelOk, CommitOk
  <2>. QED
    BY <1>2, <1>3, <2>2
    DEF Step, EvaluateStep, ReserveStep, PrepareStep, BuildStep, PackageStep, PackageFails,
        AbandonStep, FreshStep, ConfirmStep, ConfirmedStep, RefusedStep, CleanupStep, StartStep,
        LostStep, AuthorizeStep, DenyStep, CallWorkerStep, WorkerStep, GatewayThrows,
        ClaimModelStep, InvokeStep, ModelStep, GiveUpStep, CommittedStep, ReleaseClaim,
        CommitCall
<1>. QED
  BY <1>2, <1>3

Past == Points \ (Unreserved \cup Admitted \cup {"done"})

\* What a step is to reservations and to what is tracked.
GoesOn(a) ==
  /\ UNCHANGED <<rsv, tracked>>
  /\ \/ At(a, "evaluate") /\ at'[a].pc = "reserve"
        /\ traces'[a].requirement = RequirementOf[Job(a)]
     \/ at[a].pc \in Unreserved /\ at'[a].pc = "done"
     \/ at[a].pc \in Admitted /\ at'[a].pc \in Admitted
     \/ at[a].pc \in Past /\ at'[a].pc \in Past
     \/ at[a].pc \in Past /\ at'[a].pc = "done" /\ ~SchedulerWired

IsAdmitted(a) == Obtains(a) /\ UNCHANGED tracked /\ at'[a].pc \in Admitted

TurnsBack(a) ==
  /\ Returns(a) /\ UNCHANGED tracked
  /\ at[a].pc \in Admitted /\ at'[a].pc \in Past \cup {"done"}

Starts(a) ==
  /\ UNCHANGED rsv
  /\ tracked' = IF SchedulerWired THEN [tracked EXCEPT ![Job(a)] = a] ELSE tracked
  /\ At(a, "start") /\ at'[a].pc \in Past

Ends(a) == GivesTracked(Job(a)) /\ at[a].pc \in Past /\ at'[a].pc = "done"

CapacityMoves(a) == GoesOn(a) \/ IsAdmitted(a) \/ TurnsBack(a) \/ Starts(a) \/ Ends(a)

\* The store accepts what a started tool attempt asks for.
LEMMA ToolCallsAccepted ==
  ASSUME RelayInv, CapacityInv, SchedulerWired, NEW a \in Attempts, ~At(a, "idle"), ~IsModel(a)
  PROVE  /\ At(a, "authorize") => RecordDecisionOk(Job(a), a)
         /\ At(a, "recorded") /\ ~Denied(a) => ClaimWorkerOk(Job(a), a)
         /\ At(a, "recorded") /\ Denied(a) =>
              \A outcome \in DenialOutcomes : CommitOk(Job(a), a, outcome, FALSE)
         /\ At(a, "working") =>
              \A outcome \in WorkOutcomes : CommitOk(Job(a), a, outcome, FALSE)
<1>1. OnToolPath(a) /\ OwnExecution(a) /\ Job(a) \in Jobs /\ jobs[Job(a)] \in JobRecord
  BY StepsAreAttempts DEF CapacityInv, RelayInv, Sound, Attempting
<1>2. at[a].pc \in {"authorize", "recorded", "working"} => jobs[Job(a)].executionId = a
  BY <1>1 DEF OwnExecution, Started
<1>3. jobs[Job(a)].gatewayDecision \in {"ALLOW", "DENY", "none"}
  BY <1>1 DEF JobRecord, Decisions
<1> USE DEF OnToolPath, At, Denied
<1>4. At(a, "authorize") => RecordDecisionOk(Job(a), a)
  BY <1>1, <1>2 DEF RecordDecisionOk
<1>5. At(a, "recorded") /\ ~Denied(a) => ClaimWorkerOk(Job(a), a)
  BY <1>1, <1>3 DEF ClaimWorkerOk, WorkerClaimable
<1>6. At(a, "recorded") /\ Denied(a) =>
        \A outcome \in DenialOutcomes : CommitOk(Job(a), a, outcome, FALSE)
  BY <1>1, <1>2 DEF CommitOk, OnWorkerPath, WorkerResultOk
<1>7. At(a, "working") =>
        \A outcome \in WorkOutcomes : CommitOk(Job(a), a, outcome, FALSE)
  BY <1>1, <1>2
  DEF CommitOk, OnWorkerPath, WorkerResultOk, WorkOutcomes, FailOutcomes, DenialOutcomes
<1>. QED
  BY <1>4, <1>5, <1>6, <1>7

LEMMA StepMovesCapacity ==
  ASSUME RelayInv, CapacityInv, Steady, NEW a \in Attempts, Step(a)
  PROVE  CapacityMoves(a)
<1>1. /\ ~At(a, "idle") /\ Job(a) \in Jobs /\ StoreTypeOK /\ AttemptsTypeOK /\ Sound(a)
      /\ LeasesLast /\ Reserving(a)
  BY StepsWereBegun, StepsAreAttempts DEF RelayInv, Attempting, StoreInv, CapacityInv
<1>2. SchedulerWired \in BOOLEAN
  BY RelayAssumption
<1>3. /\ at[a].pc \in Points /\ at'[a].pc \in Points
      /\ \A pc \in Points : pc # "idle" /\ Goto(a, pc) => at'[a].pc = pc
  <2>1. Moved(a)
    BY StepIsSound DEF MovesSoundly
  <2>. QED
    BY <1>1, <2>1, GotoMoves DEF Moved, AttemptsTypeOK, Attempt
<1> USE DEF CapacityMoves, At, Unreserved, Admitted, Past, Points
<1>4. CASE EvaluateStep(a)
  <2>1. PICK decision \in {"ELIGIBLE", "REFUSED"} :
          /\ \E now \in Sched!Nows :
               Sched!Evaluate(a, Job(a), RequirementOf[Job(a)], decision, now)
          /\ Goto(a, IF decision = "ELIGIBLE" THEN "reserve" ELSE "done")
    BY <1>4 DEF EvaluateStep
  <2>2. PICK now \in Sched!Nows :
          Sched!Evaluate(a, Job(a), RequirementOf[Job(a)], decision, now)
    BY <2>1
  <2>3. traces'[a].requirement = RequirementOf[Job(a)]
    <3> DEFINE issued == [ state |-> "HELD", job |-> Job(a),
                           requirement |-> RequirementOf[Job(a)],
                           decision |-> decision, consumed |-> FALSE, issuedAt |-> now ]
               ts == [traces EXCEPT ![a] = issued]
    <3>1. traces' = Sched!Evict(ts, now)
      BY <2>2 DEF Sched!Evaluate
    <3>2. ts[a] = issued
      BY DEF RelayInv, SchedP!SchedInv, SchedP!SchedTypeOK
    <3>3. traces'[a] \in {ts[a], [ts[a] EXCEPT !.state = "EVICTED"]}
      BY <3>1 DEF Sched!Evict
    <3>. QED
      BY <3>2, <3>3
  <2>4. UNCHANGED <<rsv, tracked>> /\ At(a, "evaluate")
    BY <1>4, <2>2 DEF EvaluateStep, Sched!Evaluate
  <2>5. at'[a].pc = IF decision = "ELIGIBLE" THEN "reserve" ELSE "done"
    BY <1>3, <2>1
  <2>. QED
    BY <2>3, <2>4, <2>5 DEF GoesOn
<1>5. CASE ReserveStep(a)
  <2>1. UNCHANGED tracked /\ At(a, "reserve")
    BY <1>5 DEF ReserveStep
  <2>2. ASSUME NEW now \in Sched!Nows, Sched!Reserve(a, a, Job(a), now),
               Goto(a, IF IsModel(a) THEN "prepare" ELSE "fresh")
        PROVE  IsAdmitted(a)
    BY <1>1, <1>3, <2>1, <2>2, ReserveObtains DEF Reserving, Steady, IsAdmitted
  <2>3. CASE UNCHANGED rsv /\ Goto(a, "done")
    BY <1>3, <2>1, <2>3 DEF GoesOn
  <2>. QED
    BY <1>5, <2>2, <2>3 DEF ReserveStep, sched, Sched!ReserveRefused
<1>6. CASE ConfirmStep(a)
  <2> DEFINE jobCurrent == /\ jobs[Job(a)].currentState = "ACCEPTED"
                           /\ jobs[Job(a)].revision = at[a].rev
  <2>1. PICK now \in Sched!Nows :
          Sched!ConfirmCall(a, Job(a), RequirementOf[Job(a)], a, jobCurrent, now)
    BY <1>6 DEF ConfirmStep
  <2>2. rsv' = rsv
    BY <1>1, <2>1, NothingExpires DEF Sched!ConfirmCall
  <2>3. at'[a].pc = "confirming" /\ At(a, "confirm") /\ UNCHANGED tracked
    BY <1>1, <1>6 DEF ConfirmStep, AttemptsTypeOK, Attempt
  <2>. QED
    BY <2>2, <2>3 DEF GoesOn
<1>7. CASE PrepareStep(a) \/ BuildStep(a) \/ PackageFails(a) \/ ConfirmedStep(a)
  <2>1. UNCHANGED <<rsv, tracked>>
    BY <1>7 DEF PrepareStep, BuildStep, PackageFails, ConfirmedStep, sched, Sched!ConfirmResume
  <2>2. at[a].pc \in Admitted /\ at'[a].pc \in Admitted
    BY <1>3, <1>7 DEF PrepareStep, BuildStep, PackageFails, ConfirmedStep
  <2>. QED
    BY <2>1, <2>2 DEF GoesOn
<1>8. CASE PackageStep(a) \/ FreshStep(a)
  <2>1. at[a].pc \in Admitted /\ at'[a].pc \in Admitted
    BY <1>1, <1>2, <1>8 DEF PackageStep, FreshStep, AttemptsTypeOK, Attempt
  <2>. QED
    BY <1>8, <2>1 DEF PackageStep, FreshStep, GoesOn, sched
<1>9. CASE AbandonStep(a) \/ RefusedStep(a)
  <2>1. Returns(a)
    BY <1>1, <1>9, OwnReturns DEF AbandonStep, RefusedStep
  <2>2. at'[a].pc \in {"done", "cleanup", "cleanupAll"}
    BY <1>3, <1>9 DEF AbandonStep, RefusedStep, ReleaseClaim
  <2>. QED
    BY <1>9, <2>1, <2>2 DEF AbandonStep, RefusedStep, TurnsBack
<1>10. CASE StartStep(a)
  <2>1. at'[a].pc \in {"claim", "authorize", "lost"}
    BY <1>3, <1>10 DEF StartStep
  <2>. QED
    BY <1>10, <2>1 DEF StartStep, Starts, sched
<1>11. ASSUME ReleaseTracked(Job(a)), Goto(a, "done"), at[a].pc \in Past
       PROVE  Ends(a)
  BY <1>1, <1>3, <1>11, TrackedReturns DEF Ends
<1>12. CASE CleanupStep(a) \/ GatewayThrows(a) \/ GiveUpStep(a) \/ CommittedStep(a)
  BY <1>11, <1>12 DEF CleanupStep, GatewayThrows, GiveUpStep, CommittedStep
<1>13. CASE LostStep(a)
  <2>1. CASE IsModel(a)
    <3>1. at'[a].pc \in {"cleanup", "cleanupAll"}
      BY <1>3, <1>13, <2>1 DEF LostStep, ReleaseClaim
    <3>. QED
      BY <1>13, <2>1, <3>1 DEF LostStep, GoesOn, sched
  <2>. QED
    BY <1>11, <1>13, <2>1 DEF LostStep
<1>14. ASSUME UNCHANGED <<sched, tracked>>, at[a].pc \in Past,
              at'[a].pc \in Past \/ (at'[a].pc = "done" /\ ~SchedulerWired)
       PROVE  GoesOn(a)
  BY <1>14 DEF GoesOn, sched
<1>15. IsModel(a) /\ at[a].pc \in ToolPoints => FALSE
  BY <1>1 DEF Sound, Assigned
<1>16. CASE AuthorizeStep(a)
  BY <1>1, <1>3, <1>14, <1>15, <1>16, ToolCallsAccepted DEF AuthorizeStep, ToolPoints
<1>17. CASE CallWorkerStep(a)
  <2>1. CASE at' = [at EXCEPT ![a].pc = "working", ![a].ran = TRUE]
    BY <1>1, <1>14, <1>17, <2>1 DEF CallWorkerStep, AttemptsTypeOK, Attempt
  <2>2. CASE Goto(a, "done") /\ ~ClaimWorkerOk(Job(a), a)
    BY <1>1, <1>3, <1>14, <1>15, <1>17, <2>2, ToolCallsAccepted DEF CallWorkerStep, ToolPoints
  <2>. QED
    BY <1>17, <2>1, <2>2 DEF CallWorkerStep, Steady
<1>18. CASE DenyStep(a) \/ WorkerStep(a)
  <2>1. ~IsModel(a) /\ at[a].pc \in {"recorded", "working"} /\ UNCHANGED <<sched, tracked>>
    BY <1>15, <1>18 DEF DenyStep, WorkerStep, ToolPoints
  <2>2. at'[a].pc = "committed" \/ (at'[a].pc = "done" /\ ~SchedulerWired)
    <3>1. ASSUME NEW outcome, CommitCall(a, outcome, "done"),
                 SchedulerWired => CommitOk(Job(a), a, outcome, FALSE)
          PROVE  at'[a].pc = "committed" \/ (at'[a].pc = "done" /\ ~SchedulerWired)
      BY <1>3, <2>1, <3>1 DEF CommitCall, Steady, IsModel
    <3>. QED
      BY <1>1, <1>18, <2>1, <3>1, ToolCallsAccepted DEF DenyStep, WorkerStep
  <2>. QED
    BY <1>14, <2>1, <2>2
<1>19. CASE ClaimModelStep(a)
  <2>1. at'[a].pc \in {"invoke", "unclaimed"}
    BY <1>3, <1>19 DEF ClaimModelStep
  <2>. QED
    BY <1>14, <1>19, <2>1 DEF ClaimModelStep
<1>20. CASE InvokeStep(a)
  <2>1. at'[a].pc \in {"working", "answered", "invalid"}
    BY <1>1, <1>3, <1>20 DEF InvokeStep, AttemptsTypeOK, Attempt
  <2>. QED
    BY <1>14, <1>20, <2>1 DEF InvokeStep
<1>21. CASE ModelStep(a)
  <2>1. at'[a].pc \in {"committed", "uncommitted"}
    BY <1>3, <1>21 DEF ModelStep, CommitCall
  <2>. QED
    BY <1>14, <1>21, <2>1 DEF ModelStep
<1>22. CASE \/ EvaluateStep(a) \/ ReserveStep(a) \/ ConfirmStep(a) \/ PrepareStep(a)
            \/ BuildStep(a) \/ PackageFails(a) \/ ConfirmedStep(a) \/ PackageStep(a)
            \/ FreshStep(a)
  BY <1>4, <1>5, <1>6, <1>7, <1>8, <1>22
<1>23. CASE \/ AbandonStep(a) \/ RefusedStep(a) \/ StartStep(a) \/ CleanupStep(a)
            \/ GatewayThrows(a) \/ GiveUpStep(a) \/ CommittedStep(a) \/ LostStep(a)
  BY <1>9, <1>10, <1>12, <1>13, <1>23
<1>24. CASE \/ AuthorizeStep(a) \/ CallWorkerStep(a) \/ DenyStep(a) \/ WorkerStep(a)
            \/ ClaimModelStep(a) \/ InvokeStep(a) \/ ModelStep(a)
  BY <1>16, <1>17, <1>18, <1>19, <1>20, <1>21, <1>24
<1>. QED
  BY <1>22, <1>23, <1>24 DEF Step

\* The clock stays within its bound.
LEMMA ClockBounded ==
  ASSUME last \in Nat, last <= MaxTime, SchedP!SchedNext \/ UNCHANGED sched
  PROVE  last' <= MaxTime
<1>1. MaxTime \in Nat
  BY RelayLeaseAssumption
<1>2. \A now \in SchedP!Nows : now <= MaxTime
  BY <1>1 DEF SchedP!Nows, SchedP!TrustedNow
<1>3. \A now \in SchedP!Nows : SchedP!ReadClock(now) => last' <= MaxTime
  BY <1>2 DEF SchedP!ReadClock
<1>4. ASSUME NEW now \in SchedP!Nows, NEW e \in Attempts, NEW j \in Jobs,
             NEW q \in Requirements, NEW decision \in {"ELIGIBLE", "REFUSED"},
             SchedP!Evaluate(e, j, q, decision, now)
      PROVE  last' <= MaxTime
  BY <1>3, <1>4 DEF SchedP!Evaluate
<1>5. ASSUME NEW now \in SchedP!Nows, NEW e \in Attempts, NEW j \in Jobs, NEW r \in Attempts,
             SchedP!Reserve(e, r, j, now)
      PROVE  last' <= MaxTime
  BY <1>3, <1>5 DEF SchedP!Reserve
<1>6. ASSUME NEW now \in SchedP!Nows, NEW e \in Attempts, NEW j \in Jobs,
             SchedP!ReserveRefused(e, j, now)
      PROVE  last' <= MaxTime
  BY <1>3, <1>6 DEF SchedP!ReserveRefused
<1>7. ASSUME NEW now \in SchedP!Nows, NEW r \in Attempts, NEW expected \in 1..2,
             SchedP!Release(r, expected, now) \/ SchedP!Current(r, now)
      PROVE  last' <= MaxTime
  BY <1>3, <1>7 DEF SchedP!Release, SchedP!Current
<1>8. ASSUME NEW now \in SchedP!Nows, NEW r \in Attempts, NEW c \in Attempts, NEW j \in Jobs,
             NEW q \in Requirements, NEW jobCurrent \in BOOLEAN,
             SchedP!ConfirmCall(c, j, q, r, jobCurrent, now)
      PROVE  last' <= MaxTime
  BY <1>3, <1>8 DEF SchedP!ConfirmCall
<1>9. ASSUME NEW c \in Attempts, NEW eligible \in BOOLEAN, SchedP!ConfirmResume(c, eligible)
      PROVE  last' <= MaxTime
  BY <1>9 DEF SchedP!ConfirmResume
<1>10. CASE UNCHANGED sched
  BY <1>10 DEF sched
<1>. QED
  BY <1>4, <1>5, <1>6, <1>7, <1>8, <1>9, <1>10 DEF SchedP!SchedNext

\* What an attempt was assessed for is not changed by another.
LEMMA OthersAssessed ==
  ASSUME RelayInv, NEW a \in Attempts, Step(a), NEW b \in Attempts, b # a
  PROVE  traces'[b].requirement = traces[b].requirement
<1>1. traces \in [Attempts -> SchedP!Trace]
  BY DEF RelayInv, SchedP!SchedInv, SchedP!SchedTypeOK
<1>2. ASSUME NEW j, NEW q, NEW decision, NEW now, Sched!Evaluate(a, j, q, decision, now)
      PROVE  traces'[b].requirement = traces[b].requirement
  <2> DEFINE issued == [ state |-> "HELD", job |-> j, requirement |-> q,
                         decision |-> decision, consumed |-> FALSE, issuedAt |-> now ]
             ts == [traces EXCEPT ![a] = issued]
  <2>1. traces' = Sched!Evict(ts, now)
    BY <1>2 DEF Sched!Evaluate
  <2>2. ts[b] = traces[b]
    BY <1>1
  <2> HIDE DEF ts
  <2>3. traces'[b] \in {ts[b], [ts[b] EXCEPT !.state = "EVICTED"]}
    BY <2>1 DEF Sched!Evict
  <2>. QED
    BY <1>1, <2>2, <2>3 DEF SchedP!Trace
<1>3. ASSUME NEW j, NEW now, Sched!Reserve(a, a, j, now)
      PROVE  traces'[b].requirement = traces[b].requirement
  BY <1>1, <1>3 DEF Sched!Reserve
<1>. QED
  BY <1>2, <1>3
  DEF Step, EvaluateStep, ReserveStep, PrepareStep, BuildStep, PackageStep, PackageFails,
      AbandonStep, FreshStep, ConfirmStep, ConfirmedStep, RefusedStep, CleanupStep, StartStep,
      LostStep, AuthorizeStep, DenyStep, CallWorkerStep, WorkerStep, GatewayThrows,
      ClaimModelStep, InvokeStep, ModelStep, GiveUpStep, CommittedStep, ReleaseOwn,
      ReleaseTracked, sched, Sched!ReserveRefused, Sched!ConfirmCall, Sched!ConfirmResume,
      Sched!Release

\* At one job, one reservation is held.
LEMMA OneHolderPerJob ==
  ASSUME RelayInv, NEW a \in Attempts, NEW b \in Attempts, Reserving(a), Reserving(b),
         rsv[a].state = "ACTIVE", rsv[b].state = "ACTIVE", Job(a) = Job(b)
  PROVE  a = b
  BY DEF RelayInv, SchedP!SchedInv, SchedP!OneOwnerPerResource, Reserving, OwnResource

LEMMA ReservingStep ==
  ASSUME RelayInv, CapacityInv, Steady, NEW a \in Attempts, Step(a)
  PROVE  LeasesLast' /\ TrackedStarts' /\ \A b \in Attempts : Reserving(b)'
<1>1. /\ Job(a) \in Jobs /\ AttemptsTypeOK /\ LeasesLast /\ TrackedStarts
      /\ \A b \in Attempts : Reserving(b)
  BY StepsWereBegun, StepsAreAttempts DEF RelayInv, Attempting, CapacityInv
<1>2. Moved(a) /\ CapacityMoves(a)
  BY StepIsSound, StepMovesCapacity DEF MovesSoundly
<1>3. \A b \in Attempts : Job(b)' = Job(b) /\ OwnResource(b)' = OwnResource(b)
  BY <1>2 DEF Moved, Job, OwnResource
<1>4. \A j \in Jobs : tracked[j] \in Attempts \cup {None}
  BY <1>1 DEF AttemptsTypeOK
<1>5. None \notin Attempts
  BY RelayNoneAssumption
<1>6. SchedulerWired \in BOOLEAN
  BY RelayAssumption
\* What a step may do to the reservation of b.
<1>7. ASSUME NEW b \in Attempts
      PROVE  \/ rsv'[b] = rsv[b]
             \/ b = a /\ Obtains(a)
             \/ b = a /\ Returns(a)
             \/ b = tracked[Job(a)] /\ Returns(b) /\ Ends(a)
  <2>1. ASSUME NEW r \in Attempts, Returns(r) PROVE rsv'[b] = rsv[b] \/ b = r
    BY <2>1 DEF Returns
  <2>2. CASE GoesOn(a) \/ Starts(a)
    BY <2>2 DEF GoesOn, Starts
  <2>3. CASE IsAdmitted(a)
    BY <2>3 DEF IsAdmitted, Obtains
  <2>4. CASE TurnsBack(a)
    <3>1. Returns(a)
      BY <2>4 DEF TurnsBack
    <3>2. CASE b = a
      BY <3>1, <3>2
    <3>3. CASE b # a
      BY <2>1, <3>1, <3>3
    <3>. QED
      BY <3>2, <3>3
  <2>5. CASE Ends(a)
    <3>1. CASE tracked[Job(a)] = None
      BY <2>5, <3>1 DEF Ends, GivesTracked
    <3>2. CASE tracked[Job(a)] # None
      <4>1. PICK r \in Attempts : r = tracked[Job(a)]
        BY <1>1, <1>4, <3>2
      <4>2. Returns(r)
        BY <2>5, <3>2, <4>1 DEF Ends, GivesTracked
      <4>. QED
        BY <2>1, <2>5, <4>1, <4>2
    <3>. QED
      BY <3>1, <3>2
  <2>. QED
    BY <1>2, <2>2, <2>3, <2>4, <2>5 DEF CapacityMoves
<1>8. LeasesLast'
  <2>1. last' <= MaxTime
    <3>1. last \in Nat
      BY DEF RelayInv, SchedP!SchedInv, SchedP!SchedTypeOK
    <3>. QED
      BY <1>1, <3>1, SchedulerCalls, ClockBounded DEF LeasesLast
  <2>2. ASSUME NEW b \in Attempts
        PROVE  /\ rsv'[b].state # "EXPIRED"
               /\ rsv'[b].state = "ACTIVE" =>
                    rsv'[b].expiresAt > MaxTime /\ rsv'[b].revision = 1
    BY <1>1, <1>7 DEF LeasesLast, Obtains, Returns
  <2>. QED
    BY <2>1, <2>2 DEF LeasesLast
<1>9. TrackedStarts'
  <2> SUFFICES ASSUME NEW j \in Jobs, tracked'[j] # None
               PROVE  /\ at'[tracked'[j]].job = j
                      /\ at'[tracked'[j]].pc \notin Unreserved \cup Admitted
    BY DEF TrackedStarts, Job
  <2>1. CASE tracked'[j] = tracked[j]
    <3>1. PICK b \in Attempts : b = tracked[j]
      BY <1>4, <2>1
    <3>2. Job(b) = j /\ at[b].pc \notin Unreserved \cup Admitted
      BY <1>1, <2>1, <3>1 DEF TrackedStarts
    <3>3. at'[b].pc \notin Unreserved \cup Admitted
      <4>1. CASE b = a
        BY <1>2, <3>2, <4>1
        DEF CapacityMoves, GoesOn, IsAdmitted, Obtains, TurnsBack, Starts, Ends, At, Past,
            Unreserved, Admitted
      <4>. QED
        BY <1>2, <3>2, <4>1 DEF Moved
    <3>. QED
      BY <1>3, <2>1, <3>1, <3>2, <3>3 DEF Job
  <2>2. CASE tracked'[j] # tracked[j]
    <3>1. j = Job(a) /\ tracked'[j] = a /\ at'[a].pc \in Past
      BY <1>1, <1>2, <2>2
      DEF AttemptsTypeOK, CapacityMoves, GoesOn, IsAdmitted, TurnsBack, Starts, Ends, GivesTracked
    <3>. QED
      BY <1>3, <3>1 DEF Job, Past
  <2>. QED
    BY <2>1, <2>2
<1>10. ASSUME NEW b \in Attempts, b # a PROVE Reserving(b)'
  <2>1. at'[b] = at[b] /\ Reserving(b) /\ Job(b)' = Job(b) /\ OwnResource(b)' = OwnResource(b)
    BY <1>1, <1>2, <1>3, <1>10 DEF Moved
  <2>2. rsv'[b] = rsv[b] \/ (Returns(b) /\ Ends(a) /\ b = tracked[Job(a)])
    BY <1>7, <1>10
  <2>3. traces'[b].requirement = traces[b].requirement
    BY <1>10, OthersAssessed
  <2>4. Returns(b) /\ b = tracked[Job(a)] => at[b].pc \notin Unreserved \cup Admitted
    BY <1>1, <1>5 DEF TrackedStarts
  <2>5. rsv'[b].state = "ACTIVE" =>
          at[b].pc \in Admitted \/ (at[b].pc # "done" /\ tracked'[Job(b)] = b)
    <3> SUFFICES ASSUME rsv'[b].state = "ACTIVE", at[b].pc \notin Admitted
                 PROVE  at[b].pc # "done" /\ tracked'[Job(b)] = b
      OBVIOUS
    <3>1. rsv[b].state = "ACTIVE"
      BY <2>2 DEF Returns
    <3>2. at[b].pc # "done" /\ tracked[Job(b)] = b /\ ~At(b, "idle")
      BY <2>1, <3>1 DEF Reserving, At, Unreserved
    <3>3. Job(b) \in Jobs
      BY <3>2, StepsAreAttempts DEF Attempting
    <3>4. CASE Starts(a) /\ SchedulerWired /\ Job(a) = Job(b)
      <4>1. rsv[a].state = "ACTIVE"
        BY <1>1, <3>4 DEF Starts, Reserving, Admitted, At
      <4>. QED
        BY <1>1, <1>10, <3>1, <3>4, <4>1, OneHolderPerJob
    <3>5. CASE Ends(a) /\ Job(a) = Job(b)
      <4>1. Returns(b)
        BY <1>5, <3>2, <3>5 DEF Ends, GivesTracked
      <4>. QED
        BY <3>1, <4>1 DEF Returns
    <3>6. CASE tracked'[Job(b)] = tracked[Job(b)]
      BY <3>2, <3>6
    <3>. QED
      BY <1>1, <1>2, <1>6, <3>3, <3>4, <3>5, <3>6
      DEF AttemptsTypeOK, CapacityMoves, GoesOn, IsAdmitted, TurnsBack, Starts, Ends, GivesTracked
  <2>6. rsv'[b].state = "FREE" <=> rsv[b].state = "FREE"
    BY <2>2 DEF Returns
  <2>7. rsv'[b].job = rsv[b].job /\ rsv'[b].resource = rsv[b].resource
    BY <2>2 DEF Returns
  <2>8. at[b].pc \in Admitted => rsv'[b].state = rsv[b].state
    BY <2>2, <2>4
  <2>. QED
    BY <2>1, <2>3, <2>5, <2>6, <2>7, <2>8 DEF Reserving, At
<1>11. Reserving(a)'
  <2>1. Reserving(a) /\ Job(a)' = Job(a) /\ OwnResource(a)' = OwnResource(a)
    BY <1>1, <1>3
  <2>2. \A pc \in Past : pc \notin Unreserved \cup Admitted \cup {"done"}
    BY DEF Past
  <2>3. CASE GoesOn(a)
    BY <2>1, <2>2, <2>3 DEF GoesOn, Reserving, At, Unreserved, Admitted
  <2>4. CASE IsAdmitted(a)
    <3>1. SchedulerWired
      BY <1>6, <2>1, <2>4 DEF IsAdmitted, Obtains, Reserving, At
    <3>. QED
      BY <2>1, <2>4, <3>1 DEF IsAdmitted, Obtains, Reserving, At, Unreserved, Admitted
  <2>5. CASE TurnsBack(a)
    <3>1. rsv'[a].state # "ACTIVE" /\ (rsv'[a].state = "FREE" <=> rsv[a].state = "FREE")
      BY <2>5 DEF TurnsBack, Returns
    <3>. QED
      BY <2>1, <2>2, <2>5, <3>1 DEF TurnsBack, Returns, Reserving, At, Unreserved, Admitted
  <2>6. CASE Starts(a)
    BY <1>1, <1>6, <2>1, <2>2, <2>6
    DEF Starts, Reserving, At, Unreserved, Admitted, AttemptsTypeOK
  <2>7. CASE Ends(a)
    <3>1. rsv[a].state = "ACTIVE" => tracked[Job(a)] = a /\ tracked[Job(a)] # None
      BY <1>5, <2>1, <2>2, <2>7 DEF Ends, Reserving
    <3>2. rsv'[a] = rsv[a] \/ Returns(a)
      BY <1>7, <2>7 DEF Ends, Obtains, At, Past, Unreserved
    <3>3. rsv'[a].state # "ACTIVE" /\ (rsv'[a].state = "FREE" <=> rsv[a].state = "FREE")
      BY <3>1, <3>2, <2>7 DEF Ends, GivesTracked, Returns
    <3>4. rsv'[a].job = rsv[a].job /\ rsv'[a].resource = rsv[a].resource
      BY <3>2 DEF Returns
    <3>. QED
      BY <2>1, <2>2, <2>7, <3>3, <3>4 DEF Ends, Reserving, At, Unreserved, Admitted
  <2>. QED
    BY <1>2, <2>3, <2>4, <2>5, <2>6, <2>7 DEF CapacityMoves
<1>. QED
  BY <1>8, <1>9, <1>10, <1>11

\* A started tool attempt keeps its job to itself.
LEMMA ToolPathStep ==
  ASSUME RelayInv, ClaimsAreHeld, CapacityInv, Steady, NEW a \in Attempts, Step(a)
  PROVE  \A b \in Attempts : OnToolPath(b)'
<1>1. /\ ~At(a, "idle") /\ Job(a) \in Jobs /\ StoreInv /\ StoreTypeOK /\ AttemptsTypeOK
      /\ Sound(a)
  BY StepsWereBegun, StepsAreAttempts DEF RelayInv, Attempting, StoreInv
<1>2. Moved(a)
  BY StepIsSound DEF MovesSoundly
<1>3. \A b \in Attempts : IsModel(b)' = IsModel(b) /\ Job(b)' = Job(b)
  BY <1>2 DEF Moved, IsModel, Job
<1>4. ASSUME NEW b \in Attempts, b # a PROVE OnToolPath(b)'
  <2>1. OnToolPath(b) /\ at'[b] = at[b]
    BY <1>2, <1>4 DEF CapacityInv, Moved
  <2>2. CASE /\ SchedulerWired /\ ~IsModel(b)
             /\ at[b].pc \in {"authorize", "recorded", "working"}
    <3>1. /\ Job(b) \in Jobs /\ jobs[Job(b)].executionId = b
          /\ jobs[Job(b)].currentState = "RUNNING"
      BY <2>1, <2>2 DEF OnToolPath, RelayInv, Sound, Assigned, OwnExecution, Started, At
    <3>2. jobs'[Job(b)] = jobs[Job(b)]
      BY <1>4, <3>1, RunningIsPrivate
    <3>. QED
      BY <1>3, <1>4, <2>1, <3>2 DEF OnToolPath, At, Job, IsModel
  <2>. QED
    BY <1>3, <2>1, <2>2 DEF OnToolPath, At
<1>5. OnToolPath(a)'
  <2> SUFFICES ASSUME SchedulerWired, ~IsModel(a),
                      at'[a].pc \in {"authorize", "recorded", "working"}
               PROVE  /\ jobs'[Job(a)].currentState = "RUNNING"
                      /\ jobs'[Job(a)].modelInvocation = NoExecution
                      /\ at'[a].pc = "authorize" =>
                           /\ jobs'[Job(a)].gatewayDecision = "none"
                           /\ ~jobs'[Job(a)].modelContextClaimed
                      /\ at'[a].pc = "recorded" =>
                           /\ jobs'[Job(a)].gatewayDecision # "none"
                           /\ jobs'[Job(a)].executionRequest = a
                           /\ ~jobs'[Job(a)].invocationClaimed
                      /\ at'[a].pc = "working" =>
                           /\ jobs'[Job(a)].gatewayDecision = "ALLOW"
                           /\ jobs'[Job(a)].invocationClaimed
    BY <1>3 DEF OnToolPath, At
  <2>0. at[a].pc \notin ModelPoints /\ OnToolPath(a) /\ Reserving(a)
    BY <1>1 DEF Sound, Assigned, CapacityInv
  <2>1. CASE StartStep(a)
    <3>1. RunningOk(Job(a)) /\ RunningDo(Job(a), a) /\ Goto(a, "authorize")
      BY <1>1, <2>1, GotoMoves DEF StartStep, Points
    <3>2. at'[a].pc = "authorize"
      BY <1>1, <3>1, GotoMoves DEF Points
    <3>3. /\ jobs[Job(a)].modelInvocation = NoExecution
          /\ jobs[Job(a)].gatewayDecision = "none"
      BY <1>1, <3>1 DEF RunningOk, StoreInv, ExecutionInv, Untouched, EffectExclusive
    <3>4. ~jobs[Job(a)].modelContextClaimed
      <4> SUFFICES ASSUME jobs[Job(a)].modelContextClaimed PROVE FALSE
        OBVIOUS
      <4>1. PICK b \in Attempts : Job(b) = Job(a) /\ IsModel(b) /\ at[b].pc \in Holding
        BY <1>1, <3>1 DEF ClaimsAreHeld, RunningOk
      <4>2. Reserving(b) /\ at[b].pc \in Admitted
        BY <4>1 DEF CapacityInv, Holding, Admitted
      <4>3. rsv[b].state = "ACTIVE" /\ rsv[a].state = "ACTIVE"
        BY <2>0, <2>1, <4>2 DEF Reserving, StartStep, Admitted, At
      <4>4. a = b
        BY <2>0, <4>1, <4>2, <4>3, OneHolderPerJob
      <4>. QED
        BY <4>1, <4>4
    <3>. QED
      BY <1>1, <3>1, <3>2, <3>3, <3>4 DEF RunningDo, StoreTypeOK, JobRecord
  <2>2. CASE AuthorizeStep(a)
    <3>1. PICK decision \in Decisions :
            RecordDecisionOk(Job(a), a) /\ RecordDecisionDo(Job(a), a, decision)
      BY <1>1, <2>2, ToolCallsAccepted DEF AuthorizeStep, Decisions, CapacityInv
    <3>2. at'[a].pc = "recorded"
      BY <1>1, <2>2, <3>1, GotoMoves DEF AuthorizeStep, Points
    <3>3. ~jobs[Job(a)].invocationClaimed
      BY <1>1, <3>1 DEF RecordDecisionOk, StoreInv, ExecutionInv, EffectExclusive
    <3>. QED
      BY <1>1, <3>1, <3>2, <3>3
      DEF RecordDecisionOk, RecordDecisionDo, StoreTypeOK, JobRecord, Decisions
  <2>3. CASE CallWorkerStep(a)
    <3>1. ClaimWorkerOk(Job(a), a) /\ ClaimWorkerDo(Job(a))
          /\ at' = [at EXCEPT ![a].pc = "working", ![a].ran = TRUE]
      BY <1>1, <2>3, GotoMoves DEF CallWorkerStep, Points
    <3>2. at'[a].pc = "working"
      BY <1>1, <3>1 DEF AttemptsTypeOK, Attempt
    <3>. QED
      BY <1>1, <3>1, <3>2
      DEF ClaimWorkerOk, WorkerClaimable, ClaimWorkerDo, StoreTypeOK, JobRecord
  <2>4. ~DenyStep(a) /\ ~WorkerStep(a)
    <3>1. ASSUME NEW outcome, CommitCall(a, outcome, "done") PROVE FALSE
      BY <1>1, <3>1, GotoMoves DEF CommitCall, Points
    <3>. QED
      BY <3>1 DEF DenyStep, WorkerStep
  <2>5. CASE FreshStep(a) \/ ConfirmStep(a) \/ PackageStep(a)
    BY <1>1, <2>0, <2>5
    DEF FreshStep, ConfirmStep, PackageStep, AttemptsTypeOK, Attempt, ModelPoints, At
  <2>6. CASE EvaluateStep(a) \/ ReserveStep(a) \/ ConfirmedStep(a) \/ RefusedStep(a)
             \/ LostStep(a) \/ GatewayThrows(a) \/ CommittedStep(a)
    BY <1>1, <2>6, GotoMoves
    DEF EvaluateStep, ReserveStep, ConfirmedStep, RefusedStep, LostStep, GatewayThrows,
        CommittedStep, Points
  <2>. QED
    BY <2>0, <2>1, <2>2, <2>3, <2>4, <2>5, <2>6
    DEF Step, PrepareStep, BuildStep, PackageFails, AbandonStep, CleanupStep, ClaimModelStep,
        InvokeStep, ModelStep, GiveUpStep, ModelPoints, At
<1>. QED
  BY <1>4, <1>5

LEMMA CapacityInvInit == RelayInit => CapacityInv
<1> SUFFICES ASSUME RelayInit PROVE CapacityInv
  OBVIOUS
<1>1. /\ at = [a \in Attempts |-> IdleAttempt] /\ tracked = [j \in Jobs |-> None]
      /\ \A a \in Attempts : rsv[a].state = "FREE"
      /\ last = 0
  BY DEF RelayInit, Sched!SchedInit, Sched!NoReservation
<1>2. LeasesLast
  BY <1>1, RelayLeaseAssumption DEF LeasesLast
<1>3. TrackedStarts
  BY <1>1 DEF TrackedStarts
<1>4. \A a \in Attempts : at[a].pc = "idle"
  BY <1>1 DEF IdleAttempt
<1>5. \A a \in Attempts : Reserving(a) /\ OnToolPath(a)
  BY <1>1, <1>4 DEF Reserving, OnToolPath, At, Admitted
<1>. QED
  BY <1>2, <1>3, <1>5 DEF CapacityInv

LEMMA CapacityInvStep ==
  RelayInv /\ ClaimsAreHeld /\ CapacityInv /\ Steady /\ [RelayNext]_relayVars => CapacityInv'
<1> SUFFICES ASSUME RelayInv, ClaimsAreHeld, CapacityInv, Steady, [RelayNext]_relayVars
             PROVE  CapacityInv'
  OBVIOUS
<1>1. CASE \/ UNCHANGED relayVars
           \/ \E j \in Jobs : SubmitJob(j) \/ AcceptJob(j)
  <2>1. UNCHANGED <<last, traces, rsv, at, tracked>>
    BY <1>1 DEF relayVars, SubmitJob, AcceptJob, sched
  <2>2. \A a \in Attempts : ~At(a, "idle") => jobs'[Job(a)] = jobs[Job(a)]
    BY <1>1, AcceptTouchesOthers DEF relayVars
  <2>3. LeasesLast' /\ TrackedStarts'
    BY <2>1 DEF CapacityInv, LeasesLast, TrackedStarts, Job
  <2>4. \A a \in Attempts : Reserving(a)'
    BY <2>1 DEF CapacityInv, Reserving, At, Job, OwnResource
  <2>5. \A a \in Attempts : OnToolPath(a)'
    BY <2>1, <2>2 DEF CapacityInv, OnToolPath, At, Job, IsModel
  <2>. QED
    BY <2>3, <2>4, <2>5 DEF CapacityInv
<1>2. ASSUME NEW a \in Attempts, NEW j \in Jobs, NEW kind \in Kinds, Begin(a, j, kind)
      PROVE  CapacityInv'
  <2>1. UNCHANGED <<jobs, last, traces, rsv, tracked>> /\ At(a, "idle")
    BY <1>2 DEF Begin, sched
  <2>2. \A b \in Attempts : b # a => at'[b] = at[b]
    BY <1>2, BeginIsSound
  <2>3. /\ at'[a].pc \in {"evaluate", "prepare", "start"}
        /\ SchedulerWired <=> at'[a].pc = "evaluate"
    BY <1>2, RelayAssumption DEF Begin, RelayInv, AttemptsTypeOK
  <2>4. rsv[a].state = "FREE"
    BY <2>1 DEF CapacityInv, Reserving, At, Unreserved
  <2>5. LeasesLast'
    BY <2>1 DEF CapacityInv, LeasesLast
  <2>6. TrackedStarts'
    <3> SUFFICES ASSUME NEW k \in Jobs, tracked[k] # None
                 PROVE  /\ at'[tracked[k]].job = k
                        /\ at'[tracked[k]].pc \notin Unreserved \cup Admitted
      BY <2>1 DEF TrackedStarts, Job
    <3>1. /\ tracked[k] \in Attempts
          /\ Job(tracked[k]) = k /\ at[tracked[k]].pc \notin Unreserved \cup Admitted
      BY DEF CapacityInv, TrackedStarts, RelayInv, AttemptsTypeOK
    <3>2. tracked[k] # a
      BY <2>1, <3>1 DEF At, Unreserved
    <3>. QED
      BY <2>2, <3>1, <3>2 DEF Job
  <2>7. ASSUME NEW b \in Attempts PROVE Reserving(b)' /\ OnToolPath(b)'
    <3>1. CASE b = a
      BY <2>1, <2>3, <2>4, <3>1 DEF Reserving, OnToolPath, At, Unreserved, Admitted
    <3>2. CASE b # a
      <4>1. at'[b] = at[b] /\ Reserving(b) /\ OnToolPath(b)
        BY <2>2, <3>2 DEF CapacityInv
      <4>. QED
        BY <2>1, <4>1 DEF Reserving, OnToolPath, At, Job, IsModel, OwnResource
    <3>. QED
      BY <3>1, <3>2
  <2>. QED
    BY <2>5, <2>6, <2>7 DEF CapacityInv
<1>3. ASSUME NEW a \in Attempts, Step(a)
      PROVE  CapacityInv'
  BY <1>3, ReservingStep, ToolPathStep DEF CapacityInv
<1>. QED
  BY <1>1, <1>2, <1>3 DEF RelayNext

\* Where no lease ends and the stores accept what they are asked for, each way
\* out of an attempt gives its capacity back, whatever races, refusals and
\* exceptions it met: once every attempt at a job has returned, no reservation
\* of the job is live (#releaseReservation, #releaseTrackedReservation).
THEOREM CapacityIsReturned ==
  ASSUME Steady PROVE RelaySpec => []CapacityReturned
<1>1. RelayInit => ClaimsAreHeld /\ CapacityInv
  BY CapacityInvInit DEF RelayInit, StoreInit, AbsentJob, ClaimsAreHeld
<1>2. RelayInv /\ ClaimsAreHeld /\ CapacityInv /\ [RelayNext]_relayVars
      => (ClaimsAreHeld /\ CapacityInv)'
  BY ClaimsHeldStep, CapacityInvStep DEF Steady
<1>3. RelayInv /\ CapacityInv => CapacityReturned
  <2> SUFFICES ASSUME RelayInv, CapacityInv, NEW j \in Jobs, NEW r \in Attempts,
                      rsv[r].job = j, Sched!Live(r)
               PROVE  ~Settled(j)
    BY DEF CapacityReturned
  <2>1. rsv[r].state = "ACTIVE" /\ Reserving(r)
    BY DEF Sched!Live, CapacityInv
  <2>2. Job(r) = j /\ at[r].pc \notin {"idle", "done"}
    BY <2>1 DEF Reserving, Unreserved, Admitted
  <2>. QED
    BY <2>2 DEF Settled, InProgress, Job
<1>. QED
  BY <1>1, <1>2, <1>3, RelayInvAlways, PTL DEF RelaySpec
-----------------------------------------------------------------------------
(* What a completion by a model rests on.  The package an attempt builds    *)
(* stays its own until it returns, and what Relay decides again when it is  *)
(* answered (OutcomeMatches) is decided on that package and on the job's    *)
(* own content, neither of which can have changed.                          *)

\* Where a model attempt has its package.
Packed ==
  { "fresh", "confirm", "confirming", "start", "claim", "invoke", "working", "answered",
    "invalid", "committed" }

\* The package is what buildContext made of some listing, for this job.
Packaged(a) ==
  IsModel(a) /\ at[a].pc \in Packed =>
    \E listed \in Listings :
      at[a].context = ContextItems(listed, Environment, Content(a).department)

\* The job may have a summary, there is a route for it, and what goes in is
\* neither nothing nor too much.
Entitled(a) ==
  /\ Content(a).capability = "pixel.system-status.read"
  /\ Environment \in DOMAIN Routes
  /\ Len(at[a].context) > 0
  /\ TemplateUnits + Units(at[a].context) <= Routes[Environment].maxInput

CompletedRightly(a) ==
  IsModel(a) /\ At(a, "committed") =>
    /\ jobs[Job(a)].currentState \in TerminalStates
    /\ jobs[Job(a)].currentState = "COMPLETED" => Entitled(a)

SummaryInv == \A a \in Attempts : Packaged(a) /\ CompletedRightly(a)

\* Relay accepts whatever an honest Gateway answers: each refusal, and each
\* judgement of an adapter's result (invoke, #gatewayOutcomeMatches).
LEMMA HonestAnswersMatch ==
  ASSUME NEW invocation, invocation.items \in Nat, invocation.units \in Nat
  PROVE  IF Refusal(invocation) # "none"
         THEN OutcomeMatches(invocation, Failed(invocation, Refusal(invocation)))
         ELSE \A result \in ProviderResults :
                OutcomeMatches(invocation, Judged(invocation, result))
<1> DEFINE reason == Refusal(invocation)
           failed(r) == Failed(invocation, r)
<1>1. ASSUME Eligible(invocation), Routed(invocation)
      PROVE  /\ RouteOf(invocation).maxInput \in Nat
             /\ RouteOf(invocation).maxOutput \in Nat
             /\ RouteOf(invocation).maxChars \in Nat
             /\ RouteOf(invocation).placement # NoPlacement
  BY <1>1, ModelGatewayAssumption DEF Routed, RouteOf
<1>2. ASSUME NEW r \in { "OPERATION_INELIGIBLE", "ROUTE_UNSUPPORTED", "EMPTY_CONTEXT",
                         "INPUT_BUDGET_EXCEEDED", "ADAPTER_UNAVAILABLE",
                         "PROVIDER_RESULT_INVALID", "OUTPUT_BUDGET_EXCEEDED" },
             r \in {"OPERATION_INELIGIBLE", "ROUTE_UNSUPPORTED"}
               \/ (Eligible(invocation) /\ Routed(invocation))
      PROVE  /\ ValidOutcome(failed(r)) /\ failed(r).bound
             /\ failed(r).status = "FAILED" /\ failed(r).reason = r
             /\ Eligible(invocation) /\ Routed(invocation)
                  /\ r \notin {"OPERATION_INELIGIBLE", "ROUTE_UNSUPPORTED"} =>
                  failed(r).placement = RouteOf(invocation).placement
  BY <1>1, <1>2 DEF Failed, ValidOutcome
<1>3. CASE reason # "none"
  <2>1. reason \in { "OPERATION_INELIGIBLE", "ROUTE_UNSUPPORTED", "EMPTY_CONTEXT",
                     "INPUT_BUDGET_EXCEEDED", "ADAPTER_UNAVAILABLE" }
    BY <1>3 DEF Refusal
  <2>2. /\ ~Eligible(invocation) <=> reason = "OPERATION_INELIGIBLE"
        /\ Eligible(invocation) => (~Routed(invocation) <=> reason = "ROUTE_UNSUPPORTED")
    BY DEF Refusal
  <2>3. Eligible(invocation) /\ Routed(invocation) =>
          /\ reason = "EMPTY_CONTEXT" <=> invocation.items = 0
          /\ reason = "INPUT_BUDGET_EXCEEDED" <=>
               invocation.items > 0 /\ invocation.units > RouteOf(invocation).maxInput
          /\ reason = "ADAPTER_UNAVAILABLE" =>
               invocation.items > 0 /\ invocation.units <= RouteOf(invocation).maxInput
    BY <1>1 DEF Refusal
  <2> HIDE DEF reason, failed
  <2>4. /\ ValidOutcome(failed(reason)) /\ failed(reason).bound
        /\ failed(reason).status = "FAILED" /\ failed(reason).reason = reason
        /\ Eligible(invocation) /\ Routed(invocation) =>
             failed(reason).placement = RouteOf(invocation).placement
    BY <1>2, <2>1, <2>2
  <2>5. OutcomeMatches(invocation, failed(reason))
    BY <2>1, <2>2, <2>3, <2>4 DEF OutcomeMatches
  <2>. QED
    BY <1>3, <2>5 DEF reason, failed
<1>4. CASE reason = "none"
  <2>1. /\ Eligible(invocation) /\ Routed(invocation)
        /\ invocation.items > 0 /\ invocation.units <= RouteOf(invocation).maxInput
    BY <1>1, <1>4 DEF Refusal
  <2>2. ASSUME NEW result \in ProviderResults
        PROVE  OutcomeMatches(invocation, Judged(invocation, result))
    <3>1. /\ result.units \in Nat /\ result.claimed \in Nat /\ result.chars \in Nat
          /\ result.valid => result.claimed > 0
      BY ModelGatewayAssumption
    <3>2. ASSUME NEW r \in {"PROVIDER_RESULT_INVALID", "OUTPUT_BUDGET_EXCEEDED"}
          PROVE  OutcomeMatches(invocation, failed(r))
      <4> HIDE DEF failed
      <4>. QED
        BY <1>2, <2>1 DEF OutcomeMatches
    <3>3. ASSUME result.valid, result.claimed = result.units,
                 result.units <= RouteOf(invocation).maxOutput,
                 result.chars <= RouteOf(invocation).maxChars
          PROVE  OutcomeMatches(invocation, Succeeded(invocation, result))
      <4> DEFINE outcome == Succeeded(invocation, result)
      <4>1. /\ outcome.bound /\ outcome.status = "SUCCEEDED"
            /\ outcome.reason = "MODEL_OUTPUT_AVAILABLE" /\ outcome.routed
            /\ outcome.placement = RouteOf(invocation).placement
            /\ outcome.output.units = result.units /\ outcome.output.claimed = result.units
            /\ outcome.output.chars = result.chars /\ outcome.output.hashed
        BY DEF Succeeded
      <4>2. outcome.output # NoOutput
        <5>1. "hashed" \in DOMAIN outcome.output /\ "hashed" \notin DOMAIN NoOutput
          BY DEF Succeeded, NoOutput
        <5>. QED
          BY <5>1
      <4> HIDE DEF outcome
      <4>3. ValidOutcome(outcome)
        BY <1>1, <2>1, <3>1, <3>3, <4>1, <4>2 DEF ValidOutcome
      <4>4. OutcomeMatches(invocation, outcome)
        BY <2>1, <3>3, <4>1, <4>3 DEF OutcomeMatches
      <4>. QED
        BY <4>4 DEF outcome
    <3>. QED
      BY <1>1, <2>1, <3>1, <3>2, <3>3 DEF Judged
  <2>. QED
    BY <1>4, <2>2
<1>. QED
  BY <1>3, <1>4

\* Relay takes an outcome for a summary only of a job that is entitled to one.
LEMMA OnlyEntitled ==
  ASSUME NEW a \in Attempts, NEW outcome,
         OutcomeCode(InvocationOf(a), outcome) = "SYSTEM_STATUS_AVAILABLE"
  PROVE  Entitled(a)
<1> DEFINE invocation == InvocationOf(a)
<1>1. OutcomeMatches(invocation, outcome) /\ outcome.status = "SUCCEEDED"
  BY DEF OutcomeCode
<1>2. outcome.reason = "MODEL_OUTPUT_AVAILABLE"
  BY <1>1 DEF OutcomeMatches, ValidOutcome
<1>3. Eligible(invocation) /\ Routed(invocation)
  BY <1>1, <1>2 DEF OutcomeMatches
<1>4. /\ invocation.environment = Environment
      /\ invocation.capability = Content(a).capability
      /\ invocation.items = Len(at[a].context)
      /\ invocation.units = TemplateUnits + Units(at[a].context)
  BY DEF InvocationOf
<1> HIDE DEF invocation
<1>5. invocation.items > 0 /\ invocation.units <= RouteOf(invocation).maxInput
  BY <1>1, <1>2, <1>3 DEF OutcomeMatches
<1>. QED
  BY <1>3, <1>4, <1>5 DEF Eligible, Routed, RouteOf, Entitled

\* Where an attempt goes, its package goes with it.
LEMMA GotoKeepsContext ==
  ASSUME AttemptsTypeOK, NEW a \in Attempts, NEW pc, pc # "done", Goto(a, pc)
  PROVE  at'[a].context = at[a].context
  BY DEF AttemptsTypeOK, Attempt, Goto

\* A job's content is the same for as long as the attempt is for that job.
LEMMA ContentIsKept ==
  ASSUME RelayInv, [RelayNext]_relayVars, NEW a \in Attempts, ~At(a, "idle"),
         at'[a].job = at[a].job
  PROVE  Content(a)' = Content(a)
<1>1. \A j \in Jobs : RecordGrows(j)
  BY PartsStep, GrowsStep DEF RelayInv
<1>2. Job(a) \in Jobs /\ jobs[Job(a)].currentState # "ABSENT"
  BY DEF RelayInv, Sound, Assigned
<1>3. jobs'[Job(a)].fingerprint = jobs[Job(a)].fingerprint
  BY <1>1, <1>2 DEF RecordGrows
<1>4. Job(a)' = Job(a)
  BY DEF Job
<1>. QED
  BY <1>3, <1>4 DEF Content

\* A model attempt has its package from PackageStep on.
GetsPackage(a) ==
  \E listed \in Listings :
    at'[a].context = ContextItems(listed, Environment, Content(a).department)

KeepsPackage(a) ==
  at'[a].pc \in Packed => at[a].pc \in Packed /\ at'[a].context = at[a].context

\* And it commits in ModelStep only.
ContextMoves(a) ==
  /\ GetsPackage(a) \/ KeepsPackage(a)
  /\ at'[a].pc = "committed" => ModelStep(a)

LEMMA StepMovesContext ==
  ASSUME RelayInv, NEW a \in Attempts, Step(a), IsModel(a)
  PROVE  ContextMoves(a)
<1>1. ~At(a, "idle") /\ Job(a) \in Jobs /\ AttemptsTypeOK /\ at[a] \in Attempt /\ Assigned(a)
  BY StepsWereBegun, StepsAreAttempts DEF RelayInv, Attempting, Sound, AttemptsTypeOK
<1>2. ASSUME NEW pc \in Points, Goto(a, pc), pc # "idle",
             pc \in Packed => at[a].pc \in Packed, pc = "committed" => ModelStep(a)
      PROVE  ContextMoves(a)
  <2>1. at'[a].pc = pc
    BY <1>1, <1>2, GotoMoves
  <2>2. pc # "done" => at'[a].context = at[a].context
    BY <1>1, <1>2, GotoKeepsContext
  <2>. QED
    BY <1>2, <2>1, <2>2 DEF ContextMoves, KeepsPackage, Packed
<1>3. CASE PackageStep(a)
  BY <1>1, <1>3 DEF PackageStep, ContextMoves, GetsPackage, AttemptsTypeOK, Attempt
<1>4. CASE FreshStep(a) \/ ConfirmStep(a) \/ InvokeStep(a)
  <2>1. ASSUME at'[a].context = at[a].context, at'[a].pc # "committed" PROVE ContextMoves(a)
    BY <1>4, <2>1 DEF FreshStep, ConfirmStep, InvokeStep, ContextMoves, KeepsPackage, Packed, At
  <2>2. CASE FreshStep(a) \/ ConfirmStep(a)
    BY <1>1, <2>1, <2>2 DEF FreshStep, ConfirmStep, AttemptsTypeOK, Attempt
  <2>3. CASE InvokeStep(a)
    <3>1. CASE Goto(a, "invalid")
      BY <1>1, <2>1, <3>1, GotoMoves, GotoKeepsContext DEF Points
    <3>2. CASE ~Goto(a, "invalid")
      <4>1. \/ at' = [at EXCEPT ![a].pc = "working", ![a].ran = TRUE]
            \/ at' = [at EXCEPT ![a].pc = "answered"]
        BY <2>3, <3>2 DEF InvokeStep
      <4>. QED
        BY <1>1, <2>1, <4>1 DEF AttemptsTypeOK, Attempt
    <3>. QED
      BY <3>1, <3>2
  <2>. QED
    BY <1>4, <2>2, <2>3
<1>5. CASE EvaluateStep(a) \/ ReserveStep(a)
  <2>1. Goto(a, "reserve") \/ Goto(a, "done") \/ Goto(a, "prepare")
    BY <1>5 DEF EvaluateStep, ReserveStep
  <2>. QED
    BY <1>2, <2>1 DEF Points, Packed
<1>6. CASE PrepareStep(a) \/ BuildStep(a) \/ PackageFails(a) \/ AbandonStep(a)
  <2>1. Goto(a, "build") \/ Goto(a, "abandon") \/ Goto(a, "listing") \/ Goto(a, "done")
    BY <1>6 DEF PrepareStep, BuildStep, PackageFails, AbandonStep
  <2>. QED
    BY <1>2, <2>1 DEF Points, Packed
<1>7. CASE ConfirmedStep(a) \/ StartStep(a) \/ ClaimModelStep(a)
  <2>1. /\ at[a].pc \in Packed
        /\ \E pc \in {"start", "refused", "claim", "lost", "invoke", "unclaimed"} : Goto(a, pc)
    BY <1>7 DEF ConfirmedStep, StartStep, ClaimModelStep, At, Packed
  <2>. QED
    BY <1>2, <2>1 DEF Points
<1>8. CASE RefusedStep(a) \/ CleanupStep(a) \/ LostStep(a) \/ GiveUpStep(a) \/ CommittedStep(a)
  <2>1. Goto(a, "cleanup") \/ Goto(a, "cleanupAll") \/ Goto(a, "done")
    BY <1>8 DEF RefusedStep, CleanupStep, LostStep, GiveUpStep, CommittedStep, ReleaseClaim
  <2>. QED
    BY <1>2, <2>1 DEF Points, Packed
<1>9. CASE ModelStep(a)
  <2>1. /\ at[a].pc \in Packed
        /\ Goto(a, "committed") \/ Goto(a, "uncommitted")
    BY <1>9 DEF ModelStep, CommitCall, At, Packed
  <2>. QED
    BY <1>2, <1>9, <2>1 DEF Points
<1>10. ~(AuthorizeStep(a) \/ DenyStep(a) \/ CallWorkerStep(a))
  BY <1>1 DEF AuthorizeStep, DenyStep, CallWorkerStep, Assigned, ToolPoints, At
<1>11. ~(WorkerStep(a) \/ GatewayThrows(a))
  BY <1>1 DEF WorkerStep, GatewayThrows, Assigned, ToolPoints, At
<1>. QED
  BY <1>3, <1>4, <1>5, <1>6, <1>7, <1>8, <1>9, <1>10, <1>11 DEF Step

\* The completion: only of a job that is entitled to it.
LEMMA CompletionStep ==
  ASSUME RelayInv, SummaryInv, NEW a \in Attempts, Step(a), IsModel(a),
         Content(a)' = Content(a)
  PROVE  CompletedRightly(a)'
<1> SUFFICES ASSUME at'[a].pc = "committed"
             PROVE  /\ jobs'[Job(a)'].currentState \in TerminalStates
                    /\ jobs'[Job(a)'].currentState = "COMPLETED" => Entitled(a)'
  BY DEF CompletedRightly, At
<1>1. Job(a) \in Jobs /\ StoreTypeOK /\ AttemptsTypeOK
  BY StepsWereBegun, StepsAreAttempts DEF RelayInv, Attempting, StoreInv
<1>2. Moved(a) /\ ContextMoves(a)
  BY StepIsSound, StepMovesContext DEF MovesSoundly
<1>3. ModelStep(a)
  BY <1>2 DEF ContextMoves
<1>4. Job(a)' = Job(a)
  BY <1>2 DEF Moved, Job
<1>5. PICK code :
        /\ CommitCall(a, code, "uncommitted")
        /\ code = "SYSTEM_STATUS_AVAILABLE" =>
             \E outcome : OutcomeCode(InvocationOf(a), outcome) = "SYSTEM_STATUS_AVAILABLE"
  BY <1>3 DEF ModelStep
<1>6. at'[a].context = at[a].context /\ CommitDo(Job(a), code)
  <2>1. Goto(a, "uncommitted") => at'[a].pc = "uncommitted"
    BY <1>1, GotoMoves DEF Points
  <2>2. CommitDo(Job(a), code) /\ Goto(a, "committed")
    BY <1>5, <2>1 DEF CommitCall
  <2>. QED
    BY <1>1, <2>2, GotoKeepsContext
<1>7. jobs'[Job(a)].currentState = StateOf(code)
  BY <1>1, <1>6 DEF StoreTypeOK, JobRecord, CommitDo
<1>8. StateOf(code) \in TerminalStates /\ (StateOf(code) = "COMPLETED" => Entitled(a))
  BY <1>5, OnlyEntitled DEF StateOf, TerminalStates
<1>9. Entitled(a) => Entitled(a)'
  BY <1>6 DEF Entitled
<1>. QED
  BY <1>4, <1>7, <1>8, <1>9

LEMMA SummaryInvInit == RelayInit => SummaryInv
  BY DEF RelayInit, SummaryInv, Packaged, CompletedRightly, IdleAttempt, IsModel, At, Attempts

\* Who did not move has the package it had, and its job is as it ended.
LEMMA SummaryStays ==
  ASSUME RelayInv, SummaryInv, [RelayNext]_relayVars, NEW b \in Attempts, ~At(b, "idle"),
         at'[b] = at[b]
  PROVE  Packaged(b)' /\ CompletedRightly(b)'
<1>1. Content(b)' = Content(b)
  BY ContentIsKept
<1>2. Packaged(b)'
  BY <1>1 DEF SummaryInv, Packaged, IsModel
<1>3. Job(b) \in Jobs /\ Job(b)' = Job(b)
  BY DEF RelayInv, Sound, Assigned, Job
<1>4. jobs[Job(b)].currentState \in TerminalStates => jobs'[Job(b)] = jobs[Job(b)]
  BY <1>3, PartsStep, RecordStep DEF RelayInv, StoreInv, RecordMoves
<1>5. Entitled(b) => Entitled(b)'
  BY <1>1 DEF Entitled
<1>6. CompletedRightly(b)'
  BY <1>3, <1>4, <1>5 DEF SummaryInv, CompletedRightly, IsModel, At
<1>. QED
  BY <1>2, <1>6

LEMMA SummaryInvStep == RelayInv /\ SummaryInv /\ [RelayNext]_relayVars => SummaryInv'
<1> SUFFICES ASSUME RelayInv, SummaryInv, [RelayNext]_relayVars, NEW b \in Attempts
             PROVE  Packaged(b)' /\ CompletedRightly(b)'
  BY DEF SummaryInv
<1>1. CASE ~At(b, "idle") /\ at'[b] = at[b]
  BY <1>1, SummaryStays
<1>2. CASE At(b, "idle") /\ at'[b] = at[b]
  BY <1>2 DEF Packaged, CompletedRightly, At, Packed
<1>3. ASSUME NEW j \in Jobs, NEW kind \in Kinds, Begin(b, j, kind)
      PROVE  Packaged(b)' /\ CompletedRightly(b)'
  <2>1. /\ at'[b].kind = kind /\ at'[b].pc \in {"evaluate", "prepare", "start"}
        /\ kind = "model" => at'[b].pc # "start"
    BY <1>3, RelayAssumption DEF Begin, RelayInv, AttemptsTypeOK
  <2>. QED
    BY <2>1 DEF Packaged, CompletedRightly, IsModel, At, Packed
<1>4. CASE Step(b)
  <2>1. ~At(b, "idle") /\ Moved(b)
    BY <1>4, StepsWereBegun, StepIsSound DEF MovesSoundly
  <2>2. Content(b)' = Content(b)
    BY <2>1, ContentIsKept DEF Moved
  <2>3. CASE IsModel(b)
    <3>1. ContextMoves(b)
      BY <1>4, <2>3, StepMovesContext
    <3>2. Packaged(b)'
      BY <2>2, <2>3, <3>1
      DEF ContextMoves, GetsPackage, KeepsPackage, SummaryInv, Packaged
    <3>. QED
      BY <1>4, <2>2, <2>3, <3>2, CompletionStep
  <2>4. CASE ~IsModel(b)
    BY <2>1, <2>4 DEF Moved, IsModel, Packaged, CompletedRightly
  <2>. QED
    BY <2>3, <2>4
<1>5. at'[b] = at[b] \/ Step(b) \/ \E j \in Jobs, kind \in Kinds : Begin(b, j, kind)
  <2>1. ASSUME NEW a \in Attempts, a # b, Step(a) PROVE at'[b] = at[b]
    BY <2>1, StepIsSound DEF MovesSoundly, Moved
  <2>2. ASSUME NEW a \in Attempts, a # b, NEW j \in Jobs, NEW kind \in Kinds, Begin(a, j, kind)
        PROVE  at'[b] = at[b]
    BY <2>2, BeginIsSound
  <2>3. ASSUME NEW j \in Jobs, SubmitJob(j) \/ AcceptJob(j) PROVE at'[b] = at[b]
    BY <2>3 DEF SubmitJob, AcceptJob
  <2>. QED
    BY <2>1, <2>2, <2>3 DEF RelayNext, relayVars
<1>. QED
  BY <1>1, <1>2, <1>3, <1>4, <1>5

\* What the attempt has in its package, if what buildContext computes is right.
LEMMA PackageOfAttempt ==
  ASSUME ContextsFit, RelayInv, SummaryInv, NEW a \in Attempts,
         At(a, "invoke") \/ (At(a, "committed") /\ IsModel(a))
  PROVE  /\ Len(at[a].context) \in 0..MaxItems /\ Chars(at[a].context) <= MaxChars
         /\ Units(at[a].context) \in Nat
         /\ \A k \in DOMAIN at[a].context :
              /\ InScope(at[a].context[k], Environment, Content(a).department)
              /\ Score(at[a].context[k]) > 0
<1>1. /\ IsModel(a) /\ at[a].pc \in Packed
      /\ jobs[Job(a)].fingerprint \in Fingerprints
      /\ Content(a) = ContentOf[jobs[Job(a)].fingerprint]
  BY PresentContent DEF RelayInv, Sound, Assigned, At, Packed, ModelPoints
<1>2. PICK listed \in Listings :
        at[a].context = ContextItems(listed, Environment, Content(a).department)
  BY <1>1 DEF SummaryInv, Packaged
<1>. QED
  BY <1>1, <1>2 DEF ContextsFit

\* A model completes a job only on a summary it was entitled to, and nothing an
\* honest Gateway answers is rejected, for any contents, routes, budgets,
\* listings and adapters and whatever the Gateway answers in fact.  What a
\* context package is limited to (ContextsFit) is computed by folding, and
\* is checked with the runs (buildContext, invoke, #gatewayOutcomeMatches).
THEOREM SummaryIsEarned == ASSUME ContextsFit PROVE RelaySpec => []SummaryEarned
<1>1. RelayInit => RelayInv /\ SummaryInv
  BY RelayInvInit, SummaryInvInit
<1>2. RelayInv /\ SummaryInv /\ [RelayNext]_relayVars => (RelayInv /\ SummaryInv)'
  BY RelayInvStep, SummaryInvStep
<1>3. RelayInv /\ SummaryInv => SummaryEarned
  <2> SUFFICES ASSUME RelayInv, SummaryInv PROVE SummaryEarned
    OBVIOUS
  <2>1. ASSUME NEW a \in Attempts, IsModel(a), At(a, "committed"),
               jobs[Job(a)].currentState = "COMPLETED"
        PROVE  Entitled(a) /\ Len(at[a].context) \in 1..MaxItems
    BY <2>1, PackageOfAttempt, MemoryAssumption DEF SummaryInv, CompletedRightly, Entitled
  <2>2. ASSUME NEW a \in Attempts, At(a, "invoke"), NEW environment
        PROVE  LET invocation == [InvocationOf(a) EXCEPT !.environment = environment] IN
               IF Refusal(invocation) # "none"
               THEN OutcomeMatches(invocation, Failed(invocation, Refusal(invocation)))
               ELSE \A result \in ProviderResults :
                      OutcomeMatches(invocation, Judged(invocation, result))
    <3> DEFINE invocation == [InvocationOf(a) EXCEPT !.environment = environment]
    <3>1. Len(at[a].context) \in Nat /\ TemplateUnits + Units(at[a].context) \in Nat
      BY <2>2, PackageOfAttempt, MemoryAssumption, ModelGatewayAssumption
    <3>2. invocation.items \in Nat /\ invocation.units \in Nat
      BY <3>1 DEF InvocationOf
    <3> HIDE DEF invocation
    <3>3. IF Refusal(invocation) # "none"
          THEN OutcomeMatches(invocation, Failed(invocation, Refusal(invocation)))
          ELSE \A result \in ProviderResults :
                 OutcomeMatches(invocation, Judged(invocation, result))
      BY <3>2, HonestAnswersMatch
    <3>. QED
      BY <3>3 DEF invocation
  <2>3. ASSUME NEW a \in Attempts, IsModel(a), At(a, "committed")
        PROVE  /\ Chars(at[a].context) <= MaxChars
               /\ \A k \in DOMAIN at[a].context :
                    /\ InScope(at[a].context[k], Environment, Content(a).department)
                    /\ Score(at[a].context[k]) > 0
    BY <2>3, PackageOfAttempt
  <2>. QED
    BY <2>1, <2>2, <2>3 DEF SummaryEarned, Entitled
<1>. QED
  BY <1>1, <1>2, <1>3, PTL DEF RelaySpec

===============================================================================
