------------------------------- MODULE Incident -------------------------------
(***************************************************************************)
(* IncidentService over the incident store, as several service instances    *)
(* share one store.                                                         *)
(*                                                                          *)
(* An operation reads the incident, checks it, makes the next record and    *)
(* commits it under the caller's operation id and expected revision.  Each  *)
(* call of the store is a step, because the store may answer AMBIGUOUS (the *)
(* write happened or not) only when it is remote, and then the calls of     *)
(* other instances come in between.  A refused request changes nothing and  *)
(* is no step; the refusals of a commit are steps, for what they say.       *)
(*                                                                          *)
(* Operation ids: a service instance stands for the fresh id of its call in *)
(* progress, which nobody uses again; SharedOps are ids that callers reuse. *)
(***************************************************************************)
EXTENDS Integers, Sequences, FiniteSets, SequencesExt

CONSTANTS
  Incidents, Services, Commanders, EvidenceRefs,
  SharedOps,
  Reported,      \* incidents that were reported before, under shared ids
  Reports,       \* what createIncident may be called with
  Phases,        \* RESPONSE_PHASES in order
  None,          \* null
  MaxRevision,   \* [Incidents -> bound on its revisions]
  MaxLag,        \* bound on the revisions that a call in progress falls behind
  MaxTransfers,  \* MAX_TRANSFERS, 8
  MaxEvidence    \* MAX_EVIDENCE, 16

Classes == {"SECURITY", "INFRASTRUCTURE", "POWER", "THERMAL"}
Severities == {"SEV-0", "SEV-1", "SEV-2", "SEV-3"}

\* An environmental fact is abstracted to the keyword groups it matches.
Facts == SUBSET {"POWER", "THERMAL", "INFRASTRUCTURE"}
NoFact == {"NO_FACT"}

\* The phases that a rule of the code names, in the code's order; any others
\* (PRESERVE_EVIDENCE, DIAGNOSE, REMEDIATE) come between CONTAIN and RECOVER.
NamedPhases == <<"DECLARE", "CONTAIN", "RECOVER", "VERIFY", "CLOSE", "POST_INCIDENT_REVIEW">>

ASSUME PhasesAssumption ==
  LET n == Len(Phases) IN
  /\ Phases \in Seq(STRING) /\ n >= 6 /\ IsInjective(Phases)
  /\ SubSeq(Phases, 1, 2) = SubSeq(NamedPhases, 1, 2)
  /\ SubSeq(Phases, n - 3, n) = SubSeq(NamedPhases, 3, 6)

ASSUME LimitsAssumption ==
  /\ MaxTransfers \in Nat /\ MaxEvidence \in Nat \ {0}
  /\ MaxRevision \in [Incidents -> Nat] /\ MaxLag \in Nat

ASSUME ReportsAssumption ==
  /\ Reports \subseteq
       [ class : Classes \cup {None}, fact : Facts \cup {NoFact}, severity : Severities,
         commander : Commanders, evidence : SUBSET EvidenceRefs ]
  /\ Reported \subseteq Incidents /\ IsFiniteSet(Reported) /\ IsFiniteSet(EvidenceRefs)

ASSUME IdsAssumption ==
  /\ Services \cap SharedOps = {}
  /\ None \notin Services \cup SharedOps \cup Incidents \cup Classes

VARIABLES
  incidents,  \* #incidents: the current record of each incident
  ops,        \* #operations: the entries of each id, in their order
  calls       \* the operation a service instance is executing

incidentVars == <<incidents, ops, calls>>

Ops == SharedOps \cup Services
NoRevision == -1   \* expectedRevision null

PhaseIndex == [p \in ToSet(Phases) |-> CHOOSE k \in DOMAIN Phases : Phases[k] = p]

NoIncident ==
  [ status |-> "ABSENT", revision |-> 0, class |-> None, severity |-> "SEV-3",
    phase |-> "DECLARE", recovery |-> "NONE", acknowledged |-> FALSE, commander |-> None,
    transfers |-> <<>>, evidence |-> {}, risk |-> FALSE ]

NoCall ==
  [ pc |-> "idle", op |-> None, incident |-> None, expected |-> NoRevision,
    record |-> NoIncident, wrote |-> FALSE ]

At(s, pc) == calls[s].pc = pc
Goto(s, pc) == calls' = [calls EXCEPT ![s].pc = pc]

-----------------------------------------------------------------------------
(* The contract: validateIncidentV1, as far as a service can make a record  *)
(* that violates it.  Timestamps are left out but for acknowledged_at: the  *)
(* contract refuses those of a clock that is behind, which is one more way  *)
(* to be refused, and the others are set with the status.                   *)

\* Mutant of Valid: the number of transfers is not limited.
ValidUnlimited(r) == r.status = "OPEN" => PhaseIndex[r.phase] <= PhaseIndex["VERIFY"]

Valid(r) ==
  /\ Len(r.transfers) <= MaxTransfers
  /\ r.status = "OPEN" => PhaseIndex[r.phase] <= PhaseIndex["VERIFY"]

\* normalizeEnvironmentalFact: the first group of keywords that matches.
NormalizedClass(fact) ==
  CASE "POWER" \in fact -> "POWER"
    [] "POWER" \notin fact /\ "THERMAL" \in fact -> "THERMAL"
    [] OTHER -> "INFRASTRUCTURE"

ReportedClass(report) ==
  IF report.fact = NoFact THEN report.class ELSE NormalizedClass(report.fact)

Reportable(report) ==
  /\ report.fact # {}
  /\ report.fact = NoFact => report.class # None
  /\ report.class \in {None, ReportedClass(report)}

-----------------------------------------------------------------------------
(* The store.                                                               *)

Logged(op, i) == \E k \in DOMAIN ops[op] : ops[op][k].incident = i

LoggedRecord(op, i) ==
  LET k == CHOOSE k \in DOMAIN ops[op] : ops[op][k].incident = i IN ops[op][k].record

\* Mutant of RevisionMatches: the store only compares the record with what
\* the caller expects, not with what it holds.
RevisionUnchecked(i, expected, r) ==
  IF expected = NoRevision
  THEN r.revision = 1
  ELSE r.revision = expected + 1

RevisionMatches(i, expected, r) ==
  IF expected = NoRevision
  THEN incidents[i] = NoIncident /\ r.revision = 1
  ELSE /\ incidents[i] # NoIncident
       /\ incidents[i].revision = expected
       /\ r.revision = expected + 1

\* What put answers.
PutAnswer(op, i, expected, r) ==
  CASE Logged(op, i) /\ LoggedRecord(op, i) = r -> "OP_REPLAY"
    [] Logged(op, i) /\ LoggedRecord(op, i) # r -> "OP_CONFLICT"
    [] ~Logged(op, i) /\ RevisionMatches(i, expected, r) -> "WRITTEN"
    [] OTHER -> "STALE"   \* STALE_REVISION, ALREADY_EXISTS

\* The bound MaxLag; a stale record is refused however old it is.
LagBounded(i, r) ==
  \A s \in Services :
    calls[s].incident = i /\ calls[s].record.revision > 1 =>
      r.revision <= calls[s].record.revision + MaxLag

PutWrites(op, i, r) ==
  /\ LagBounded(i, r)
  /\ incidents' = [incidents EXCEPT ![i] = r]
  /\ ops' = [ops EXCEPT ![op] = Append(@, [incident |-> i, record |-> r])]

\* readOperation: the first entry of the operation id, of whatever incident;
\* #commit then compares the incident.
\* Mutant of ReadsBack: the incident is not compared.
ReadsBackAny(op, i) == ops[op] # <<>>

ReadsBack(op, i) == ops[op] # <<>> /\ Head(ops[op]).incident = i

-----------------------------------------------------------------------------
(* #commit.                                                                 *)

Commit(s, op, i, expected, r) ==
  /\ Valid(r)
  /\ r.revision <= MaxRevision[i]
  /\ calls' = [calls EXCEPT ![s] =
       [ NoCall EXCEPT !.pc = "attempt", !.op = op, !.incident = i,
                       !.expected = expected, !.record = r ]]

\* The answer of the call.
Answered(c, answer) ==
  [c EXCEPT !.pc = answer, !.record = NoIncident, !.expected = NoRevision]

\* One put of the call; the store may answer AMBIGUOUS whatever it did.
PutIn(s, ambiguous) ==
  LET c == calls[s]
      answer == PutAnswer(c.op, c.incident, c.expected, c.record)
  IN
  \/ /\ answer = "WRITTEN"
     /\ PutWrites(c.op, c.incident, c.record)
     /\ \/ calls' = [calls EXCEPT ![s] = Answered([c EXCEPT !.wrote = TRUE], "recorded")]
        \/ calls' = [calls EXCEPT ![s] = [c EXCEPT !.wrote = TRUE, !.pc = ambiguous]]
  \/ /\ answer = "OP_REPLAY"
     /\ calls' = [calls EXCEPT ![s] = Answered(c, "recorded")]
     /\ UNCHANGED <<incidents, ops>>
  \/ /\ answer \in {"OP_CONFLICT", "STALE"}
     /\ calls' = [calls EXCEPT ![s] = Answered(c, "refused")]
     /\ UNCHANGED <<incidents, ops>>
  \/ /\ Goto(s, ambiguous)
     /\ UNCHANGED <<incidents, ops>>

Attempt(s) == At(s, "attempt") /\ PutIn(s, "readback")

\* The first read-back of an ambiguous put; on to the revision if it finds nothing.
ReadBack(s) ==
  LET c == calls[s] IN
  /\ At(s, "readback")
  /\ calls' = [calls EXCEPT ![s] =
       IF ReadsBack(c.op, c.incident)
       THEN Answered(c, "recorded")
       ELSE [c EXCEPT !.pc = "recheck"]]
  /\ UNCHANGED <<incidents, ops>>

\* revisionUnchanged: only then the same operation is tried again.
Recheck(s) ==
  LET c == calls[s]
      unchanged == IF c.expected = NoRevision
                   THEN incidents[c.incident] = NoIncident
                   ELSE incidents[c.incident].revision = c.expected
  IN
  /\ At(s, "recheck")
  /\ calls' = [calls EXCEPT ![s] =
       IF unchanged THEN [c EXCEPT !.pc = "retry"] ELSE Answered(c, "unknown")]
  /\ UNCHANGED <<incidents, ops>>

Retry(s) == At(s, "retry") /\ PutIn(s, "reread")

Reread(s) ==
  LET c == calls[s] IN
  /\ At(s, "reread")
  /\ calls' = [calls EXCEPT ![s] =
       IF ReadsBack(c.op, c.incident)
       THEN Answered(c, "recorded")
       ELSE Answered(c, "unknown")]
  /\ UNCHANGED <<incidents, ops>>

\* The caller has its answer; a fresh operation id is never used again.
Return(s) ==
  /\ calls[s].pc \in {"recorded", "refused", "unknown"}
  /\ calls' = [calls EXCEPT ![s] = NoCall]
  /\ ops' = [ops EXCEPT ![s] = <<>>]
  /\ UNCHANGED incidents

-----------------------------------------------------------------------------
(* The operations: from the current record to the record to commit.         *)

\* The revision a caller passes: the current one, or none; any other one is
\* refused in the same way as none.
Expected(current) == {NoRevision, current.revision}

CommitNext(s, i, next) ==
  \E op \in SharedOps \cup {s}, expected \in Expected(incidents[i]) :
    Commit(s, op, i, expected, [next EXCEPT !.revision = incidents[i].revision + 1])

\* boundedRefArray, and the union with the evidence there is, cut at the limit.
WithEvidence(r, refs) ==
  LET all == r.evidence \cup refs
      size == IF Cardinality(all) < MaxEvidence THEN Cardinality(all) ELSE MaxEvidence
  IN {[r EXCEPT !.evidence = kept] :
        kept \in {k \in SUBSET all : r.evidence \subseteq k /\ Cardinality(k) = size}}

Created(report) ==
  { [ first EXCEPT
        !.status = "OPEN", !.revision = 1, !.class = ReportedClass(report),
        !.severity = report.severity, !.commander = report.commander ] :
      first \in WithEvidence(NoIncident, report.evidence) }

CreateIncident(s, i) ==
  /\ \E report \in Reports, op \in SharedOps \cup {s} :
       /\ Reportable(report)
       /\ \E first \in Created(report) : Commit(s, op, i, NoRevision, first)
  /\ UNCHANGED <<incidents, ops>>

AcknowledgeIncident(s, i) ==
  /\ incidents[i].status = "OPEN"
  /\ ~incidents[i].acknowledged
  /\ CommitNext(s, i, [incidents[i] EXCEPT !.acknowledged = TRUE])
  /\ UNCHANGED <<incidents, ops>>

RecoveryState(current, phase) ==
  CASE phase = "CONTAIN" -> "CONTAINED"
    [] phase = "RECOVER" -> "RECOVERING"
    [] phase = "VERIFY"  -> "RECOVERED"
    [] OTHER             -> current.recovery

\* Mutant of NextPhase: any later phase will do.
LaterPhase(current, phase) == PhaseIndex[phase] > PhaseIndex[current.phase]

NextPhase(current, phase) == PhaseIndex[phase] = PhaseIndex[current.phase] + 1

AdvancePhase(s, i) ==
  /\ incidents[i].status = "OPEN"
  /\ \E phase \in DOMAIN PhaseIndex :
       /\ NextPhase(incidents[i], phase)
       /\ CommitNext(s, i,
            [incidents[i] EXCEPT !.phase = phase,
                                 !.recovery = RecoveryState(incidents[i], phase)])
  /\ UNCHANGED <<incidents, ops>>

TransferCommand(s, i) ==
  /\ incidents[i].status = "OPEN"
  /\ \E new \in Commanders \ {incidents[i].commander} :
       CommitNext(s, i,
         [ incidents[i] EXCEPT
             !.commander = new,
             !.transfers = Append(@, [prior |-> incidents[i].commander, new |-> new]) ])
  /\ UNCHANGED <<incidents, ops>>

ResolveIncident(s, i) ==
  /\ incidents[i].status = "OPEN"
  /\ incidents[i].phase = "VERIFY" /\ incidents[i].recovery = "RECOVERED"
  /\ \E refs \in (SUBSET EvidenceRefs) \ {{}} :
       \E next \in WithEvidence(incidents[i], refs) :
         CommitNext(s, i, [next EXCEPT !.status = "RESOLVED"])
  /\ UNCHANGED <<incidents, ops>>

CloseIncident(s, i) ==
  /\ incidents[i].status = "RESOLVED" /\ incidents[i].phase = "VERIFY"
  /\ \E refs \in (SUBSET EvidenceRefs) \ {{}} :
       \E next \in WithEvidence(incidents[i], refs) :
         CommitNext(s, i, [next EXCEPT !.status = "CLOSED", !.phase = "CLOSE", !.risk = TRUE])
  /\ UNCHANGED <<incidents, ops>>

PostIncidentReview(s, i) ==
  /\ incidents[i].status = "CLOSED" /\ incidents[i].phase = "CLOSE"
  /\ \E refs \in (SUBSET EvidenceRefs) \ {{}} :
       \E next \in WithEvidence(incidents[i], refs) :
         CommitNext(s, i, [next EXCEPT !.phase = "POST_INCIDENT_REVIEW"])
  /\ UNCHANGED <<incidents, ops>>

Operation(s, i) ==
  \/ CreateIncident(s, i) \/ AcknowledgeIncident(s, i) \/ AdvancePhase(s, i)
  \/ TransferCommand(s, i) \/ ResolveIncident(s, i) \/ CloseIncident(s, i)
  \/ PostIncidentReview(s, i)

-----------------------------------------------------------------------------
IncidentInit ==
  /\ \E report \in Reports, op \in SharedOps :
       /\ Reportable(report)
       /\ \E first \in Created(report), order \in SetToSeqs(Reported) :
            /\ incidents = [i \in Incidents |-> IF i \in Reported THEN first ELSE NoIncident]
            /\ ops = [ o \in Ops |-> IF o = op
                        THEN [k \in DOMAIN order |-> [incident |-> order[k], record |-> first]]
                        ELSE <<>> ]
  /\ calls = [s \in Services |-> NoCall]

IncidentNext ==
  \E s \in Services :
    \/ At(s, "idle") /\ \E i \in Incidents : Operation(s, i)
    \/ Attempt(s) \/ ReadBack(s) \/ Recheck(s) \/ Retry(s) \/ Reread(s) \/ Return(s)

IncidentSpec == IncidentInit /\ [][IncidentNext]_incidentVars

-----------------------------------------------------------------------------
(* Properties.                                                              *)

Transfer == [prior : Commanders, new : Commanders]

Record ==
  [ status : {"ABSENT", "OPEN", "RESOLVED", "CLOSED"}, revision : Nat,
    class : Classes \cup {None}, severity : Severities, phase : DOMAIN PhaseIndex,
    recovery : {"NONE", "CONTAINED", "RECOVERING", "RECOVERED"},
    acknowledged : BOOLEAN, commander : Commanders \cup {None},
    transfers : Seq(Transfer), evidence : SUBSET EvidenceRefs, risk : BOOLEAN ]

\* What stands for nothing is neither a record nor a key of OperationLog.
ASSUME NoneAssumption == None \notin Record /\ None \notin Ops \X Incidents

Points ==
  {"idle", "attempt", "readback", "recheck", "retry", "reread", "recorded", "refused", "unknown"}

\* The state is well formed, and the lists of a record keep to their limits.
IncidentTypeOK ==
  /\ incidents \in [Incidents -> Record]
  /\ ops \in [Ops -> Seq([incident : Incidents, record : Record])]
  /\ calls \in [Services ->
       [ pc : Points, op : Ops \cup {None}, incident : Incidents \cup {None},
         expected : Nat \cup {NoRevision}, record : Record, wrote : BOOLEAN ]]
  /\ \A i \in Incidents :
       /\ Len(incidents[i].transfers) <= MaxTransfers
       /\ Cardinality(incidents[i].evidence) <= MaxEvidence

\* closeIncident: whatever stale requests, repeated ids and ambiguous writes
\* came before, an incident that is no longer OPEN went all the way to VERIFY,
\* was recovered, has evidence, and its chain of command has no gap and ends
\* at the commander.
ClosedWasRecovered ==
  \A i \in Incidents : LET r == incidents[i] IN
    /\ r.status \in {"RESOLVED", "CLOSED"} =>
         /\ PhaseIndex[r.phase] >= PhaseIndex["VERIFY"] /\ r.recovery = "RECOVERED"
         /\ r.evidence # {}
         \* one revision for each phase, transfer and acknowledgement, and for RESOLVED
         /\ r.revision > PhaseIndex["VERIFY"] + Len(r.transfers)
                          + (IF r.acknowledged THEN 1 ELSE 0)
    /\ \A k \in DOMAIN r.transfers :
         r.transfers[k].new =
           IF k = Len(r.transfers) THEN r.commander ELSE r.transfers[k + 1].prior

\* put under an expected revision: a record replaces the one it was made from.
\* No acknowledgement, transfer, evidence or phase that another instance
\* recorded is lost, and a closed incident is not opened again.
BuildsOnLatest ==
  [][\A i \in Incidents : LET old == incidents[i]  new == incidents'[i] IN
       new # old =>
         /\ new.revision = old.revision + 1
         /\ PhaseIndex[new.phase] \in PhaseIndex[old.phase]..(PhaseIndex[old.phase] + 1)
         /\ IsPrefix(old.transfers, new.transfers)
         /\ old.evidence \subseteq new.evidence
         /\ old.acknowledged => new.acknowledged
         /\ <<old.status, new.status>> \in
              { <<"ABSENT", "OPEN">>, <<"OPEN", "OPEN">>, <<"OPEN", "RESOLVED">>,
                <<"RESOLVED", "CLOSED">>, <<"CLOSED", "CLOSED">> }]_incidents

\* #commit keeps the promise of OperationLog, with the pair of operation and
\* incident as the key: nothing is recorded twice, a refusal is only said of what
\* was not written, and RECORDED only of the record that was asked for; but for an
\* operation id that callers share, where a read-back may find another's record of
\* the same incident (ConflictRejects).
Doubtful == {"readback", "recheck", "retry", "reread"}

Progress(pc) ==
  CASE pc = "idle" -> "none" [] pc = "attempt" -> "asked" [] pc \in Doubtful -> "doubtful"
    [] OTHER -> pc

Log == INSTANCE OperationLog WITH
  Callers   <- Services,
  Keys      <- Ops \X Incidents,
  FreshKeys <- Services \X Incidents,
  log  <- [k \in Ops \X Incidents |-> IF Logged(k[1], k[2]) THEN LoggedRecord(k[1], k[2]) ELSE None],
  call <- [s \in Services |->
             [ state |-> Progress(calls[s].pc),
               key   |-> IF At(s, "idle") THEN None ELSE <<calls[s].op, calls[s].incident>>,
               value |-> IF calls[s].pc \in {"attempt"} \cup Doubtful THEN calls[s].record ELSE None,
               wrote |-> calls[s].wrote ]]

CommitsKept == Log!LogSpec

\* The store says of put that conflicting reuse of an operation id rejects, and of
\* #commit that ambiguity never infers success: RECORDED would then be said of the
\* record that was asked for, whichever id it came under.  The code does not keep
\* this: after an AMBIGUOUS put, #commit compares what it reads back by its
\* incident only.
ConflictRejects == Log!NeverDeceived
=============================================================================
