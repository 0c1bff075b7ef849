---------------------------- MODULE IncidentProofs ----------------------------
(***************************************************************************)
(* Incidents, for any number of service instances, incidents, operation ids *)
(* and phases: whatever calls interleave and however ambiguous the store's  *)
(* answers are, an incident goes through its life one lawful step at a      *)
(* time, and the store's log keeps the promise of OperationLog.             *)
(*                                                                          *)
(* The argument.  A call in progress holds the record it made.  If the      *)
(* incident is still at the revision before it, then it is the record that  *)
(* the new one was made from (MadeFromLatest): the revision alone tells the *)
(* store whether a write loses one.  A call that wrote finds its own entry  *)
(* in the log whenever it looks (Written), so it is never told that it was  *)
(* refused.  What a fresh id has is what its own call asked for             *)
(* (OwnEntries), so a call in doubt is not deceived by what it finds there. *)
(***************************************************************************)
EXTENDS Incident, FiniteSetTheorems, SequenceTheorems, TLAPS

-----------------------------------------------------------------------------
(* The invariant.                                                           *)

\* How many revisions the phases, the transfers and the acknowledgement of a
\* record took.
Moves(r) ==
  PhaseIndex[r.phase] + Len(r.transfers) + (IF r.acknowledged THEN 1 ELSE 0)

\* The chain of command has no gap and ends at the commander.
Chained(r) ==
  \A k \in DOMAIN r.transfers :
    r.transfers[k].new =
      IF k = Len(r.transfers) THEN r.commander ELSE r.transfers[k + 1].prior

\* What is true of every record that an instance makes or the store holds.
Lawful(r) ==
  /\ r \in Record
  /\ Len(r.transfers) <= MaxTransfers /\ Cardinality(r.evidence) <= MaxEvidence
  /\ IF r.status = "ABSENT" THEN r = NoIncident
     ELSE r.revision > 0 /\ r.commander \in Commanders
  /\ r.status = "OPEN" =>
       r.revision = Moves(r) /\ PhaseIndex[r.phase] <= PhaseIndex["VERIFY"]
  /\ r.status \in {"RESOLVED", "CLOSED"} =>
       r.revision = Moves(r) + 1 /\ r.recovery = "RECOVERED" /\ r.evidence # {}
  /\ r.status = "RESOLVED" => r.phase = "VERIFY"
  /\ r.status = "CLOSED" => r.phase \in {"CLOSE", "POST_INCIDENT_REVIEW"}
  /\ Chained(r)

\* What BuildsOnLatest asks of a change.
BuildsOn(old, new) ==
  /\ new.revision = old.revision + 1
  /\ PhaseIndex[new.phase] \in PhaseIndex[old.phase]..(PhaseIndex[old.phase] + 1)
  /\ IsPrefix(old.transfers, new.transfers)
  /\ old.evidence \subseteq new.evidence
  /\ old.acknowledged => new.acknowledged
  /\ <<old.status, new.status>> \in
       { <<"ABSENT", "OPEN">>, <<"OPEN", "OPEN">>, <<"OPEN", "RESOLVED">>,
         <<"RESOLVED", "CLOSED">>, <<"CLOSED", "CLOSED">> }

Pending == {"attempt"} \cup Doubtful

\* A call is for an incident, under an id that is shared or its own.
Called(s) ==
  IF At(s, "idle") THEN calls[s] = NoCall
  ELSE calls[s].op \in SharedOps \cup {s} /\ calls[s].incident \in Incidents

\* The record of a call in progress is not ahead of the incident by more than
\* one revision, and then it was made from the incident as it is.
MadeFrom(s) ==
  LET new == calls[s].record  old == incidents[calls[s].incident] IN
  /\ Lawful(new) /\ new.status # "ABSENT"
  /\ new.revision <= old.revision + 1
  /\ new.revision = old.revision + 1 => BuildsOn(old, new)

MadeFromLatest ==
  \A s \in Services : calls[s].pc \in Pending => MadeFrom(s)

\* What a call in progress wrote is in the log.
HasEntry(t, i, r) == \E k \in DOMAIN t : t[k].incident = i /\ t[k].record = r

Written ==
  \A s \in Services : calls[s].pc \in Pending /\ calls[s].wrote =>
    HasEntry(ops[calls[s].op], calls[s].incident, calls[s].record)

\* An id has at most one entry for an incident, and a fresh id is used by its
\* call only.
LogInv ==
  /\ \A op \in Ops : \A k, l \in DOMAIN ops[op] :
       ops[op][k].incident = ops[op][l].incident => k = l
  /\ \A s \in Services : \A k \in DOMAIN ops[s] :
       calls[s].op = s /\ calls[s].incident = ops[s][k].incident

\* What a fresh id has is what its call asked for.
OwnEntries ==
  \A s \in Services : calls[s].pc \in Pending =>
    \A k \in DOMAIN ops[s] : ops[s][k].record = calls[s].record

CallRecord ==
  [ pc : Points, op : Ops \cup {None}, incident : Incidents \cup {None},
    expected : Nat \cup {NoRevision}, record : Record, wrote : BOOLEAN ]

Entry == [incident : Incidents, record : Record]

IncidentInv ==
  /\ incidents \in [Incidents -> Record]
  /\ ops \in [Ops -> Seq(Entry)]
  /\ calls \in [Services -> CallRecord]
  /\ \A i \in Incidents : Lawful(incidents[i])
  /\ \A s \in Services : Called(s)
  /\ MadeFromLatest
  /\ Written
  /\ LogInv
  /\ OwnEntries

-----------------------------------------------------------------------------
(* The phases: DECLARE first, CONTAIN second, VERIFY the last that is open. *)

LEMMA IndexOfPhase ==
  ASSUME NEW k \in DOMAIN Phases
  PROVE  Phases[k] \in DOMAIN PhaseIndex /\ PhaseIndex[Phases[k]] = k
<1>1. Phases[k] \in ToSet(Phases)
  BY DEF ToSet
<1>2. \A l \in DOMAIN Phases : Phases[l] = Phases[k] => l = k
  BY PhasesAssumption DEF IsInjective
<1>. QED
  BY <1>1, <1>2 DEF PhaseIndex

LEMMA IndexesArePlaces ==
  \A p \in DOMAIN PhaseIndex :
    PhaseIndex[p] \in 1..Len(Phases) /\ Phases[PhaseIndex[p]] = p
<1> SUFFICES ASSUME NEW p \in DOMAIN PhaseIndex
             PROVE  PhaseIndex[p] \in 1..Len(Phases) /\ Phases[PhaseIndex[p]] = p
  OBVIOUS
<1>1. DOMAIN Phases = 1..Len(Phases)
  BY PhasesAssumption
<1>2. PICK k \in DOMAIN Phases : p = Phases[k]
  BY DEF PhaseIndex, ToSet
<1>. QED
  BY <1>1, <1>2, IndexOfPhase

LEMMA PhasePlaces ==
  /\ Len(Phases) \in Nat /\ Len(Phases) >= 6
  /\ {"DECLARE", "CONTAIN", "RECOVER", "VERIFY", "CLOSE", "POST_INCIDENT_REVIEW"}
       \subseteq DOMAIN PhaseIndex
  /\ PhaseIndex["DECLARE"] = 1
  /\ PhaseIndex["VERIFY"] = Len(Phases) - 2
  /\ PhaseIndex["CLOSE"] = Len(Phases) - 1
  /\ PhaseIndex["POST_INCIDENT_REVIEW"] = Len(Phases)
<1> DEFINE n == Len(Phases)
<1>1. n \in Nat /\ n >= 6 /\ DOMAIN Phases = 1..n /\ \A k \in 1..n : Phases[k] \in STRING
  BY PhasesAssumption
<1>2. /\ Phases[1] = SubSeq(NamedPhases, 1, 2)[1]
      /\ Phases[2] = SubSeq(NamedPhases, 1, 2)[2]
  BY <1>1, PhasesAssumption, SubSeqProperties
<1>3. Phases[1] = "DECLARE" /\ Phases[2] = "CONTAIN"
  BY <1>2 DEF NamedPhases
<1>4. \A k \in 1..4 : Phases[n - 4 + k] = SubSeq(NamedPhases, 3, 6)[k]
  <2>1. \A k \in 1..4 : SubSeq(Phases, n - 3, n)[k] = Phases[n - 3 + k - 1]
    BY <1>1, SubSeqProperties
  <2>2. SubSeq(Phases, n - 3, n) = SubSeq(NamedPhases, 3, 6)
    BY PhasesAssumption
  <2>3. \A k \in 1..4 : n - 3 + k - 1 = n - 4 + k
    BY <1>1
  <2>. QED
    BY <2>1, <2>2, <2>3
<1>5. /\ SubSeq(NamedPhases, 3, 6)[1] = "RECOVER"
      /\ SubSeq(NamedPhases, 3, 6)[2] = "VERIFY"
      /\ SubSeq(NamedPhases, 3, 6)[3] = "CLOSE"
      /\ SubSeq(NamedPhases, 3, 6)[4] = "POST_INCIDENT_REVIEW"
  BY DEF NamedPhases
<1>6. /\ Phases[n - 3] = "RECOVER" /\ Phases[n - 2] = "VERIFY"
      /\ Phases[n - 1] = "CLOSE" /\ Phases[n] = "POST_INCIDENT_REVIEW"
  <2>1. /\ Phases[n - 4 + 1] = "RECOVER" /\ Phases[n - 4 + 2] = "VERIFY"
        /\ Phases[n - 4 + 3] = "CLOSE" /\ Phases[n - 4 + 4] = "POST_INCIDENT_REVIEW"
    BY <1>4, <1>5
  <2>2. n - 4 + 1 = n - 3 /\ n - 4 + 2 = n - 2 /\ n - 4 + 3 = n - 1 /\ n - 4 + 4 = n
    BY <1>1
  <2>. QED
    BY <2>1, <2>2
<1>7. {1, 2, n - 3, n - 2, n - 1, n} \subseteq DOMAIN Phases
  BY <1>1
<1> HIDE DEF n
<1>8. \A k \in {1, 2, n - 3, n - 2, n - 1, n} :
        Phases[k] \in DOMAIN PhaseIndex /\ PhaseIndex[Phases[k]] = k
  BY <1>7, IndexOfPhase
<1>. QED
  BY <1>1, <1>3, <1>6, <1>8 DEF n

-----------------------------------------------------------------------------
(* Evidence, cut at the limit.                                              *)

LEMMA EvidenceKept ==
  ASSUME NEW r \in Record, Cardinality(r.evidence) <= MaxEvidence,
         NEW refs \in SUBSET EvidenceRefs, NEW next \in WithEvidence(r, refs)
  PROVE  /\ next = [r EXCEPT !.evidence = next.evidence]
         /\ next \in Record
         /\ r.evidence \subseteq next.evidence
         /\ Cardinality(next.evidence) <= MaxEvidence
         /\ refs # {} => next.evidence # {}
<1> DEFINE all == r.evidence \cup refs
           size == IF Cardinality(all) < MaxEvidence THEN Cardinality(all) ELSE MaxEvidence
<1>1. all \in SUBSET EvidenceRefs
  BY DEF Record
<1>2. IsFiniteSet(all) /\ Cardinality(all) \in Nat
  BY <1>1, ReportsAssumption, FS_Subset, FS_CardinalityType
<1>3. PICK kept \in SUBSET all :
        /\ r.evidence \subseteq kept /\ Cardinality(kept) = size
        /\ next = [r EXCEPT !.evidence = kept]
  BY DEF WithEvidence
<1>4. next.evidence = kept /\ next \in Record
  BY <1>1, <1>3 DEF Record
<1>5. Cardinality(kept) <= MaxEvidence
  BY <1>2, <1>3, LimitsAssumption
<1>6. refs # {} => kept # {}
  <2>1. refs # {} => Cardinality(all) # 0
    BY <1>2, FS_EmptySet
  <2>2. kept = {} => Cardinality(kept) = 0
    BY FS_EmptySet
  <2>. QED
    BY <1>2, <1>3, <2>1, <2>2, LimitsAssumption
<1>. QED
  BY <1>3, <1>4, <1>5, <1>6

-----------------------------------------------------------------------------
(* What each operation makes of a lawful record.                            *)

LEMMA PrefixOfItself == ASSUME NEW S, NEW t \in Seq(S) PROVE IsPrefix(t, t)
  BY DEF IsPrefix

LEMMA PrefixOfLonger ==
  ASSUME NEW S, NEW t \in Seq(S), NEW x \in S PROVE IsPrefix(t, Append(t, x))
  BY DEF IsPrefix

LEMMA NoIncidentIsLawful == Lawful(NoIncident)
  BY PhasePlaces, LimitsAssumption, FS_EmptySet
  DEF Lawful, NoIncident, Record, Transfer, Severities, Moves, Chained

LEMMA FirstIsLawful ==
  ASSUME NEW report \in Reports, Reportable(report), NEW first \in Created(report)
  PROVE  Lawful(first) /\ first.status = "OPEN" /\ first.revision = 1
         /\ BuildsOn(NoIncident, first)
<1>1. PICK kept \in WithEvidence(NoIncident, report.evidence) :
        first = [ kept EXCEPT !.status = "OPEN", !.revision = 1,
                    !.class = ReportedClass(report), !.severity = report.severity,
                    !.commander = report.commander ]
  BY DEF Created
<1>2. NoIncident \in Record /\ Cardinality(NoIncident.evidence) <= MaxEvidence
  BY NoIncidentIsLawful DEF Lawful
<1>3. report.evidence \in SUBSET EvidenceRefs /\ report.commander \in Commanders
      /\ report.severity \in Severities /\ ReportedClass(report) \in Classes \cup {None}
  BY ReportsAssumption DEF ReportedClass, NormalizedClass, Classes
<1>4. /\ kept = [NoIncident EXCEPT !.evidence = kept.evidence]
      /\ kept \in Record
      /\ Cardinality(kept.evidence) <= MaxEvidence
  BY <1>1, <1>2, <1>3, EvidenceKept
<1>5. /\ kept.phase = "DECLARE" /\ kept.transfers = <<>> /\ ~kept.acknowledged
      /\ kept.evidence \in SUBSET EvidenceRefs
  BY <1>4 DEF NoIncident, Record
<1>6. /\ first \in Record /\ first.status = "OPEN" /\ first.revision = 1
      /\ first.phase = "DECLARE" /\ first.transfers = <<>> /\ ~first.acknowledged
      /\ first.evidence = kept.evidence /\ first.commander \in Commanders
  BY <1>1, <1>3, <1>4, <1>5 DEF Record
<1>7. Lawful(first)
  BY <1>4, <1>6, PhasePlaces, LimitsAssumption DEF Lawful, Moves, Chained
<1>8. BuildsOn(NoIncident, first)
  <2>1. IsPrefix(NoIncident.transfers, first.transfers)
    BY <1>6 DEF IsPrefix, NoIncident
  <2>2. PhaseIndex["DECLARE"] \in PhaseIndex["DECLARE"]..(PhaseIndex["DECLARE"] + 1)
    BY PhasePlaces
  <2>. QED
    BY <1>6, <2>1, <2>2 DEF BuildsOn, NoIncident
<1>. QED
  BY <1>6, <1>7, <1>8

HasFields(r) ==
  r = [ status |-> r.status, revision |-> r.revision, class |-> r.class,
        severity |-> r.severity, phase |-> r.phase, recovery |-> r.recovery,
        acknowledged |-> r.acknowledged, commander |-> r.commander,
        transfers |-> r.transfers, evidence |-> r.evidence, risk |-> r.risk ]

FieldsInRange(r) ==
  /\ r.status \in {"ABSENT", "OPEN", "RESOLVED", "CLOSED"} /\ r.revision \in Nat
  /\ r.class \in Classes \cup {None} /\ r.severity \in Severities
  /\ r.phase \in DOMAIN PhaseIndex
  /\ r.recovery \in {"NONE", "CONTAINED", "RECOVERING", "RECOVERED"}
  /\ r.acknowledged \in BOOLEAN /\ r.commander \in Commanders \cup {None}
  /\ r.transfers \in Seq(Transfer) /\ r.evidence \in SUBSET EvidenceRefs
  /\ r.risk \in BOOLEAN

LEMMA RecordByFields ==
  \A r : r \in Record <=> HasFields(r) /\ FieldsInRange(r)
<1> SUFFICES ASSUME NEW r PROVE r \in Record <=> HasFields(r) /\ FieldsInRange(r)
  OBVIOUS
<1>1. r \in Record => HasFields(r) /\ FieldsInRange(r)
  BY DEF Record, HasFields, FieldsInRange
<1>2. ASSUME HasFields(r), FieldsInRange(r) PROVE r \in Record
  <2> DEFINE q == [ status |-> r.status, revision |-> r.revision, class |-> r.class,
                    severity |-> r.severity, phase |-> r.phase, recovery |-> r.recovery,
                    acknowledged |-> r.acknowledged, commander |-> r.commander,
                    transfers |-> r.transfers, evidence |-> r.evidence, risk |-> r.risk ]
  <2>1. q \in Record
    BY <1>2 DEF Record, FieldsInRange
  <2>. QED
    BY <1>2, <2>1 DEF HasFields
<1>. QED
  BY <1>1, <1>2

LEMMA AcknowledgementIsLawful ==
  ASSUME NEW old, Lawful(old), old.status = "OPEN", ~old.acknowledged,
         NEW new, new = [old EXCEPT !.acknowledged = TRUE, !.revision = old.revision + 1]
  PROVE  Lawful(new) /\ new.status = "OPEN" /\ BuildsOn(old, new)
<1>1. /\ old \in Record /\ PhaseIndex[old.phase] \in Nat /\ Len(old.transfers) \in Nat
      /\ old.revision \in Nat
  BY IndexesArePlaces, LenProperties DEF Lawful, Record
<1>2. new \in Record
  <2>1. HasFields(new)
    BY <1>1 DEF HasFields, Record
  <2>2. FieldsInRange(new)
    BY <1>1 DEF FieldsInRange, Record
  <2>. QED
    BY <2>1, <2>2, RecordByFields
<1>3. Lawful(new)
  BY <1>1, <1>2 DEF Lawful, Moves, Chained, Record
<1>4. BuildsOn(old, new)
  BY <1>1, PrefixOfItself DEF BuildsOn, Record
<1>. QED
  BY <1>1, <1>3, <1>4 DEF Record

LEMMA AdvanceIsLawful ==
  ASSUME NEW old, Lawful(old), old.status = "OPEN",
         NEW phase \in DOMAIN PhaseIndex, PhaseIndex[phase] = PhaseIndex[old.phase] + 1,
         PhaseIndex[phase] <= PhaseIndex["VERIFY"],
         NEW new, new = [old EXCEPT !.phase = phase, !.recovery = RecoveryState(old, phase),
                                    !.revision = old.revision + 1]
  PROVE  Lawful(new) /\ new.status = "OPEN" /\ BuildsOn(old, new)
<1>1. /\ old \in Record /\ PhaseIndex[old.phase] \in Nat /\ Len(old.transfers) \in Nat
      /\ old.revision \in Nat
  BY IndexesArePlaces, LenProperties DEF Lawful, Record
<1>2. new \in Record
  <2>1. HasFields(new)
    BY <1>1 DEF HasFields, Record
  <2>2. FieldsInRange(new)
    BY <1>1 DEF FieldsInRange, Record, RecoveryState
  <2>. QED
    BY <2>1, <2>2, RecordByFields
<1>3. /\ new.status = "OPEN" /\ new.phase = phase /\ new.revision = old.revision + 1
      /\ new.transfers = old.transfers /\ new.acknowledged = old.acknowledged
      /\ new.evidence = old.evidence /\ new.commander = old.commander
  BY <1>1 DEF Record
<1>4. Lawful(new)
  <2>1. Moves(new) = Moves(old) + 1 /\ Moves(old) \in Nat
    <3> DEFINE acks(r) == IF r.acknowledged THEN 1 ELSE 0
    <3>1. acks(new) = acks(old) /\ acks(old) \in Nat
      BY <1>3
    <3> HIDE DEF acks
    <3>2. /\ Moves(new) = PhaseIndex[new.phase] + Len(new.transfers) + acks(new)
          /\ Moves(old) = PhaseIndex[old.phase] + Len(old.transfers) + acks(old)
      BY DEF Moves, acks
    <3>. QED
      BY <1>1, <1>3, <3>1, <3>2
  <2>2. Chained(new)
    BY <1>3 DEF Lawful, Chained
  <2>. QED
    BY <1>1, <1>2, <1>3, <2>1, <2>2 DEF Lawful
<1>5. BuildsOn(old, new)
  BY <1>1, <1>3, PrefixOfItself DEF BuildsOn, Record
<1>. QED
  BY <1>3, <1>4, <1>5

LEMMA TransferIsLawful ==
  ASSUME NEW old, Lawful(old), old.status = "OPEN", NEW c \in Commanders,
         Len(old.transfers) < MaxTransfers,
         NEW new,
         new = [ old EXCEPT !.commander = c,
                            !.transfers = Append(@, [prior |-> old.commander, new |-> c]),
                            !.revision = old.revision + 1 ]
  PROVE  Lawful(new) /\ new.status = "OPEN" /\ BuildsOn(old, new)
<1> DEFINE transfer == [prior |-> old.commander, new |-> c]
<1>1. /\ old \in Record /\ PhaseIndex[old.phase] \in Nat /\ Len(old.transfers) \in Nat
      /\ old.revision \in Nat /\ old.transfers \in Seq(Transfer)
  BY IndexesArePlaces, LenProperties DEF Lawful, Record
<1>2. transfer \in Transfer /\ transfer.prior = old.commander /\ transfer.new = c
  BY DEF Lawful, Transfer
<1>3. new = [old EXCEPT !.commander = c, !.transfers = Append(old.transfers, transfer),
                        !.revision = old.revision + 1]
  OBVIOUS
<1> HIDE DEF transfer
<1>4. /\ Append(old.transfers, transfer) \in Seq(Transfer)
      /\ Len(Append(old.transfers, transfer)) = Len(old.transfers) + 1
      /\ \A k \in 1..Len(old.transfers) : Append(old.transfers, transfer)[k] = old.transfers[k]
      /\ Append(old.transfers, transfer)[Len(old.transfers) + 1] = transfer
      /\ IsPrefix(old.transfers, Append(old.transfers, transfer))
  BY <1>1, <1>2, PrefixOfLonger, AppendProperties
<1>9. new \in Record
  <2>1. HasFields(new)
    BY <1>1, <1>3 DEF HasFields, Record
  <2>2. /\ new.status = old.status /\ new.revision = old.revision + 1 /\ new.class = old.class
        /\ new.severity = old.severity /\ new.phase = old.phase /\ new.recovery = old.recovery
        /\ new.acknowledged = old.acknowledged /\ new.commander = c
        /\ new.transfers = Append(old.transfers, transfer) /\ new.evidence = old.evidence
        /\ new.risk = old.risk
    BY <1>1, <1>3 DEF Record
  <2>3. FieldsInRange(old)
    BY <1>1, RecordByFields
  <2>4. FieldsInRange(new)
    BY <1>1, <1>4, <2>2, <2>3 DEF FieldsInRange
  <2>. QED
    BY <2>1, <2>4, RecordByFields
<1>5. /\ new.status = "OPEN" /\ new.phase = old.phase
      /\ new.transfers = Append(old.transfers, transfer)
      /\ new.revision = old.revision + 1 /\ new.acknowledged = old.acknowledged
      /\ new.evidence = old.evidence /\ new.commander = c
  BY <1>1, <1>3, <1>4 DEF Record
<1>6. Chained(new)
  <2> DEFINE n == Len(old.transfers)
  <2>1. DOMAIN new.transfers = 1..(n + 1) /\ DOMAIN old.transfers = 1..n
    BY <1>1, <1>4, <1>5, LenProperties
  <2>2. \A k \in 1..n : old.transfers[k].new =
                          IF k = n THEN old.commander ELSE old.transfers[k + 1].prior
    BY <2>1 DEF Lawful, Chained
  <2>3. ASSUME NEW k \in 1..(n + 1)
        PROVE  new.transfers[k].new =
                 IF k = n + 1 THEN c ELSE new.transfers[k + 1].prior
    <3>1. CASE k = n + 1
      BY <1>2, <1>4, <1>5, <3>1
    <3>2. CASE k = n
      BY <1>1, <1>2, <1>4, <1>5, <2>2, <3>2
    <3>3. CASE k # n /\ k # n + 1
      <4>1. k \in 1..n /\ k + 1 \in 1..n
        BY <1>1, <2>3, <3>3
      <4>. QED
        BY <1>1, <1>4, <1>5, <2>2, <3>3, <4>1
    <3>. QED
      BY <3>1, <3>2, <3>3
  <2>. QED
    BY <1>4, <1>5, <2>1, <2>3 DEF Chained
<1>7. Lawful(new)
  <2>1. Moves(new) = Moves(old) + 1 /\ Moves(old) \in Nat
    <3> DEFINE acks(r) == IF r.acknowledged THEN 1 ELSE 0
    <3>1. acks(new) = acks(old) /\ acks(old) \in Nat
      BY <1>5
    <3> HIDE DEF acks
    <3>2. /\ Moves(new) = PhaseIndex[new.phase] + Len(new.transfers) + acks(new)
          /\ Moves(old) = PhaseIndex[old.phase] + Len(old.transfers) + acks(old)
      BY DEF Moves, acks
    <3>3. Len(new.transfers) = Len(old.transfers) + 1 /\ PhaseIndex[new.phase] = PhaseIndex[old.phase]
      BY <1>4, <1>5
    <3>. QED
      BY <1>1, <3>1, <3>2, <3>3
  <2>. QED
    BY <1>1, <1>4, <1>5, <1>6, <1>9, <2>1, LimitsAssumption DEF Lawful
<1>8. BuildsOn(old, new)
  BY <1>1, <1>4, <1>5 DEF BuildsOn, Record
<1>. QED
  BY <1>5, <1>7, <1>8

\* The changes that come with evidence: resolution, closure, review.
LEMMA EndIsLawful ==
  ASSUME NEW old, Lawful(old), NEW refs \in SUBSET EvidenceRefs, refs # {},
         NEW kept \in WithEvidence(old, refs),
         NEW status, NEW phase, NEW risk \in BOOLEAN,
         \/ /\ old.status = "OPEN" /\ old.phase = "VERIFY" /\ old.recovery = "RECOVERED"
            /\ status = "RESOLVED" /\ phase = "VERIFY"
         \/ /\ old.status = "RESOLVED" /\ status = "CLOSED" /\ phase = "CLOSE"
         \/ /\ old.status = "CLOSED" /\ old.phase = "CLOSE"
            /\ status = "CLOSED" /\ phase = "POST_INCIDENT_REVIEW",
         NEW new, new = [kept EXCEPT !.status = status, !.phase = phase, !.risk = risk,
                                     !.revision = old.revision + 1]
  PROVE  Lawful(new) /\ new.status # "ABSENT" /\ BuildsOn(old, new)
<1>1. /\ old \in Record /\ PhaseIndex[old.phase] \in Nat /\ Len(old.transfers) \in Nat
      /\ old.revision \in Nat /\ old.transfers \in Seq(Transfer)
  BY IndexesArePlaces, LenProperties DEF Lawful, Record
<1>2. /\ kept = [old EXCEPT !.evidence = kept.evidence]
      /\ kept \in Record /\ kept.evidence \in SUBSET EvidenceRefs
      /\ old.evidence \subseteq kept.evidence
      /\ Cardinality(kept.evidence) <= MaxEvidence
      /\ kept.evidence # {}
  <2>1. kept \in Record => kept.evidence \in SUBSET EvidenceRefs
    BY DEF Record
  <2>. QED
    BY <1>1, <2>1, EvidenceKept DEF Lawful
<1>3. /\ kept.status = old.status /\ kept.phase = old.phase /\ kept.revision = old.revision
      /\ kept.transfers = old.transfers /\ kept.acknowledged = old.acknowledged
      /\ kept.commander = old.commander /\ kept.recovery = old.recovery
  BY <1>1, <1>2 DEF Record
<1>4. {"VERIFY", "CLOSE", "POST_INCIDENT_REVIEW"} \subseteq DOMAIN PhaseIndex
  BY PhasePlaces
<1>9. new \in Record
  <2>1. HasFields(new)
    BY <1>2 DEF HasFields, Record
  <2>2. FieldsInRange(new)
    BY <1>1, <1>2, <1>4 DEF FieldsInRange, Record
  <2>. QED
    BY <2>1, <2>2, RecordByFields
<1>5. /\ new.status = status /\ new.phase = phase
      /\ new.revision = old.revision + 1 /\ new.transfers = old.transfers
      /\ new.acknowledged = old.acknowledged /\ new.evidence = kept.evidence
      /\ new.commander = old.commander /\ new.recovery = old.recovery
  BY <1>1, <1>2, <1>3, <1>4 DEF Record
<1>6. PhaseIndex[phase] = PhaseIndex[old.phase] + (IF status = "RESOLVED" THEN 0 ELSE 1)
  BY PhasePlaces DEF Lawful
<1>7. Lawful(new)
  BY SMTT(30), <1>1, <1>2, <1>5, <1>6, <1>9 DEF Lawful, Moves, Chained
<1>8. BuildsOn(old, new)
  BY <1>1, <1>2, <1>5, <1>6, PrefixOfItself DEF BuildsOn, Record, Lawful
<1>. QED
  BY <1>5, <1>7, <1>8

-----------------------------------------------------------------------------
(* Every operation commits a record that was made from the current one.     *)

Proposal(i, r) ==
  /\ Lawful(r) /\ r.status # "ABSENT"
  /\ r.revision <= incidents[i].revision + 1
  /\ r.revision = incidents[i].revision + 1 => BuildsOn(incidents[i], r)

Proposes(s, i) ==
  \E op \in SharedOps \cup {s}, expected \in Nat \cup {NoRevision}, r \in Record :
    Proposal(i, r) /\ Commit(s, op, i, expected, r)

LEMMA NextIsProposed ==
  ASSUME NEW s \in Services, NEW i \in Incidents, incidents[i] \in Record, NEW next,
         CommitNext(s, i, next),
         LET new == [next EXCEPT !.revision = incidents[i].revision + 1] IN
           Lawful(new) /\ new.status # "ABSENT" /\ BuildsOn(incidents[i], new)
  PROVE  Proposes(s, i)
<1> DEFINE new == [next EXCEPT !.revision = incidents[i].revision + 1]
<1>1. incidents[i].revision \in Nat
  BY DEF Record
<1>2. PICK op \in SharedOps \cup {s}, expected \in Expected(incidents[i]) :
        Commit(s, op, i, expected, new)
  BY DEF CommitNext
<1>3. expected \in Nat \cup {NoRevision}
  BY <1>1 DEF Expected
<1>4. Lawful(new) /\ new.status # "ABSENT" /\ BuildsOn(incidents[i], new)
  OBVIOUS
<1> HIDE DEF new
<1>5. new \in Record /\ Proposal(i, new)
  BY <1>1, <1>4 DEF Lawful, Proposal, BuildsOn
<1>. QED
  BY <1>2, <1>3, <1>5 DEF Proposes

LEMMA OperationProposes ==
  ASSUME IncidentInv, NEW s \in Services, NEW i \in Incidents, Operation(s, i)
  PROVE  Proposes(s, i) /\ UNCHANGED <<incidents, ops>>
<1> DEFINE old == incidents[i]
<1>1. Lawful(old) /\ old \in Record /\ old.revision \in Nat
  BY DEF IncidentInv, Lawful, Record
<1>2. UNCHANGED <<incidents, ops>>
  BY DEF Operation, CreateIncident, AcknowledgeIncident, AdvancePhase, TransferCommand,
         ResolveIncident, CloseIncident, PostIncidentReview
<1>3. CASE CreateIncident(s, i)
  <2>1. PICK report \in Reports, op \in SharedOps \cup {s} :
          /\ Reportable(report)
          /\ \E first \in Created(report) : Commit(s, op, i, NoRevision, first)
    BY <1>3 DEF CreateIncident
  <2>2. PICK first \in Created(report) : Commit(s, op, i, NoRevision, first)
    BY <2>1
  <2>3. Lawful(first) /\ first.status = "OPEN" /\ first.revision = 1
        /\ BuildsOn(NoIncident, first)
    BY <2>1, FirstIsLawful
  <2>4. old.revision = 0 => old = NoIncident
    BY <1>1 DEF Lawful
  <2>5. Proposal(i, first) /\ first \in Record
    BY <1>1, <2>3, <2>4 DEF Proposal, Lawful
  <2>. QED
    BY <1>2, <2>2, <2>5 DEF Proposes
<1>4. CASE AcknowledgeIncident(s, i)
  <2> DEFINE next == [old EXCEPT !.acknowledged = TRUE]
             new  == [next EXCEPT !.revision = old.revision + 1]
  <2>1. old.status = "OPEN" /\ ~old.acknowledged /\ CommitNext(s, i, next)
    BY <1>4 DEF AcknowledgeIncident
  <2>2. new = [old EXCEPT !.acknowledged = TRUE, !.revision = old.revision + 1]
    BY <1>1 DEF Record
  <2> HIDE DEF next
  <2>3. Lawful(new) /\ new.status = "OPEN" /\ BuildsOn(old, new)
    BY <1>1, <2>1, <2>2, AcknowledgementIsLawful
  <2>. QED
    BY <1>1, <1>2, <2>1, <2>3, NextIsProposed
<1>5. CASE AdvancePhase(s, i)
  <2>1. PICK phase \in DOMAIN PhaseIndex :
          /\ NextPhase(old, phase)
          /\ CommitNext(s, i, [old EXCEPT !.phase = phase,
                                          !.recovery = RecoveryState(old, phase)])
    BY <1>5 DEF AdvancePhase
  <2> DEFINE next == [old EXCEPT !.phase = phase, !.recovery = RecoveryState(old, phase)]
             new  == [next EXCEPT !.revision = old.revision + 1]
  <2>2. new = [old EXCEPT !.phase = phase, !.recovery = RecoveryState(old, phase),
                          !.revision = old.revision + 1]
    BY <1>1 DEF Record
  <2>3. new.status = "OPEN" /\ new.phase = phase /\ old.status = "OPEN"
    BY <1>1, <1>5 DEF AdvancePhase, Record
  <2>4. Valid(new)
    BY <2>1 DEF CommitNext, Commit
  <2> HIDE DEF next
  <2>5. Lawful(new) /\ BuildsOn(old, new)
    BY <1>1, <2>1, <2>2, <2>3, <2>4, AdvanceIsLawful DEF NextPhase, Valid
  <2>. QED
    BY <1>1, <1>2, <2>1, <2>3, <2>5, NextIsProposed DEF next
<1>6. CASE TransferCommand(s, i)
  <2>1. PICK c \in Commanders \ {old.commander} :
          CommitNext(s, i,
            [ old EXCEPT !.commander = c,
                         !.transfers = Append(@, [prior |-> old.commander, new |-> c]) ])
    BY <1>6 DEF TransferCommand
  <2> DEFINE next == [ old EXCEPT !.commander = c,
                         !.transfers = Append(@, [prior |-> old.commander, new |-> c]) ]
             new  == [next EXCEPT !.revision = old.revision + 1]
  <2>2. new = [ old EXCEPT !.commander = c,
                  !.transfers = Append(@, [prior |-> old.commander, new |-> c]),
                  !.revision = old.revision + 1 ]
    BY <1>1 DEF Record
  <2>3. old.status = "OPEN"
    BY <1>6 DEF TransferCommand
  <2>4. Len(old.transfers) < MaxTransfers
    <3>1. Valid(new)
      BY <2>1 DEF CommitNext, Commit
    <3>2. new.transfers = Append(old.transfers, [prior |-> old.commander, new |-> c])
      BY <1>1 DEF Record
    <3>3. old.transfers \in Seq(Transfer)
          /\ [prior |-> old.commander, new |-> c] \in Transfer
      BY <1>1, <2>3 DEF Record, Lawful, Transfer
    <3>4. Len(new.transfers) = Len(old.transfers) + 1 /\ Len(old.transfers) \in Nat
      BY <3>2, <3>3, AppendProperties, LenProperties
    <3>. QED
      BY <3>1, <3>4, LimitsAssumption DEF Valid
  <2> HIDE DEF next
  <2>5. Lawful(new) /\ new.status = "OPEN" /\ BuildsOn(old, new)
    BY <1>1, <2>1, <2>2, <2>3, <2>4, TransferIsLawful
  <2>. QED
    BY <1>1, <1>2, <2>1, <2>5, NextIsProposed DEF next
<1>7. ASSUME NEW refs \in SUBSET EvidenceRefs, refs # {}, NEW kept \in WithEvidence(old, refs),
             NEW next, NEW status, NEW phase, NEW risk \in BOOLEAN,
             next = [kept EXCEPT !.status = status, !.phase = phase, !.risk = risk],
             CommitNext(s, i, next),
             \/ /\ old.status = "OPEN" /\ old.phase = "VERIFY" /\ old.recovery = "RECOVERED"
                /\ status = "RESOLVED" /\ phase = "VERIFY"
             \/ /\ old.status = "RESOLVED" /\ status = "CLOSED" /\ phase = "CLOSE"
             \/ /\ old.status = "CLOSED" /\ old.phase = "CLOSE"
                /\ status = "CLOSED" /\ phase = "POST_INCIDENT_REVIEW"
      PROVE  Proposes(s, i)
  <2> DEFINE new == [next EXCEPT !.revision = old.revision + 1]
  <2>1. kept \in Record
    BY <1>1, <1>7, EvidenceKept DEF Lawful
  <2>2. new = [kept EXCEPT !.status = status, !.phase = phase, !.risk = risk,
                           !.revision = old.revision + 1]
    BY <1>7, <2>1 DEF Record
  <2>3. Lawful(new) /\ new.status # "ABSENT" /\ BuildsOn(old, new)
    BY <1>1, <1>7, <2>2, EndIsLawful
  <2>. QED
    BY <1>1, <1>7, <2>3, NextIsProposed
<1>8. \A refs \in (SUBSET EvidenceRefs) \ {{}} : \A kept \in WithEvidence(old, refs) :
        kept \in Record /\ kept.phase = old.phase /\ kept.risk = old.risk
        /\ kept.risk \in BOOLEAN /\ kept.status = old.status
  <2> SUFFICES ASSUME NEW refs \in (SUBSET EvidenceRefs) \ {{}}, NEW kept \in WithEvidence(old, refs)
               PROVE  kept \in Record /\ kept.phase = old.phase /\ kept.risk = old.risk
                      /\ kept.risk \in BOOLEAN /\ kept.status = old.status
    OBVIOUS
  <2>1. kept \in Record /\ kept = [old EXCEPT !.evidence = kept.evidence]
    BY <1>1, EvidenceKept DEF Lawful
  <2>. QED
    BY <1>1, <2>1 DEF Record
<1>9. CASE ResolveIncident(s, i)
  <2>1. PICK refs \in (SUBSET EvidenceRefs) \ {{}} : \E kept \in WithEvidence(old, refs) :
          CommitNext(s, i, [kept EXCEPT !.status = "RESOLVED"])
    BY <1>9 DEF ResolveIncident
  <2>3. PICK kept \in WithEvidence(old, refs) :
          CommitNext(s, i, [kept EXCEPT !.status = "RESOLVED"])
    BY <2>1
  <2>2. [kept EXCEPT !.status = "RESOLVED"]
          = [kept EXCEPT !.status = "RESOLVED", !.phase = "VERIFY", !.risk = kept.risk]
    BY <1>8, <1>9 DEF ResolveIncident, Record
  <2>4. refs \in SUBSET EvidenceRefs /\ refs # {} /\ kept \in WithEvidence(old, refs)
    BY <2>1, <2>3
  <2>5. old.status = "OPEN" /\ old.phase = "VERIFY" /\ old.recovery = "RECOVERED"
    BY <1>9 DEF ResolveIncident
  <2>6. Proposes(s, i)
    <3> DEFINE next == [kept EXCEPT !.status = "RESOLVED", !.phase = "VERIFY", !.risk = kept.risk]
    <3>1. CommitNext(s, i, next) /\ kept.risk \in BOOLEAN
      BY <1>8, <2>3, <2>2
    <3> HIDE DEF next
    <3>2. next = [kept EXCEPT !.status = "RESOLVED", !.phase = "VERIFY", !.risk = kept.risk]
      BY DEF next
    <3>. QED
      BY <1>7, <2>4, <2>5, <3>1, <3>2
  <2>. QED
    BY <1>2, <2>6
<1>10. CASE CloseIncident(s, i)
  <2>1. PICK refs \in (SUBSET EvidenceRefs) \ {{}} : \E kept \in WithEvidence(old, refs) :
          CommitNext(s, i, [kept EXCEPT !.status = "CLOSED", !.phase = "CLOSE", !.risk = TRUE])
    BY <1>10 DEF CloseIncident
  <2>3. PICK kept \in WithEvidence(old, refs) :
          CommitNext(s, i, [kept EXCEPT !.status = "CLOSED", !.phase = "CLOSE", !.risk = TRUE])
    BY <2>1
  <2>4. refs \in SUBSET EvidenceRefs /\ refs # {} /\ kept \in WithEvidence(old, refs)
    BY <2>1, <2>3
  <2>5. old.status = "RESOLVED"
    BY <1>10 DEF CloseIncident
  <2>6. Proposes(s, i)
    <3> DEFINE next == [kept EXCEPT !.status = "CLOSED", !.phase = "CLOSE", !.risk = TRUE]
    <3>1. CommitNext(s, i, next) /\ TRUE \in BOOLEAN
      BY <1>8, <2>3
    <3> HIDE DEF next
    <3>2. next = [kept EXCEPT !.status = "CLOSED", !.phase = "CLOSE", !.risk = TRUE]
      BY DEF next
    <3>. QED
      BY <1>7, <2>4, <2>5, <3>1, <3>2
  <2>. QED
    BY <1>2, <2>6
<1>11. CASE PostIncidentReview(s, i)
  <2>1. PICK refs \in (SUBSET EvidenceRefs) \ {{}} : \E kept \in WithEvidence(old, refs) :
          CommitNext(s, i, [kept EXCEPT !.phase = "POST_INCIDENT_REVIEW"])
    BY <1>11 DEF PostIncidentReview
  <2>3. PICK kept \in WithEvidence(old, refs) :
          CommitNext(s, i, [kept EXCEPT !.phase = "POST_INCIDENT_REVIEW"])
    BY <2>1
  <2>2. [kept EXCEPT !.phase = "POST_INCIDENT_REVIEW"]
          = [kept EXCEPT !.status = "CLOSED", !.phase = "POST_INCIDENT_REVIEW",
                         !.risk = kept.risk]
    BY <1>8, <1>11 DEF PostIncidentReview, Record
  <2>4. refs \in SUBSET EvidenceRefs /\ refs # {} /\ kept \in WithEvidence(old, refs)
    BY <2>1, <2>3
  <2>5. old.status = "CLOSED" /\ old.phase = "CLOSE"
    BY <1>11 DEF PostIncidentReview
  <2>6. Proposes(s, i)
    <3> DEFINE next == [kept EXCEPT !.status = "CLOSED", !.phase = "POST_INCIDENT_REVIEW", !.risk = kept.risk]
    <3>1. CommitNext(s, i, next) /\ kept.risk \in BOOLEAN
      BY <1>8, <2>3, <2>2
    <3> HIDE DEF next
    <3>2. next = [kept EXCEPT !.status = "CLOSED", !.phase = "POST_INCIDENT_REVIEW", !.risk = kept.risk]
      BY DEF next
    <3>. QED
      BY <1>7, <2>4, <2>5, <3>1, <3>2
  <2>. QED
    BY <1>2, <2>6
<1>. QED
  BY <1>3, <1>4, <1>5, <1>6, <1>9, <1>10, <1>11 DEF Operation

-----------------------------------------------------------------------------
(* The log.                                                                 *)

OneEntry(t) == \A k, l \in DOMAIN t : t[k].incident = t[l].incident => k = l

LEMMA LoggedIsEntry ==
  ASSUME NEW op, OneEntry(ops[op]), NEW k \in DOMAIN ops[op]
  PROVE  /\ Logged(op, ops[op][k].incident)
         /\ LoggedRecord(op, ops[op][k].incident) = ops[op][k].record
  BY DEF OneEntry, Logged, LoggedRecord

Enters(op, i, r) == ops' = [ops EXCEPT ![op] = Append(@, [incident |-> i, record |-> r])]

\* What a write adds to the log, and what it leaves there.
LEMMA PutLogs ==
  ASSUME ops \in [Ops -> Seq(Entry)], \A o \in Ops : OneEntry(ops[o]),
         NEW op \in Ops, NEW i \in Incidents, NEW r \in Record, ~Logged(op, i),
         Enters(op, i, r)
  PROVE  /\ ops' \in [Ops -> Seq(Entry)]
         /\ \A o \in Ops : OneEntry(ops'[o])
         /\ Logged(op, i)' /\ LoggedRecord(op, i)' = r /\ HasEntry(ops'[op], i, r)
         /\ \A o \in Ops : \A j, q : HasEntry(ops[o], j, q) => HasEntry(ops'[o], j, q)
         /\ \A o \in Ops, j \in Incidents : o # op \/ j # i =>
              /\ Logged(o, j)' = Logged(o, j)
              /\ LoggedRecord(o, j)' = LoggedRecord(o, j) \/ ~Logged(o, j)
         /\ \A o \in Ops : o # op => ops'[o] = ops[o]
         /\ \A k \in DOMAIN ops'[op] : \/ k \in DOMAIN ops[op] /\ ops'[op][k] = ops[op][k]
                                       \/ ops'[op][k].incident = i /\ ops'[op][k].record = r
<1> DEFINE e == [incident |-> i, record |-> r]
           t == ops[op]
           n == Len(t)
<1>1. e \in Entry /\ e.incident = i /\ e.record = r /\ t \in Seq(Entry) /\ n \in Nat
      /\ DOMAIN t = 1..n
  BY LenProperties DEF Entry
<1>2. ops'[op] = Append(t, e) /\ \A o \in Ops : o # op => ops'[o] = ops[o]
  BY DEF Enters
<1> HIDE DEF e
<1>3. /\ ops'[op] \in Seq(Entry) /\ DOMAIN ops'[op] = 1..(n + 1)
      /\ \A k \in 1..n : ops'[op][k] = t[k]
      /\ ops'[op][n + 1] = e
  BY <1>1, <1>2, AppendProperties, LenProperties
<1>4. \A k \in 1..n : t[k].incident # i
  BY <1>1 DEF Logged
<1>5. OneEntry(ops'[op])
  <2>1. OneEntry(t)
    BY <1>1
  <2>2. \A k \in 1..(n + 1) : k \in 1..n \/ k = n + 1
    BY <1>1
  <2>3. ASSUME NEW k \in 1..(n + 1), NEW l \in 1..(n + 1),
               ops'[op][k].incident = ops'[op][l].incident
        PROVE  k = l
    BY <1>1, <1>3, <1>4, <2>1, <2>2, <2>3 DEF OneEntry
  <2>. QED
    BY <1>3, <2>3 DEF OneEntry
<1>6. Logged(op, i)' /\ LoggedRecord(op, i)' = r
  <2>1. n + 1 \in DOMAIN ops'[op] /\ ops'[op][n + 1].incident = i /\ ops'[op][n + 1].record = r
    BY <1>1, <1>3
  <2>2. \A k \in DOMAIN ops'[op] : ops'[op][k].incident = i => k = n + 1
    BY <1>5, <2>1 DEF OneEntry
  <2>. QED
    BY <2>1, <2>2 DEF Logged, LoggedRecord
<1>7. ASSUME NEW o \in Ops, NEW j \in Incidents, o # op
      PROVE  Logged(o, j)' = Logged(o, j) /\ LoggedRecord(o, j)' = LoggedRecord(o, j)
  BY <1>2, <1>7 DEF Logged, LoggedRecord
<1>8. ASSUME NEW j \in Incidents, j # i
      PROVE  /\ Logged(op, j)' = Logged(op, j)
             /\ LoggedRecord(op, j)' = LoggedRecord(op, j) \/ ~Logged(op, j)
  <2>1. \A k \in DOMAIN ops'[op] : ops'[op][k].incident = j => k \in DOMAIN t /\ t[k].incident = j
    BY <1>1, <1>3, <1>8
  <2>2. \A k \in DOMAIN t : k \in DOMAIN ops'[op] /\ ops'[op][k] = t[k]
    BY <1>1, <1>3
  <2>3. ASSUME NEW k \in DOMAIN t, t[k].incident = j
        PROVE  LoggedRecord(op, j)' = LoggedRecord(op, j)
    <3>1. \A l \in DOMAIN t : t[l].incident = j => l = k
      BY <2>3 DEF OneEntry
    <3>2. \A l \in DOMAIN ops'[op] : ops'[op][l].incident = j => l = k
      BY <2>1, <3>1
    <3>3. LoggedRecord(op, j) = t[k].record
      BY <2>3, <3>1 DEF LoggedRecord
    <3>4. LoggedRecord(op, j)' = ops'[op][k].record
      BY <2>2, <2>3, <3>2 DEF LoggedRecord
    <3>. QED
      BY <2>2, <3>3, <3>4
  <2>. QED
    BY <2>1, <2>2, <2>3 DEF Logged
<1>9. ops' \in [Ops -> Seq(Entry)]
  BY <1>2, <1>3 DEF Enters
<1>10. HasEntry(ops'[op], i, r)
  <2>1. n + 1 \in DOMAIN ops'[op] /\ ops'[op][n + 1].incident = i /\ ops'[op][n + 1].record = r
    BY <1>1, <1>3
  <2>. QED
    BY <2>1 DEF HasEntry
<1>11. ASSUME NEW o \in Ops, NEW j, NEW q, HasEntry(ops[o], j, q)
       PROVE  HasEntry(ops'[o], j, q)
  <2>1. PICK k \in DOMAIN ops[o] : ops[o][k].incident = j /\ ops[o][k].record = q
    BY <1>11 DEF HasEntry
  <2>2. k \in DOMAIN ops'[o] /\ ops'[o][k] = ops[o][k]
    <3>1. CASE o = op
      BY <1>1, <1>3, <2>1, <3>1
    <3>2. CASE o # op
      BY <1>2, <2>1, <3>2
    <3>. QED
      BY <3>1, <3>2
  <2>. QED
    BY <2>1, <2>2 DEF HasEntry
<1>12. \A k \in DOMAIN ops'[op] : \/ k \in DOMAIN ops[op] /\ ops'[op][k] = ops[op][k]
                                  \/ ops'[op][k].incident = i /\ ops'[op][k].record = r
  <2>1. \A k \in 1..(n + 1) : k \in 1..n \/ k = n + 1
    BY <1>1
  <2>. QED
    BY <1>1, <1>3, <2>1
<1>. QED
  BY <1>2, <1>5, <1>6, <1>7, <1>8, <1>9, <1>10, <1>11, <1>12

-----------------------------------------------------------------------------
(* The steps of a call in progress.                                         *)

Continues(s) ==
  /\ UNCHANGED <<incidents, ops>>
  /\ \E p \in Doubtful : calls' = [calls EXCEPT ![s].pc = p]

Refused(s) ==
  LET c == calls[s] IN
    PutAnswer(c.op, c.incident, c.expected, c.record) \in {"OP_CONFLICT", "STALE"}

\* A record of its own, or in doubt any of the incident.
Finds(s) ==
  /\ Logged(calls[s].op, calls[s].incident)
  /\ \/ LoggedRecord(calls[s].op, calls[s].incident) = calls[s].record
     \/ calls[s].pc \in Doubtful

Answers(s) ==
  /\ UNCHANGED <<incidents, ops>>
  /\ \E answer \in {"recorded", "refused", "unknown"} :
       /\ calls' = [calls EXCEPT ![s] = Answered(calls[s], answer)]
       /\ answer = "recorded" => Finds(s)
       /\ answer = "refused" => Refused(s)

Writes(s) ==
  LET c == calls[s] IN
  /\ ~Logged(c.op, c.incident)
  /\ RevisionMatches(c.incident, c.expected, c.record)
  /\ incidents' = [incidents EXCEPT ![c.incident] = c.record]
  /\ ops' = [ops EXCEPT ![c.op] = Append(@, [incident |-> c.incident, record |-> c.record])]
  /\ \/ calls' = [calls EXCEPT ![s] = Answered([c EXCEPT !.wrote = TRUE], "recorded")]
     \/ \E p \in Doubtful : calls' = [calls EXCEPT ![s] = [c EXCEPT !.wrote = TRUE, !.pc = p]]

LEMMA PutKinds ==
  ASSUME NEW s \in Services, NEW p \in Doubtful, PutIn(s, p)
  PROVE  Continues(s) \/ Answers(s) \/ Writes(s)
<1> DEFINE c == calls[s]
           answer == PutAnswer(c.op, c.incident, c.expected, c.record)
<1>1. CASE answer = "WRITTEN" /\ PutWrites(c.op, c.incident, c.record)
           /\ \/ calls' = [calls EXCEPT ![s] = Answered([c EXCEPT !.wrote = TRUE], "recorded")]
              \/ calls' = [calls EXCEPT ![s] = [c EXCEPT !.wrote = TRUE, !.pc = p]]
  <2>1. ~Logged(c.op, c.incident) /\ RevisionMatches(c.incident, c.expected, c.record)
    BY <1>1 DEF PutAnswer
  <2>. QED
    BY <1>1, <2>1 DEF Writes, PutWrites
<1>2. CASE answer = "OP_REPLAY" /\ UNCHANGED <<incidents, ops>>
           /\ calls' = [calls EXCEPT ![s] = Answered(c, "recorded")]
  <2>1. Finds(s)
    BY <1>2 DEF PutAnswer, Finds
  <2>. QED
    BY <1>2, <2>1 DEF Answers
<1>3. CASE answer \in {"OP_CONFLICT", "STALE"} /\ UNCHANGED <<incidents, ops>>
           /\ calls' = [calls EXCEPT ![s] = Answered(c, "refused")]
  BY <1>3 DEF Answers, Refused
<1>4. CASE Goto(s, p) /\ UNCHANGED <<incidents, ops>>
  BY <1>4 DEF Continues, Goto
<1>. QED
  BY <1>1, <1>2, <1>3, <1>4 DEF PutIn

LEMMA CallKinds ==
  ASSUME IncidentInv, NEW s \in Services,
         Attempt(s) \/ ReadBack(s) \/ Recheck(s) \/ Retry(s) \/ Reread(s)
  PROVE  /\ calls[s].pc \in Pending
         /\ Continues(s) \/ Answers(s) \/ Writes(s)
<1>1. calls[s].pc \in Pending
  BY DEF Attempt, ReadBack, Recheck, Retry, Reread, At, Pending, Doubtful
<1>2. calls[s] \in CallRecord /\ calls[s].op \in Ops /\ calls[s].incident \in Incidents
  BY <1>1 DEF IncidentInv, Called, At, Pending, Doubtful, Ops
<1>3. calls[s].pc \in Doubtful /\ ReadsBack(calls[s].op, calls[s].incident) => Finds(s)
  <2>1. ops[calls[s].op] \in Seq(Entry)
    BY <1>2 DEF IncidentInv
  <2>. QED
    BY <2>1 DEF ReadsBack, Logged, Finds
<1>4. CASE Attempt(s) \/ Retry(s)
  BY <1>1, <1>4, PutKinds DEF Attempt, Retry, Doubtful
<1>5. CASE ReadBack(s)
  <2>1. [calls[s] EXCEPT !.pc = "recheck"] = [calls EXCEPT ![s].pc = "recheck"][s]
    BY <1>2 DEF IncidentInv
  <2>2. calls[s].pc \in Doubtful
    BY <1>5 DEF ReadBack, At, Doubtful
  <2>. QED
    BY <1>1, <1>2, <1>3, <1>5, <2>2 DEF ReadBack, Continues, Answers, Doubtful, IncidentInv
<1>6. CASE Recheck(s)
  BY <1>1, <1>2, <1>6 DEF Recheck, Continues, Answers, Doubtful, IncidentInv
<1>7. CASE Reread(s)
  <2>1. calls[s].pc \in Doubtful
    BY <1>7 DEF Reread, At, Doubtful
  <2>. QED
    BY <1>1, <1>3, <1>7, <2>1 DEF Reread, Answers
<1>. QED
  BY <1>4, <1>5, <1>6, <1>7

-----------------------------------------------------------------------------
(* The invariant is kept.                                                   *)

LEMMA IncidentInvInit == IncidentInit => IncidentInv
<1> SUFFICES ASSUME IncidentInit PROVE IncidentInv
  OBVIOUS
<1>1. PICK report \in Reports, op \in SharedOps :
        /\ Reportable(report)
        /\ \E first \in Created(report), order \in SetToSeqs(Reported) :
             /\ incidents = [i \in Incidents |-> IF i \in Reported THEN first ELSE NoIncident]
             /\ ops = [ o \in Ops |-> IF o = op
                        THEN [k \in DOMAIN order |-> [incident |-> order[k], record |-> first]]
                        ELSE <<>> ]
  BY DEF IncidentInit
<1>2. PICK first \in Created(report), order \in SetToSeqs(Reported) :
        /\ incidents = [i \in Incidents |-> IF i \in Reported THEN first ELSE NoIncident]
        /\ ops = [ o \in Ops |-> IF o = op
                   THEN [k \in DOMAIN order |-> [incident |-> order[k], record |-> first]]
                   ELSE <<>> ]
  BY <1>1
<1>3. calls = [s \in Services |-> NoCall]
  BY DEF IncidentInit
<1>4. Lawful(first) /\ Lawful(NoIncident) /\ first \in Record /\ NoIncident \in Record
  BY <1>1, FirstIsLawful, NoIncidentIsLawful DEF Lawful
<1>5. PICK n \in Nat : order \in [1..n -> Reported]
                       /\ \A k, l \in 1..n : k # l => order[k] # order[l]
  BY FS_CardinalityType, ReportsAssumption DEF SetToSeqs
<1>6. [k \in DOMAIN order |-> [incident |-> order[k], record |-> first]] \in Seq(Entry)
  <2>1. \A k \in 1..n : [incident |-> order[k], record |-> first] \in Entry
    BY <1>4, <1>5, ReportsAssumption DEF Entry
  <2>. QED
    BY <1>5, <2>1
<1>7. ops \in [Ops -> Seq(Entry)]
  BY <1>2, <1>6
<1>8. \A o \in Ops : OneEntry(ops[o])
  BY <1>2, <1>5 DEF OneEntry
<1>9. LogInv
  <2>1. \A s \in Services : s # op /\ ops[s] = <<>>
    BY <1>2, IdsAssumption DEF Ops
  <2>. QED
    BY <1>8, <2>1 DEF LogInv, OneEntry
<1>10. NoCall \in CallRecord
  BY <1>4 DEF NoCall, CallRecord, Points
<1>. QED
  BY <1>2, <1>3, <1>4, <1>7, <1>9, <1>10
  DEF IncidentInv, Called, MadeFromLatest, Written, OwnEntries, At, NoCall, Pending, Doubtful

\* A call begins.
LEMMA BeginKeeps ==
  ASSUME IncidentInv, NEW s \in Services, NEW i \in Incidents, At(s, "idle"), Operation(s, i)
  PROVE  IncidentInv'
<1>1. UNCHANGED <<incidents, ops>> /\ Proposes(s, i)
  BY OperationProposes
<1>2. PICK op \in SharedOps \cup {s}, expected \in Nat \cup {NoRevision}, r \in Record :
        Proposal(i, r) /\ Commit(s, op, i, expected, r)
  BY <1>1 DEF Proposes
<1> DEFINE c == [ NoCall EXCEPT !.pc = "attempt", !.op = op, !.incident = i,
                                !.expected = expected, !.record = r ]
<1>3. calls' = [calls EXCEPT ![s] = c]
  BY <1>2 DEF Commit
<1>4. /\ c \in CallRecord /\ c.pc = "attempt" /\ c.op = op /\ c.incident = i
      /\ c.record = r /\ ~c.wrote
  BY <1>2 DEF NoCall, CallRecord, Points, Ops
<1> HIDE DEF c
<1>5. calls'[s] = c /\ \A t \in Services : t # s => calls'[t] = calls[t]
  BY <1>3 DEF IncidentInv
<1>6. calls' \in [Services -> CallRecord]
  BY <1>3, <1>4 DEF IncidentInv
<1>7. \A t \in Services : Called(t)'
  BY <1>2, <1>4, <1>5 DEF IncidentInv, Called, At
<1>8. MadeFromLatest'
  <2>1. MadeFrom(s)'
    BY <1>1, <1>2, <1>4, <1>5 DEF MadeFrom, Proposal
  <2>2. \A t \in Services : t # s => MadeFrom(t)' = MadeFrom(t)
    BY <1>1, <1>5 DEF MadeFrom
  <2>. QED
    BY <1>5, <2>1, <2>2 DEF IncidentInv, MadeFromLatest
<1>9. Written'
  BY <1>1, <1>4, <1>5 DEF IncidentInv, Written
<1>10. \A k \in DOMAIN ops[s] : FALSE
  <2>1. calls[s].op # s
    BY IdsAssumption DEF IncidentInv, Called, NoCall
  <2>. QED
    BY <2>1 DEF IncidentInv, LogInv
<1>11. LogInv'
  <2>1. \A t \in Services : \A k \in DOMAIN ops[t] : t # s
    BY <1>10
  <2>. QED
    BY <1>1, <1>5, <2>1 DEF IncidentInv, LogInv
<1>12. OwnEntries'
  BY <1>1, <1>5, <1>10 DEF IncidentInv, OwnEntries
<1>. QED
  BY <1>1, <1>6, <1>7, <1>8, <1>9, <1>11, <1>12 DEF IncidentInv

\* A call in progress goes on without having written.
LEMMA QuietKeeps ==
  ASSUME IncidentInv, NEW s \in Services, calls[s].pc \in Pending,
         UNCHANGED <<incidents, ops>>,
         NEW c \in CallRecord, calls' = [calls EXCEPT ![s] = c], c.pc # "idle",
         c.op = calls[s].op, c.incident = calls[s].incident,
         c.pc \in Pending => c.record = calls[s].record /\ c.wrote = calls[s].wrote
  PROVE  IncidentInv'
<1>1. calls'[s] = c /\ \A t \in Services : t # s => calls'[t] = calls[t]
  BY DEF IncidentInv
<1>2. calls' \in [Services -> CallRecord]
  BY DEF IncidentInv
<1>3. \A t \in Services : Called(t)'
  <2>1. ~At(s, "idle")
    BY DEF At, Pending, Doubtful
  <2>. QED
    BY <1>1, <2>1 DEF IncidentInv, Called, At
<1>4. MadeFromLatest'
  <2>1. c.pc \in Pending => MadeFrom(s)'
    BY <1>1 DEF IncidentInv, MadeFromLatest, MadeFrom
  <2>2. \A t \in Services : t # s => MadeFrom(t)' = MadeFrom(t)
    BY <1>1 DEF MadeFrom
  <2>. QED
    BY <1>1, <2>1, <2>2 DEF IncidentInv, MadeFromLatest
<1>5. Written'
  BY <1>1 DEF IncidentInv, Written
<1>6. LogInv'
  BY <1>1 DEF IncidentInv, LogInv
<1>7. OwnEntries'
  BY <1>1 DEF IncidentInv, OwnEntries
<1>. QED
  BY <1>2, <1>3, <1>4, <1>5, <1>6, <1>7 DEF IncidentInv

LEMMA ContinueKeeps ==
  ASSUME IncidentInv, NEW s \in Services, calls[s].pc \in Pending, Continues(s)
  PROVE  IncidentInv'
<1>1. PICK p \in Doubtful : calls' = [calls EXCEPT ![s].pc = p]
  BY DEF Continues
<1> DEFINE c == [calls[s] EXCEPT !.pc = p]
<1>2. calls' = [calls EXCEPT ![s] = c]
  BY <1>1 DEF IncidentInv
<1>3. /\ c \in CallRecord /\ c.pc = p /\ c.op = calls[s].op /\ c.incident = calls[s].incident
      /\ c.record = calls[s].record /\ c.wrote = calls[s].wrote
  BY DEF IncidentInv, CallRecord, Points, Pending, Doubtful
<1>4. p # "idle"
  BY DEF Pending, Doubtful
<1> HIDE DEF c
<1>. QED
  BY <1>2, <1>3, <1>4, QuietKeeps DEF Continues

LEMMA AnswerKeeps ==
  ASSUME IncidentInv, NEW s \in Services, calls[s].pc \in Pending, Answers(s)
  PROVE  IncidentInv'
<1>1. PICK answer \in {"recorded", "refused", "unknown"} :
        calls' = [calls EXCEPT ![s] = Answered(calls[s], answer)]
  BY DEF Answers
<1> DEFINE c == Answered(calls[s], answer)
<1>2. /\ c \in CallRecord /\ c.pc = answer /\ c.op = calls[s].op
      /\ c.incident = calls[s].incident
  BY NoIncidentIsLawful DEF Answered, IncidentInv, CallRecord, Points, Lawful
<1>3. answer # "idle" /\ answer \notin Pending
  BY DEF Pending, Doubtful
<1> HIDE DEF c
<1>. QED
  BY <1>1, <1>2, <1>3, QuietKeeps DEF Answers, c

\* A write: the record it replaces is the one it was made from.
LEMMA WriteBuilds ==
  ASSUME IncidentInv, NEW s \in Services, calls[s].pc \in Pending,
         RevisionMatches(calls[s].incident, calls[s].expected, calls[s].record)
  PROVE  BuildsOn(incidents[calls[s].incident], calls[s].record)
<1> DEFINE c == calls[s]
           old == incidents[c.incident]
<1>1. MadeFrom(s) /\ c \in CallRecord /\ c.incident \in Incidents /\ old \in Record
  BY DEF IncidentInv, MadeFromLatest, Called, At, Pending, Doubtful
<1>2. NoIncident.revision = 0
  BY DEF NoIncident
<1>3. c.record.revision = old.revision + 1
  BY <1>1, <1>2 DEF RevisionMatches, CallRecord, NoRevision
<1>. QED
  BY <1>1, <1>3 DEF MadeFrom

LEMMA WriteKeeps ==
  ASSUME IncidentInv, NEW s \in Services, calls[s].pc \in Pending, Writes(s)
  PROVE  IncidentInv'
<1>0. /\ calls[s] \in CallRecord /\ calls[s].incident \in Incidents
      /\ calls[s].op \in SharedOps \cup {s} /\ calls[s].op \in Ops
      /\ Lawful(calls[s].record) /\ calls[s].record \in Record
      /\ calls[s].record.status # "ABSENT"
  BY DEF IncidentInv, Called, At, Pending, Doubtful, MadeFromLatest, MadeFrom, Lawful, Ops
<1>a. PICK c \in CallRecord, i \in Incidents, op \in Ops, r \in Record :
        c = calls[s] /\ i = c.incident /\ op = c.op /\ r = c.record
  BY <1>0
<1>1. op \in SharedOps \cup {s} /\ Lawful(r) /\ r.status # "ABSENT"
  BY <1>0, <1>a
<1>2. /\ ~Logged(op, i)
      /\ incidents' = [incidents EXCEPT ![i] = r]
      /\ ops' = [ops EXCEPT ![op] = Append(@, [incident |-> i, record |-> r])]
  BY <1>a DEF Writes
<1>3. PICK d \in CallRecord :
        /\ calls' = [calls EXCEPT ![s] = d]
        /\ d.pc # "idle" /\ d.op = op /\ d.incident = i
        /\ d.pc \in Pending => d.record = r
  <2>1. CASE calls' = [calls EXCEPT ![s] = Answered([c EXCEPT !.wrote = TRUE], "recorded")]
    <3> DEFINE d == Answered([c EXCEPT !.wrote = TRUE], "recorded")
    <3>1. d \in CallRecord /\ d.pc = "recorded" /\ d.op = op /\ d.incident = i
      BY <1>a, NoIncidentIsLawful DEF Answered, CallRecord, Points, Lawful
    <3>2. "recorded" # "idle" /\ "recorded" \notin Pending
      BY DEF Pending, Doubtful
    <3> HIDE DEF d
    <3>. QED
      BY <2>1, <3>1, <3>2 DEF d
  <2>2. ASSUME NEW p \in Doubtful,
               calls' = [calls EXCEPT ![s] = [c EXCEPT !.wrote = TRUE, !.pc = p]]
        PROVE  \E d \in CallRecord :
                 /\ calls' = [calls EXCEPT ![s] = d]
                 /\ d.pc # "idle" /\ d.op = op /\ d.incident = i
                 /\ d.pc \in Pending => d.record = r
    <3> DEFINE d == [c EXCEPT !.wrote = TRUE, !.pc = p]
    <3>1. d \in CallRecord /\ d.pc = p /\ d.op = op /\ d.incident = i /\ d.record = r
      BY <1>a DEF CallRecord, Points, Pending, Doubtful
    <3>2. p # "idle"
      BY DEF Pending, Doubtful
    <3> HIDE DEF d
    <3>. QED
      BY <2>2, <3>1, <3>2 DEF d
  <2>. QED
    BY <1>a, <2>1, <2>2 DEF Writes
<1>4. calls'[s] = d /\ \A t \in Services : t # s => calls'[t] = calls[t]
  BY <1>3 DEF IncidentInv
<1>5. calls' \in [Services -> CallRecord]
  BY <1>3 DEF IncidentInv
<1>6. BuildsOn(incidents[i], r)
  BY <1>a, WriteBuilds DEF Writes
<1>7. r.revision = incidents[i].revision + 1 /\ incidents[i].revision \in Nat
  BY <1>1, <1>6 DEF BuildsOn, IncidentInv, Record
<1>8. /\ incidents' \in [Incidents -> Record]
      /\ \A j \in Incidents : Lawful(incidents'[j])
      /\ incidents'[i] = r /\ \A j \in Incidents : j # i => incidents'[j] = incidents[j]
  BY <1>1, <1>2 DEF IncidentInv
<1>b. ops \in [Ops -> Seq(Entry)] /\ \A o \in Ops : OneEntry(ops[o])
  BY DEF IncidentInv, LogInv, OneEntry
<1>9. /\ ops' \in [Ops -> Seq(Entry)]
      /\ \A o \in Ops : OneEntry(ops'[o])
      /\ HasEntry(ops'[op], i, r)
      /\ \A o \in Ops : \A j, q : HasEntry(ops[o], j, q) => HasEntry(ops'[o], j, q)
      /\ \A o \in Ops : o # op => ops'[o] = ops[o]
      /\ \A k \in DOMAIN ops'[op] : \/ k \in DOMAIN ops[op] /\ ops'[op][k] = ops[op][k]
                                    \/ ops'[op][k].incident = i /\ ops'[op][k].record = r
  <2>1. Enters(op, i, r) /\ ~Logged(op, i)
    BY <1>2 DEF Enters
  <2>. QED
    BY <2>1, <1>b, PutLogs
<1>10. \A t \in Services : Called(t)'
  BY <1>1, <1>3, <1>4, <1>a DEF IncidentInv, Called, At
<1>11. MadeFromLatest'
  <2>1. d.pc \in Pending => MadeFrom(s)'
    BY <1>1, <1>3, <1>4, <1>7, <1>8 DEF MadeFrom
  <2>2. ASSUME NEW t \in Services, t # s, calls[t].pc \in Pending
        PROVE  MadeFrom(t)'
    <3>1. MadeFrom(t) /\ calls[t].incident \in Incidents /\ calls[t] \in CallRecord
      BY <2>2 DEF IncidentInv, MadeFromLatest, Called, At, Pending, Doubtful
    <3>2. calls[t].record.revision \in Nat
      BY <3>1 DEF CallRecord, Record
    <3>. QED
      BY <1>4, <1>7, <1>8, <2>2, <3>1, <3>2 DEF MadeFrom
  <2>. QED
    BY <1>4, <2>1, <2>2 DEF MadeFromLatest
<1>12. Written'
  <2>1. ASSUME NEW t \in Services, t # s, calls[t].pc \in Pending, calls[t].wrote
        PROVE  HasEntry(ops'[calls[t].op], calls[t].incident, calls[t].record)
    <3>1. calls[t].op \in Ops
      BY <2>1 DEF IncidentInv, Called, At, Pending, Doubtful, Ops
    <3>2. HasEntry(ops[calls[t].op], calls[t].incident, calls[t].record)
      BY <2>1 DEF IncidentInv, Written
    <3>. QED
      BY <1>9, <3>1, <3>2
  <2>2. d.pc \in Pending => HasEntry(ops'[d.op], d.incident, d.record)
    BY <1>3, <1>9
  <2>. QED
    BY <1>4, <2>1, <2>2 DEF Written
<1>13. LogInv'
  <2>1. ASSUME NEW t \in Services, NEW k \in DOMAIN ops'[t]
        PROVE  calls'[t].op = t /\ calls'[t].incident = ops'[t][k].incident
    <3>1. CASE t # op
      <4>1. k \in DOMAIN ops[t] /\ ops'[t] = ops[t]
        BY <1>9, <3>1 DEF Ops
      <4>2. calls[t].op = t /\ calls[t].incident = ops[t][k].incident
        BY <4>1 DEF IncidentInv, LogInv
      <4>3. t # s
        BY <1>a, <3>1, <4>2
      <4>. QED
        BY <1>4, <4>1, <4>2, <4>3
    <3>2. CASE t = op
      <4>1. t = s
        BY <1>1, <3>2, IdsAssumption
      <4>2. k \in DOMAIN ops[op] => ops[op][k].incident = i
        BY <1>a, <3>2, <4>1 DEF IncidentInv, LogInv
      <4>. QED
        BY <1>3, <1>4, <1>9, <3>2, <4>1, <4>2
    <3>. QED
      BY <3>1, <3>2
  <2>. QED
    BY <1>9, <2>1 DEF LogInv, OneEntry
<1>14. OwnEntries'
  <2>1. ASSUME NEW t \in Services, t # s, calls[t].pc \in Pending, NEW k \in DOMAIN ops'[t]
        PROVE  ops'[t][k].record = calls[t].record
    <3>1. t # op
      BY <1>1, <2>1, IdsAssumption
    <3>2. ops'[t] = ops[t]
      BY <1>9, <3>1 DEF Ops
    <3>. QED
      BY <2>1, <3>2 DEF IncidentInv, OwnEntries
  <2>2. ASSUME d.pc \in Pending, NEW k \in DOMAIN ops'[s] PROVE ops'[s][k].record = d.record
    <3>1. CASE s # op
      <4>1. k \in DOMAIN ops[s] /\ ops'[s] = ops[s]
        BY <1>9, <2>2, <3>1 DEF Ops
      <4>. QED
        BY <1>a, <3>1, <4>1 DEF IncidentInv, LogInv
    <3>2. CASE s = op
      <4>1. k \notin DOMAIN ops[op]
        <5>1. k \in DOMAIN ops[op] => ops[op][k].incident = i
          BY <1>a, <3>2 DEF IncidentInv, LogInv
        <5>. QED
          BY <1>2, <5>1 DEF Logged
      <4>. QED
        BY <1>3, <1>9, <2>2, <3>2, <4>1
    <3>. QED
      BY <3>1, <3>2
  <2>. QED
    BY <1>4, <2>1, <2>2 DEF OwnEntries
<1>. QED
  BY <1>5, <1>8, <1>9, <1>10, <1>11, <1>12, <1>13, <1>14 DEF IncidentInv

LEMMA ReturnKeeps ==
  ASSUME IncidentInv, NEW s \in Services, Return(s)
  PROVE  IncidentInv'
<1>1. /\ calls[s].pc \in {"recorded", "refused", "unknown"}
      /\ calls' = [calls EXCEPT ![s] = NoCall] /\ ops' = [ops EXCEPT ![s] = <<>>]
      /\ UNCHANGED incidents
  BY DEF Return
<1>2. NoCall \in CallRecord /\ NoCall.pc = "idle"
  BY NoIncidentIsLawful DEF NoCall, CallRecord, Points, Lawful
<1>3. calls'[s] = NoCall /\ (\A t \in Services : t # s => calls'[t] = calls[t])
      /\ calls' \in [Services -> CallRecord]
  BY <1>1, <1>2 DEF IncidentInv
<1>4. ops'[s] = <<>> /\ (\A o \in Ops : o # s => ops'[o] = ops[o])
      /\ ops' \in [Ops -> Seq(Entry)]
  BY <1>1 DEF IncidentInv, Ops
<1>5. \A t \in Services : Called(t)'
  BY <1>2, <1>3 DEF IncidentInv, Called, At
<1>6. MadeFromLatest'
  <2>1. \A t \in Services : t # s => MadeFrom(t)' = MadeFrom(t)
    BY <1>1, <1>3 DEF MadeFrom
  <2>. QED
    BY <1>2, <1>3, <2>1 DEF IncidentInv, MadeFromLatest, Pending, Doubtful
<1>7. Written'
  <2>1. ASSUME NEW t \in Services, t # s, calls[t].pc \in Pending, calls[t].wrote
        PROVE  HasEntry(ops'[calls[t].op], calls[t].incident, calls[t].record)
    <3>1. calls[t].op \in SharedOps \cup {t} /\ calls[t].op \in Ops
      BY <2>1 DEF IncidentInv, Called, At, Pending, Doubtful, Ops
    <3>2. ops'[calls[t].op] = ops[calls[t].op]
      BY <1>4, <2>1, <3>1, IdsAssumption
    <3>. QED
      BY <2>1, <3>2 DEF IncidentInv, Written
  <2>2. NoCall.pc \notin Pending
    BY <1>2 DEF Pending, Doubtful
  <2>. QED
    BY <1>3, <2>1, <2>2 DEF Written
<1>8. LogInv'
  <2>1. ASSUME NEW o \in Ops PROVE OneEntry(ops'[o])
    <3>1. CASE o = s
      BY <1>4, <3>1 DEF OneEntry
    <3>2. CASE o # s
      BY <1>4, <3>2 DEF IncidentInv, LogInv, OneEntry
    <3>. QED
      BY <3>1, <3>2
  <2>2. ASSUME NEW t \in Services, NEW k \in DOMAIN ops'[t]
        PROVE  calls'[t].op = t /\ calls'[t].incident = ops'[t][k].incident
    <3>1. t # s
      BY <1>4
    <3>2. ops'[t] = ops[t] /\ calls'[t] = calls[t]
      BY <1>3, <1>4, <3>1 DEF Ops
    <3>. QED
      BY <3>2 DEF IncidentInv, LogInv
  <2>. QED
    BY <2>1, <2>2 DEF LogInv, OneEntry
<1>9. OwnEntries'
  <2>1. ASSUME NEW t \in Services, t # s PROVE calls'[t] = calls[t] /\ ops'[t] = ops[t]
    BY <1>3, <1>4, <2>1 DEF Ops
  <2>2. NoCall.pc \notin Pending
    BY <1>2 DEF Pending, Doubtful
  <2>. QED
    BY <1>3, <2>1, <2>2 DEF IncidentInv, OwnEntries
<1>. QED
  BY <1>1, <1>3, <1>4, <1>5, <1>6, <1>7, <1>8, <1>9 DEF IncidentInv

LEMMA IncidentInvStep == IncidentInv /\ [IncidentNext]_incidentVars => IncidentInv'
<1> SUFFICES ASSUME IncidentInv, [IncidentNext]_incidentVars PROVE IncidentInv'
  OBVIOUS
<1>1. ASSUME NEW s \in Services, NEW i \in Incidents, At(s, "idle"), Operation(s, i)
      PROVE  IncidentInv'
  BY <1>1, BeginKeeps
<1>2. ASSUME NEW s \in Services,
             Attempt(s) \/ ReadBack(s) \/ Recheck(s) \/ Retry(s) \/ Reread(s)
      PROVE  IncidentInv'
  BY <1>2, CallKinds, ContinueKeeps, AnswerKeeps, WriteKeeps
<1>3. ASSUME NEW s \in Services, Return(s) PROVE IncidentInv'
  BY <1>3, ReturnKeeps
<1>4. CASE UNCHANGED incidentVars
  <2>1. incidents' = incidents /\ ops' = ops /\ calls' = calls
    BY <1>4 DEF incidentVars
  <2>2. /\ \A s \in Services : Called(s)' = Called(s)
        /\ MadeFromLatest' = MadeFromLatest /\ Written' = Written /\ LogInv' = LogInv
        /\ OwnEntries' = OwnEntries
    BY <2>1 DEF Called, At, MadeFromLatest, MadeFrom, Written, LogInv, OwnEntries
  <2>. QED
    BY <2>1, <2>2 DEF IncidentInv
<1>. QED
  BY <1>1, <1>2, <1>3, <1>4 DEF IncidentNext

LEMMA IncidentInvAlways == IncidentSpec => []IncidentInv
  BY IncidentInvInit, IncidentInvStep, PTL DEF IncidentSpec

-----------------------------------------------------------------------------
(* The theorems.                                                            *)

LEMMA IncidentInvImplies == IncidentInv => IncidentTypeOK /\ ClosedWasRecovered
<1> SUFFICES ASSUME IncidentInv PROVE IncidentTypeOK /\ ClosedWasRecovered
  OBVIOUS
<1>1. IncidentTypeOK
  BY DEF IncidentInv, IncidentTypeOK, Lawful, CallRecord, Entry
<1>2. ASSUME NEW i \in Incidents
      PROVE  LET r == incidents[i] IN
             /\ r.status \in {"RESOLVED", "CLOSED"} =>
                  /\ PhaseIndex[r.phase] >= PhaseIndex["VERIFY"] /\ r.recovery = "RECOVERED"
                  /\ r.evidence # {}
                  /\ r.revision > PhaseIndex["VERIFY"] + Len(r.transfers)
                                   + (IF r.acknowledged THEN 1 ELSE 0)
             /\ Chained(r)
  <2> DEFINE r == incidents[i]
             acks == IF r.acknowledged THEN 1 ELSE 0
  <2>1. Lawful(r) /\ r.transfers \in Seq(Transfer) /\ r.revision \in Nat
    BY DEF IncidentInv, Lawful, Record
  <2>2. Len(r.transfers) \in Nat /\ acks \in Nat
    BY <2>1, LenProperties
  <2>3. Moves(r) = PhaseIndex[r.phase] + Len(r.transfers) + acks
    BY DEF Moves
  <2> HIDE DEF acks
  <2>4. r.status \in {"RESOLVED", "CLOSED"} =>
          /\ r.revision = PhaseIndex[r.phase] + Len(r.transfers) + acks + 1
          /\ r.recovery = "RECOVERED" /\ r.evidence # {}
          /\ r.phase \in {"VERIFY", "CLOSE", "POST_INCIDENT_REVIEW"}
    BY <2>1, <2>3 DEF Lawful
  <2>5. r.status \in {"RESOLVED", "CLOSED"} =>
          /\ PhaseIndex[r.phase] >= PhaseIndex["VERIFY"]
          /\ r.revision > PhaseIndex["VERIFY"] + Len(r.transfers) + acks
    BY SMTT(30), <2>2, <2>4, PhasePlaces
  <2>6. Chained(r)
    BY <2>1 DEF Lawful
  <2>. QED
    BY <2>4, <2>5, <2>6 DEF acks
<1>3. ClosedWasRecovered
  BY <1>2 DEF ClosedWasRecovered, Chained
<1>. QED
  BY <1>1, <1>3

\* The state is well formed and every record keeps to the limits of the
\* contract: createIncident, boundedRefArray and the transfers never build a
\* record that the store should not hold.
THEOREM IncidentTypeCorrect == IncidentSpec => []IncidentTypeOK
  BY IncidentInvAlways, IncidentInvImplies, PTL

\* However stale requests, repeated ids and ambiguous writes interleave, an
\* incident that resolveIncident or closeIncident ended was taken through
\* every phase, recovered, and has evidence and an unbroken chain of command.
THEOREM ClosedAreRecovered == IncidentSpec => []ClosedWasRecovered
  BY IncidentInvAlways, IncidentInvImplies, PTL

LEMMA ChangesBuild ==
  ASSUME IncidentInv, [IncidentNext]_incidentVars, NEW i \in Incidents,
         incidents'[i] # incidents[i]
  PROVE  BuildsOn(incidents[i], incidents'[i])
<1>1. PICK s \in Services :
        \/ At(s, "idle") /\ \E j \in Incidents : Operation(s, j)
        \/ Attempt(s) \/ ReadBack(s) \/ Recheck(s) \/ Retry(s) \/ Reread(s) \/ Return(s)
  BY DEF IncidentNext, incidentVars
<1>2. ~(\E j \in Incidents : Operation(s, j)) /\ ~Return(s)
  BY OperationProposes DEF Return
<1>3. calls[s].pc \in Pending /\ Writes(s)
  BY <1>1, <1>2, CallKinds DEF Continues, Answers
<1>4. BuildsOn(incidents[calls[s].incident], calls[s].record)
  BY <1>3, WriteBuilds DEF Writes
<1>5. i = calls[s].incident /\ incidents'[i] = calls[s].record
  BY <1>3 DEF Writes, IncidentInv
<1>. QED
  BY <1>4, <1>5

\* #commit under an expected revision: whatever the store holds is replaced
\* only by the record that was made from it.
THEOREM ChangesBuildOnLatest == IncidentSpec => BuildsOnLatest
<1> DEFINE Step == \A i \in Incidents :
             incidents'[i] # incidents[i] => BuildsOn(incidents[i], incidents'[i])
<1>1. IncidentInv /\ [IncidentNext]_incidentVars => [Step]_incidents
  BY ChangesBuild
<1>2. [Step]_incidents =>
        [\A i \in Incidents : LET old == incidents[i]  new == incidents'[i] IN
           new # old =>
             /\ new.revision = old.revision + 1
             /\ PhaseIndex[new.phase] \in PhaseIndex[old.phase]..(PhaseIndex[old.phase] + 1)
             /\ IsPrefix(old.transfers, new.transfers)
             /\ old.evidence \subseteq new.evidence
             /\ old.acknowledged => new.acknowledged
             /\ <<old.status, new.status>> \in
                  { <<"ABSENT", "OPEN">>, <<"OPEN", "OPEN">>, <<"OPEN", "RESOLVED">>,
                    <<"RESOLVED", "CLOSED">>, <<"CLOSED", "CLOSED">> }]_incidents
  BY DEF BuildsOn
<1>. QED
  BY <1>1, <1>2, IncidentInvAlways, PTL DEF IncidentSpec, BuildsOnLatest

-----------------------------------------------------------------------------
(* The refinement of OperationLog: what the log holds under a key, and what *)
(* is seen of a call.                                                       *)

LogOf(o, j) == IF Logged(o, j) THEN LoggedRecord(o, j) ELSE None

logNow == [k \in Ops \X Incidents |-> LogOf(k[1], k[2])]

CallSeen(c) ==
  [ state |-> Progress(c.pc),
    key   |-> IF c.pc = "idle" THEN None ELSE <<c.op, c.incident>>,
    value |-> IF c.pc \in {"attempt"} \cup Doubtful THEN c.record ELSE None,
    wrote |-> c.wrote ]

callNow == [s \in Services |-> CallSeen(calls[s])]

LEMMA CallSeenChanges ==
  ASSUME calls \in [Services -> CallRecord], NEW s \in Services, NEW c,
         calls' = [calls EXCEPT ![s] = c]
  PROVE  callNow' = [callNow EXCEPT ![s] = CallSeen(c)]
  BY DEF callNow

LEMMA SameLog == ASSUME UNCHANGED ops PROVE logNow' = logNow
  BY DEF logNow, LogOf, Logged, LoggedRecord

\* What a key has is a record, never None.
LEMMA LoggedIsRecord ==
  ASSUME IncidentInv, NEW o \in Ops, NEW j \in Incidents
  PROVE  Logged(o, j) => LoggedRecord(o, j) \in Record /\ LoggedRecord(o, j) # None
<1> SUFFICES ASSUME Logged(o, j) PROVE LoggedRecord(o, j) \in Record
  BY NoneAssumption
<1>1. PICK k \in DOMAIN ops[o] : ops[o][k].incident = j
  BY DEF Logged
<1>2. OneEntry(ops[o]) /\ ops[o] \in Seq(Entry)
  BY DEF IncidentInv, LogInv, OneEntry
<1>3. LoggedRecord(o, j) = ops[o][k].record
  BY <1>1, <1>2, LoggedIsEntry
<1>4. ops[o][k] \in Entry
  BY <1>2
<1>. QED
  BY <1>3, <1>4 DEF Entry

\* A call in progress that wrote finds what it wrote.
LEMMA WroteIsLogged ==
  ASSUME IncidentInv, NEW s \in Services, calls[s].pc \in Pending, calls[s].wrote
  PROVE  /\ Logged(calls[s].op, calls[s].incident)
         /\ LoggedRecord(calls[s].op, calls[s].incident) = calls[s].record
<1>1. PICK k \in DOMAIN ops[calls[s].op] :
        /\ ops[calls[s].op][k].incident = calls[s].incident
        /\ ops[calls[s].op][k].record = calls[s].record
  BY DEF IncidentInv, Written, HasEntry
<1>2. PICK op \in Ops : op = calls[s].op
  BY DEF IncidentInv, Called, At, Pending, Doubtful, Ops
<1>3. OneEntry(ops[op])
  BY DEF IncidentInv, LogInv, OneEntry
<1>4. /\ Logged(op, ops[op][k].incident)
      /\ LoggedRecord(op, ops[op][k].incident) = ops[op][k].record
  BY <1>1, <1>2, <1>3, LoggedIsEntry
<1>. QED
  BY <1>1, <1>2, <1>4

\* What a call in progress wrote, or finds under a fresh id, is its own.
LEMMA FreshIsOwn ==
  ASSUME IncidentInv, NEW s \in Services, calls[s].pc \in Pending, calls[s].op \in Services,
         Logged(calls[s].op, calls[s].incident)
  PROVE  LoggedRecord(calls[s].op, calls[s].incident) = calls[s].record
<1>1. calls[s].op = s
  BY IdsAssumption DEF IncidentInv, Called, At, Pending, Doubtful
<1>2. PICK k \in DOMAIN ops[s] : ops[s][k].incident = calls[s].incident
  BY <1>1 DEF Logged
<1>3. OneEntry(ops[s])
  BY DEF IncidentInv, LogInv, OneEntry, Ops
<1>4. LoggedRecord(s, ops[s][k].incident) = ops[s][k].record
  BY <1>2, <1>3, LoggedIsEntry
<1>5. ops[s][k].record = calls[s].record
  BY <1>2 DEF IncidentInv, OwnEntries
<1>. QED
  BY <1>1, <1>2, <1>4, <1>5

\* The call that a service has in progress, as OperationLog sees it.
LEMMA PendingWaits ==
  ASSUME IncidentInv, NEW s \in Services, calls[s].pc \in Pending
  PROVE  /\ callNow[s].key = <<calls[s].op, calls[s].incident>>
         /\ callNow[s].key \in Ops \X Incidents /\ callNow[s].key # None
         /\ callNow[s].value = calls[s].record /\ callNow[s].value # None
         /\ callNow[s].wrote = calls[s].wrote
         /\ callNow[s].state = IF calls[s].pc = "attempt" THEN "asked" ELSE "doubtful"
<1>1. /\ calls[s].op \in Ops /\ calls[s].incident \in Incidents /\ calls[s].pc # "idle"
      /\ calls[s].record \in Record
  BY DEF IncidentInv, Called, At, Pending, Doubtful, Ops, CallRecord
<1>2. Progress(calls[s].pc) = IF calls[s].pc = "attempt" THEN "asked" ELSE "doubtful"
  BY DEF Progress, Pending, Doubtful
<1>3. calls[s].pc \in {"attempt"} \cup Doubtful
  BY DEF Pending
<1>. QED
  BY <1>1, <1>2, <1>3, NoneAssumption DEF callNow, CallSeen

\* A step of a call in progress, as OperationLog sees it.
SeenAs(c, key) ==
  [ state |-> Progress(c.pc), key |-> key,
    value |-> IF c.pc \in Pending THEN c.record ELSE None, wrote |-> c.wrote ]

LEMMA CallMoves ==
  ASSUME IncidentInv, NEW s \in Services, calls[s].pc \in Pending,
         NEW c, calls' = [calls EXCEPT ![s] = c], c.pc # "idle",
         c.op = calls[s].op, c.incident = calls[s].incident
  PROVE  callNow' = [callNow EXCEPT ![s] = SeenAs(c, callNow[s].key)]
<1>1. callNow' = [callNow EXCEPT ![s] = CallSeen(c)]
  BY CallSeenChanges DEF IncidentInv
<1>2. PICK key : key = callNow[s].key
  OBVIOUS
<1>3. <<c.op, c.incident>> = key
  BY <1>2, PendingWaits
<1>4. CallSeen(c) = SeenAs(c, key)
  BY <1>3 DEF CallSeen, SeenAs, Pending
<1>. QED
  BY <1>1, <1>2, <1>4

LEMMA AskRefines ==
  ASSUME IncidentInv, NEW s \in Services, NEW i \in Incidents, At(s, "idle"), Operation(s, i)
  PROVE  Log!Ask(s) /\ callNow'[s] # callNow[s]
<1>1. UNCHANGED <<incidents, ops>> /\ Proposes(s, i)
  BY OperationProposes
<1>2. PICK op \in SharedOps \cup {s}, expected \in Nat \cup {NoRevision}, r \in Record :
        Commit(s, op, i, expected, r)
  BY <1>1 DEF Proposes
<1> DEFINE c == [ NoCall EXCEPT !.pc = "attempt", !.op = op, !.incident = i,
                                !.expected = expected, !.record = r ]
<1>3. calls' = [calls EXCEPT ![s] = c]
  BY <1>2 DEF Commit
<1>4. c.pc = "attempt" /\ c.op = op /\ c.incident = i /\ c.record = r /\ c.wrote = FALSE
  BY DEF NoCall
<1> HIDE DEF c
<1>5. PICK k : k = <<op, i>>
  OBVIOUS
<1>6. CallSeen(c) = [state |-> "asked", key |-> k, value |-> r, wrote |-> FALSE]
  <2>1. Progress("attempt") = "asked"
    BY DEF Progress, Doubtful
  <2>. QED
    BY <1>4, <1>5, <2>1 DEF CallSeen
<1>7. callNow[s] = [state |-> "none", key |-> None, value |-> None, wrote |-> FALSE]
  <2>1. calls[s] = NoCall
    BY DEF IncidentInv, Called, At
  <2>2. CallSeen(NoCall) = [state |-> "none", key |-> None, value |-> None, wrote |-> FALSE]
    BY DEF NoCall, CallSeen, Progress, Doubtful
  <2>. QED
    BY <2>1, <2>2 DEF callNow
<1>8. k \in Ops \X Incidents /\ r # None
  BY <1>5, NoneAssumption DEF Ops
<1>9. callNow' = [callNow EXCEPT ![s] =
                    [state |-> "asked", key |-> k, value |-> r, wrote |-> FALSE]]
  BY <1>3, <1>6, CallSeenChanges DEF IncidentInv
<1>10. callNow'[s] = [state |-> "asked", key |-> k, value |-> r, wrote |-> FALSE]
  BY <1>9 DEF callNow
<1>11. callNow'[s] # callNow[s]
  BY <1>7, <1>10
<1>12. callNow'[s].value = r
  BY <1>10
<1>13. logNow' = logNow
  BY <1>1, SameLog
<1>. QED
  BY <1>7, <1>8, <1>9, <1>11, <1>12, <1>13
  DEF Log!Ask, Log!NoCall, callNow, logNow, CallSeen, LogOf, At

\* A put that is answered AMBIGUOUS leaves the call in doubt; what comes then, but for
\* the answer, is not seen.
LEMMA ContinueRefines ==
  ASSUME IncidentInv, NEW s \in Services, calls[s].pc \in Pending, Continues(s)
  PROVE  \/ callNow' = callNow /\ logNow' = logNow
         \/ Log!Doubt(s) /\ callNow'[s] # callNow[s]
<1>1. PICK p \in Doubtful : calls' = [calls EXCEPT ![s].pc = p]
  BY DEF Continues
<1> DEFINE c == [calls[s] EXCEPT !.pc = p]
<1>2. calls' = [calls EXCEPT ![s] = c] /\ c.pc = p /\ c.op = calls[s].op
      /\ c.incident = calls[s].incident /\ c.record = calls[s].record /\ c.wrote = calls[s].wrote
  BY <1>1 DEF IncidentInv, CallRecord
<1> HIDE DEF c
<1>3. PICK wrote, value : wrote = c.wrote /\ value = c.record
  OBVIOUS
<1>4. wrote = callNow[s].wrote /\ value = callNow[s].value
  BY <1>2, <1>3, PendingWaits
<1>5. p # "idle" /\ p \in Pending /\ Progress(p) = "doubtful"
  BY DEF Progress, Pending, Doubtful
<1>6. callNow' = [callNow EXCEPT ![s] =
                    [ state |-> "doubtful", key |-> callNow[s].key,
                      value |-> value, wrote |-> wrote ]]
  <2>1. callNow' = [callNow EXCEPT ![s] = SeenAs(c, callNow[s].key)]
    BY <1>2, <1>5, CallMoves
  <2>2. PICK key : key = callNow[s].key
    OBVIOUS
  <2>3. SeenAs(c, key) = [state |-> "doubtful", key |-> key, value |-> value, wrote |-> wrote]
    BY <1>2, <1>3, <1>5 DEF SeenAs
  <2>. QED
    BY <2>1, <2>2, <2>3
<1>7. logNow' = logNow
  BY SameLog DEF Continues
<1>8. CASE calls[s].pc = "attempt"
  <2>1. callNow[s].state = "asked"
    BY <1>8, PendingWaits
  <2>2. callNow'[s] # callNow[s]
    BY <1>6, <2>1 DEF callNow
  <2>3. callNow' = [callNow EXCEPT ![s] =
                      [ state |-> "doubtful", key |-> callNow[s].key,
                        value |-> callNow[s].value, wrote |-> callNow[s].wrote ]]
    BY <1>4, <1>6
  <2>. QED
    BY <1>7, <2>1, <2>2, <2>3
    DEF Log!Doubt, Log!Proceed, callNow, logNow, CallSeen, LogOf, At
<1>9. CASE calls[s].pc # "attempt"
  <2>1. Progress(calls[s].pc) = "doubtful"
    BY <1>9 DEF Progress, Pending, Doubtful
  <2>2. CallSeen(c) = CallSeen(calls[s])
    BY <1>2, <1>5, <2>1 DEF CallSeen, Pending, Doubtful
  <2>3. callNow' = callNow
    BY <1>2, <2>2, CallSeenChanges DEF IncidentInv, callNow
  <2>. QED
    BY <1>7, <2>3
<1>. QED
  BY <1>8, <1>9

LEMMA TellRefines ==
  ASSUME IncidentInv, NEW s \in Services, calls[s].pc \in Pending, Answers(s)
  PROVE  Log!Tell(s) /\ callNow'[s] # callNow[s]
<1>1. PICK answer \in {"recorded", "refused", "unknown"} :
        /\ calls' = [calls EXCEPT ![s] = Answered(calls[s], answer)]
        /\ answer = "recorded" => Finds(s)
        /\ answer = "refused" => Refused(s)
  BY DEF Answers
<1> DEFINE c == Answered(calls[s], answer)
<1>2. /\ c.pc = answer /\ c.op = calls[s].op /\ c.incident = calls[s].incident
      /\ c.wrote = calls[s].wrote
  BY DEF Answered, IncidentInv, CallRecord
<1>3. calls' = [calls EXCEPT ![s] = c]
  BY <1>1
<1> HIDE DEF c
<1>4. answer \notin Pending /\ answer # "idle" /\ Progress(answer) = answer
  BY DEF Progress, Pending, Doubtful
<1>5. PICK wrote : wrote = callNow[s].wrote
  OBVIOUS
<1>6. wrote = c.wrote /\ calls[s].wrote = wrote /\ wrote \in BOOLEAN
  BY <1>2, <1>5, PendingWaits DEF IncidentInv, CallRecord
<1>7. callNow' = [callNow EXCEPT ![s] =
                    [state |-> answer, key |-> callNow[s].key, value |-> None, wrote |-> wrote]]
  <2>1. callNow' = [callNow EXCEPT ![s] = SeenAs(c, callNow[s].key)]
    BY <1>2, <1>3, <1>4, CallMoves
  <2>2. PICK key : key = callNow[s].key
    OBVIOUS
  <2>3. SeenAs(c, key) = [state |-> answer, key |-> key, value |-> None, wrote |-> wrote]
    BY <1>2, <1>4, <1>6 DEF SeenAs
  <2>. QED
    BY <2>1, <2>2, <2>3
<1>8. Log!Waiting(s)
  BY PendingWaits DEF Log!Waiting, callNow, CallSeen, At
<1>9. answer = "recorded" => Log!Found(s)
  <2> SUFFICES ASSUME answer = "recorded" PROVE Log!Found(s)
    OBVIOUS
  <2>1. PICK op \in Ops, i \in Incidents : op = calls[s].op /\ i = calls[s].incident
    BY DEF IncidentInv, Called, At, Pending, Doubtful, Ops
  <2>2. PICK k : k = <<op, i>>
    OBVIOUS
  <2>3. Finds(s) /\ Logged(op, i) /\ LoggedRecord(op, i) # None
    BY <1>1, <2>1, LoggedIsRecord DEF Finds
  <2>4. logNow[k] = LoggedRecord(op, i)
    BY <2>1, <2>2, <2>3 DEF logNow, LogOf
  <2>5. callNow[s].key = k /\ callNow[s].value = calls[s].record
    BY <2>1, <2>2, PendingWaits
  <2>6. \/ logNow[callNow[s].key] = callNow[s].value
        \/ /\ callNow[s].state = "doubtful" /\ callNow[s].key \notin Services \X Incidents
           /\ logNow[callNow[s].key] # None
    <3>1. CASE LoggedRecord(op, i) = calls[s].record
      BY <2>4, <2>5, <3>1
    <3>2. CASE LoggedRecord(op, i) # calls[s].record
      <4>1. op \notin Services
        BY <2>1, <2>3, <3>2, FreshIsOwn
      <4>2. calls[s].pc \in Doubtful
        BY <2>1, <2>3, <3>2 DEF Finds
      <4>3. callNow[s].state = "doubtful"
        BY <4>2, PendingWaits DEF Doubtful
      <4>. QED
        BY <2>2, <2>3, <2>4, <2>5, <4>1, <4>3
    <3>. QED
      BY <3>1, <3>2
  <2>. QED
    BY <2>6 DEF Log!Found, callNow, logNow, CallSeen, LogOf, At
<1>10. answer = "refused" => ~wrote
  BY <1>1, <1>6, WroteIsLogged DEF Refused, PutAnswer
<1>11. callNow'[s] # callNow[s]
  <2>1. callNow'[s].value = None
    BY <1>7 DEF callNow
  <2>. QED
    BY <2>1, PendingWaits
<1>12. logNow' = logNow
  BY SameLog DEF Answers
<1>13. callNow' = [callNow EXCEPT ![s] =
                    [ state |-> answer, key |-> callNow[s].key, value |-> None,
                      wrote |-> callNow[s].wrote ]]
  BY <1>5, <1>7
<1>14. \/ Log!Found(s) /\ Log!Answer(s, "recorded", callNow[s].wrote)
       \/ ~callNow[s].wrote /\ Log!Answer(s, "refused", FALSE)
       \/ Log!Answer(s, "unknown", callNow[s].wrote)
  <2>1. CASE answer = "recorded"
    <3>1. Log!Answer(s, "recorded", callNow[s].wrote)
      BY <1>13, <2>1 DEF Log!Answer, callNow, CallSeen, At
    <3>. QED
      BY <1>9, <2>1, <3>1
  <2>2. CASE answer = "refused"
    <3>1. wrote = FALSE
      BY <1>6, <1>10, <2>2
    <3>2. Log!Answer(s, "refused", FALSE)
      BY <1>7, <2>2, <3>1 DEF Log!Answer, callNow, CallSeen, At
    <3>. QED
      BY <1>5, <3>1, <3>2
  <2>3. CASE answer = "unknown"
    <3>1. Log!Answer(s, "unknown", callNow[s].wrote)
      BY <1>13, <2>3 DEF Log!Answer, callNow, CallSeen, At
    <3>. QED
      BY <3>1
  <2>. QED
    BY <2>1, <2>2, <2>3
<1>. QED
  BY <1>8, <1>11, <1>12, <1>14 DEF Log!Tell, callNow, logNow, CallSeen, LogOf, At

LEMMA WriteRefines ==
  ASSUME IncidentInv, NEW s \in Services, calls[s].pc \in Pending, Writes(s)
  PROVE  Log!Write(s) /\ callNow'[s] # callNow[s]
<1>1. PICK op \in Ops, i \in Incidents, r \in Record :
        op = calls[s].op /\ i = calls[s].incident /\ r = calls[s].record
  BY DEF IncidentInv, Called, At, Pending, Doubtful, Ops, CallRecord
<1>2. ~Logged(op, i) /\ Enters(op, i, r)
  BY <1>1 DEF Writes, Enters
<1>3. ops \in [Ops -> Seq(Entry)] /\ \A o \in Ops : OneEntry(ops[o])
  BY DEF IncidentInv, LogInv, OneEntry
<1>4. /\ Logged(op, i)' /\ LoggedRecord(op, i)' = r
      /\ \A o \in Ops, j \in Incidents : o # op \/ j # i =>
           /\ Logged(o, j)' = Logged(o, j)
           /\ LoggedRecord(o, j)' = LoggedRecord(o, j) \/ ~Logged(o, j)
  BY <1>2, <1>3, PutLogs
<1>5. callNow[s].key = <<op, i>> /\ callNow[s].wrote = calls[s].wrote
      /\ callNow[s].value = r
  BY <1>1, PendingWaits
<1>6. ~calls[s].wrote
  BY <1>1, <1>2, WroteIsLogged
<1>7. calls[s].wrote \in BOOLEAN
  BY DEF IncidentInv, CallRecord
<1> DEFINE k == <<op, i>>
<1>8. k \in Ops \X Incidents /\ k[1] = op /\ k[2] = i
  OBVIOUS
<1>9. logNow[k] = None
  BY <1>2, <1>8 DEF logNow, LogOf
<1>10. logNow'[k] = r /\ r # None
  BY <1>4, <1>8, NoneAssumption DEF logNow, LogOf
<1>11. ASSUME NEW l \in Ops \X Incidents, l # k PROVE logNow'[l] = logNow[l]
  <2>1. l[1] \in Ops /\ l[2] \in Incidents /\ (l[1] # op \/ l[2] # i)
    BY <1>11
  <2>2. /\ Logged(l[1], l[2])' = Logged(l[1], l[2])
        /\ LoggedRecord(l[1], l[2])' = LoggedRecord(l[1], l[2]) \/ ~Logged(l[1], l[2])
    BY <1>4, <2>1
  <2>. QED
    BY <2>2 DEF logNow, LogOf
<1>12. logNow' = [logNow EXCEPT ![k] = logNow'[k]]
  BY <1>8, <1>11 DEF logNow
<1>13. PICK c, p, value : /\ calls' = [calls EXCEPT ![s] = c]
                          /\ c.op = calls[s].op /\ c.incident = calls[s].incident
                          /\ c.wrote = TRUE /\ c.pc = p
                          /\ \/ p = "recorded" /\ value = None
                             \/ p \in Doubtful /\ c.record = r /\ value = r
  <2>1. CASE calls' = [calls EXCEPT ![s] =
                         Answered([calls[s] EXCEPT !.wrote = TRUE], "recorded")]
    <3> DEFINE c == Answered([calls[s] EXCEPT !.wrote = TRUE], "recorded")
    <3>1. /\ c.op = calls[s].op /\ c.incident = calls[s].incident /\ c.wrote = TRUE
          /\ c.pc = "recorded"
      BY DEF Answered, IncidentInv, CallRecord
    <3>2. calls' = [calls EXCEPT ![s] = c]
      BY <2>1
    <3> HIDE DEF c
    <3>. QED
      BY <3>1, <3>2
  <2>2. ASSUME NEW p \in Doubtful,
               calls' = [calls EXCEPT ![s] = [calls[s] EXCEPT !.wrote = TRUE, !.pc = p]]
        PROVE  \E c : /\ calls' = [calls EXCEPT ![s] = c]
                      /\ c.op = calls[s].op /\ c.incident = calls[s].incident
                      /\ c.wrote = TRUE /\ c.pc = p /\ c.record = r
    <3> DEFINE c == [calls[s] EXCEPT !.wrote = TRUE, !.pc = p]
    <3>1. /\ c.op = calls[s].op /\ c.incident = calls[s].incident /\ c.wrote = TRUE
          /\ c.pc = p /\ c.record = r
      BY <1>1 DEF IncidentInv, CallRecord
    <3>2. calls' = [calls EXCEPT ![s] = c]
      BY <2>2
    <3> HIDE DEF c
    <3>. QED
      BY <3>1, <3>2
  <2>. QED
    BY <2>1, <2>2 DEF Writes
<1>14. value = (IF p \in Pending THEN c.record ELSE None) /\ p # "idle"
       /\ Progress(p) = IF p = "recorded" THEN "recorded" ELSE "doubtful"
  BY <1>13 DEF Pending, Doubtful, Progress
<1>15. callNow' = [callNow EXCEPT ![s] =
                     [ state |-> Progress(p), key |-> callNow[s].key,
                       value |-> value, wrote |-> TRUE ]]
  <2>1. callNow' = [callNow EXCEPT ![s] = SeenAs(c, callNow[s].key)]
    BY <1>13, <1>14, CallMoves
  <2>2. PICK key, state, wrote : key = callNow[s].key /\ state = Progress(p) /\ wrote = c.wrote
    OBVIOUS
  <2>3. SeenAs(c, key) = [state |-> state, key |-> key, value |-> value, wrote |-> wrote]
    BY <1>13, <1>14, <2>2 DEF SeenAs
  <2>4. wrote = TRUE
    BY <1>13, <2>2
  <2>. QED
    BY <2>1, <2>2, <2>3, <2>4
<1>16. callNow'[s] # callNow[s]
  <2>1. callNow'[s].wrote = TRUE
    BY <1>15 DEF callNow
  <2>. QED
    BY <1>5, <1>6, <2>1
<1> HIDE DEF k
<1>17. callNow[s].key = k
  BY <1>5 DEF k
<1>18. Log!Proceed(s, "doubtful", TRUE) \/ Log!Answer(s, "recorded", TRUE)
  <2>1. CASE p = "recorded"
    <3>1. callNow' = [callNow EXCEPT ![s] =
                        [ state |-> "recorded", key |-> callNow[s].key,
                          value |-> None, wrote |-> TRUE ]]
      BY <1>13, <1>14, <1>15, <2>1 DEF Doubtful
    <3>. QED
      BY <3>1 DEF Log!Answer, callNow, CallSeen, At
  <2>2. CASE p # "recorded"
    <3>1. callNow' = [callNow EXCEPT ![s] =
                        [ state |-> "doubtful", key |-> callNow[s].key,
                          value |-> callNow[s].value, wrote |-> TRUE ]]
      BY <1>5, <1>13, <1>14, <1>15, <2>2
    <3>. QED
      BY <3>1 DEF Log!Proceed, callNow, CallSeen, At
  <2>. QED
    BY <2>1, <2>2
<1>19. Log!Waiting(s)
  BY PendingWaits DEF Log!Waiting, callNow, CallSeen, At
<1>20. logNow' = [logNow EXCEPT ![k] = callNow[s].value]
  BY <1>5, <1>10, <1>12
<1>. QED
  BY <1>5, <1>6, <1>9, <1>16, <1>17, <1>18, <1>19, <1>20
  DEF Log!Write, callNow, logNow, CallSeen, LogOf, At

LEMMA ReturnRefines ==
  ASSUME IncidentInv, NEW s \in Services, Return(s)
  PROVE  Log!Return(s) /\ callNow'[s] # callNow[s]
<1>1. /\ calls[s].pc \in {"recorded", "refused", "unknown"}
      /\ calls' = [calls EXCEPT ![s] = NoCall] /\ ops' = [ops EXCEPT ![s] = <<>>]
  BY DEF Return
<1>2. PICK op \in SharedOps \cup {s}, i \in Incidents :
        op = calls[s].op /\ i = calls[s].incident
  BY <1>1 DEF IncidentInv, Called, At
<1>3. callNow[s].key = <<op, i>> /\ callNow[s].state = calls[s].pc
      /\ callNow[s].state \in {"recorded", "refused", "unknown"}
  BY <1>1, <1>2 DEF callNow, CallSeen, Progress, Doubtful
<1>4. CallSeen(NoCall) = [state |-> "none", key |-> None, value |-> None, wrote |-> FALSE]
  BY DEF CallSeen, NoCall, Progress, Doubtful
<1>5. callNow' = [callNow EXCEPT ![s] =
                    [state |-> "none", key |-> None, value |-> None, wrote |-> FALSE]]
  BY <1>1, <1>4, CallSeenChanges DEF IncidentInv
<1>6. callNow'[s] # callNow[s]
  BY <1>3, <1>5 DEF callNow
<1>7. s \in Ops /\ ops \in [Ops -> Seq(Entry)]
  BY DEF Ops, IncidentInv
<1>8. CASE op = s
  <2>1. \A j \in Incidents : Logged(s, j) => j = i
    BY <1>2, <1>8 DEF IncidentInv, LogInv, Logged
  <2>2. \A j \in Incidents : ~Logged(s, j)'
    BY <1>1, <1>7 DEF Logged
  <2>3. \A o \in Ops, j \in Incidents : o # s =>
          Logged(o, j)' = Logged(o, j) /\ LoggedRecord(o, j)' = LoggedRecord(o, j)
    BY <1>1, <1>7 DEF Logged, LoggedRecord
  <2> DEFINE k == <<s, i>>
  <2>4. k \in Ops \X Incidents /\ k \in Services \X Incidents
    BY <1>7
  <2>5. logNow'[k] = None
    BY <2>2, <2>4 DEF logNow, LogOf
  <2>6. ASSUME NEW l \in Ops \X Incidents, l # k PROVE logNow'[l] = logNow[l]
    <3>1. l[1] \in Ops /\ l[2] \in Incidents /\ (l[1] # s \/ l[2] # i)
      BY <2>6
    <3>2. CASE l[1] # s
      <4>1. /\ Logged(l[1], l[2])' = Logged(l[1], l[2])
            /\ LoggedRecord(l[1], l[2])' = LoggedRecord(l[1], l[2])
        BY <2>3, <3>1, <3>2
      <4>. QED
        BY <4>1 DEF logNow, LogOf
    <3>3. CASE l[1] = s
      <4>1. ~Logged(l[1], l[2])' /\ ~Logged(l[1], l[2])
        <5>1. PICK j \in Incidents : j = l[2]
          BY <3>1
        <5>2. ~Logged(s, j)' /\ ~Logged(s, j)
          BY <2>1, <2>2, <3>1, <3>3, <5>1
        <5>. QED
          BY <3>3, <5>1, <5>2
      <4>. QED
        BY <4>1 DEF logNow, LogOf
    <3>. QED
      BY <3>2, <3>3
  <2>7. logNow' = [logNow EXCEPT ![k] = None]
    BY <2>4, <2>5, <2>6 DEF logNow
  <2>8. callNow[s].key = k /\ k \in Services \X Incidents
    BY <1>3, <1>8, <2>4
  <2> HIDE DEF k
  <2>. QED
    BY <1>3, <1>5, <1>6, <2>7, <2>8
    DEF Log!Return, Log!NoCall, callNow, logNow, CallSeen, LogOf, At
<1>9. CASE op # s
  <2>1. op \notin Services
    BY <1>2, <1>9, IdsAssumption
  <2>2. DOMAIN ops[s] = {}
    BY <1>2, <1>9 DEF IncidentInv, LogInv
  <2>3. ops[s] = <<>>
    <3>1. ops[s] \in Seq(Entry) /\ DOMAIN ops[s] = 1..Len(ops[s]) /\ Len(ops[s]) \in Nat
      BY <1>7, LenProperties
    <3>3. 1 \notin 1..Len(ops[s])
      BY <2>2, <3>1
    <3>2. Len(ops[s]) = 0
      BY <3>1, <3>3
    <3>. QED
      BY <3>1, <3>2, EmptySeq
  <2>4. logNow' = logNow
    BY <1>1, <1>7, <2>3, SameLog
  <2>5. callNow[s].key \notin Services \X Incidents
    BY <1>3, <2>1
  <2>. QED
    BY <1>3, <1>5, <1>6, <2>4, <2>5
    DEF Log!Return, Log!NoCall, callNow, logNow, CallSeen, LogOf, At
<1>. QED
  BY <1>8, <1>9

LEMMA IncidentLogInit == IncidentInit /\ IncidentInv => Log!LogInit
<1> SUFFICES ASSUME IncidentInit, IncidentInv PROVE Log!LogInit
  OBVIOUS
<1>1. callNow = [s \in Services |->
                   [state |-> "none", key |-> None, value |-> None, wrote |-> FALSE]]
  BY DEF IncidentInit, callNow, CallSeen, NoCall, Progress, Doubtful
<1>2. ASSUME NEW k \in Services \X Incidents PROVE logNow[k] = None
  <2>1. k[1] \in Services /\ k[2] \in Incidents /\ k \in Ops \X Incidents
    BY DEF Ops
  <2>2. calls[k[1]].op # k[1]
    BY <2>1, IdsAssumption DEF IncidentInit, NoCall
  <2>3. ~Logged(k[1], k[2])
    BY <2>1, <2>2 DEF IncidentInv, LogInv, Logged
  <2>. QED
    BY <2>1, <2>3 DEF logNow, LogOf
<1>3. DOMAIN logNow = Ops \X Incidents
  BY DEF logNow
<1>. QED
  BY <1>1, <1>2, <1>3 DEF Log!LogInit, Log!NoCall, callNow, logNow, CallSeen, LogOf, At

LEMMA IncidentLogStep ==
  ASSUME IncidentInv, [IncidentNext]_incidentVars PROVE [Log!LogNext]_Log!logVars
<1>1. ASSUME NEW s \in Services,
             Log!Ask(s) \/ Log!Write(s) \/ Log!Doubt(s) \/ Log!Tell(s) \/ Log!Return(s),
             callNow'[s] # callNow[s]
      PROVE  Log!LogNext
  BY <1>1 DEF Log!LogNext, callNow, CallSeen, At
<1>2. callNow' = callNow /\ logNow' = logNow => UNCHANGED Log!logVars
  BY DEF Log!logVars, callNow, logNow, CallSeen, LogOf, At
<1>3. CASE UNCHANGED incidentVars
  <2>1. callNow' = callNow /\ logNow' = logNow
    BY <1>3, SameLog DEF incidentVars, callNow
  <2>. QED
    BY <1>2, <2>1
<1>4. CASE IncidentNext
  <2>1. PICK s \in Services :
          \/ At(s, "idle") /\ \E i \in Incidents : Operation(s, i)
          \/ Attempt(s) \/ ReadBack(s) \/ Recheck(s) \/ Retry(s) \/ Reread(s) \/ Return(s)
    BY <1>4 DEF IncidentNext
  <2>2. CASE At(s, "idle") /\ \E i \in Incidents : Operation(s, i)
    BY <1>1, <2>2, AskRefines
  <2>3. CASE Return(s)
    BY <1>1, <2>3, ReturnRefines
  <2>4. CASE Attempt(s) \/ ReadBack(s) \/ Recheck(s) \/ Retry(s) \/ Reread(s)
    <3>1. calls[s].pc \in Pending /\ (Continues(s) \/ Answers(s) \/ Writes(s))
      BY <2>4, CallKinds
    <3>. QED
      BY <1>1, <1>2, <3>1, ContinueRefines, TellRefines, WriteRefines
  <2>. QED
    BY <2>1, <2>2, <2>3, <2>4
<1>. QED
  BY <1>3, <1>4

\* #commit: nothing is recorded twice, a refusal is only said of what was not
\* written, and "recorded" only of the record that was asked for, whatever the
\* store's ambiguous answers; but for an id that callers share, where a call in
\* doubt may be told so of another's record.
THEOREM IncidentsKeepCommits == IncidentSpec => CommitsKept
<1>1. IncidentInit /\ IncidentInv => Log!LogInit
  BY IncidentLogInit
<1>2. IncidentInv /\ [IncidentNext]_incidentVars => [Log!LogNext]_Log!logVars
  BY IncidentLogStep
<1>. QED
  BY <1>1, <1>2, IncidentInvAlways, PTL DEF IncidentSpec, CommitsKept, Log!LogSpec
===============================================================================
