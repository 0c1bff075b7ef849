------------------------------ MODULE Workforce ------------------------------
(***************************************************************************)
(* WorkforceService over the workforce store, as several service instances  *)
(* share one store: the standing of agents, their qualifications, the       *)
(* evidence about their work, what it is attributed to, and the AgentOps    *)
(* evaluations made from these.                                             *)
(*                                                                          *)
(* A call first looks its operation id up, reads what it needs, makes the   *)
(* record and commits it.  As in Incident, every put and every read-back of *)
(* an ambiguous put is a step.  Operation ids are global to the store; an   *)
(* instance stands for the fresh id of its own call, SharedOps are reused.  *)
(*                                                                          *)
(* The trusted clocks of the instances agree here; Scheduler and OrgState   *)
(* are about clocks that do not.                                            *)
(***************************************************************************)
EXTENDS Integers, Sequences, FiniteSets, SequencesExt

CONSTANTS
  Services, SharedOps,
  Agents, Roles, Capabilities,
  Qualifications,
  Evidence, Attributions, Evaluations,  \* ids, as sequences in the order of list()
  Requests,        \* what callers ask for
  Employed,        \* agents that have a record to begin with
  None,            \* null
  MaxTime,         \* bound on trusted time
  MaxAsked,        \* bound on the calls
  MaxTransitions,  \* entries of the history within a record, 64
  WindowLength,    \* AGENTOPS_WINDOW_MS
  MaxWindow,       \* MAX_AGENTOPS_WINDOW_EVIDENCE, 20
  FailReview,      \* AGENTOPS_FAIL_REVIEW_THRESHOLD, 2
  ConcernWatch     \* AGENTOPS_CONCERN_WATCH_THRESHOLD, 3

VARIABLES
  store,    \* #records: the current record of each id
  history,  \* #history: what was superseded, oldest first
  ops,      \* #operations: the request recorded under an operation id
  calls,    \* the call a service instance is executing
  now,      \* trusted time
  asked     \* calls so far

workforceVars == <<store, history, ops, calls, now, asked>>

Ops == SharedOps \cup Services
Times == 0..MaxTime
Never == MaxTime + 1   \* expires_at null
NoRevision == -1       \* expectedRevision null

Statuses == {"QUALIFIED", "LIMITED", "RETRAINING", "UNQUALIFIED"}

\* LIFECYCLE_TRANSITIONS
Transitions ==
  [ CANDIDATE  |-> {"ACTIVE", "INACTIVE", "RETIRED"},
    ACTIVE     |-> {"LIMITED", "RETRAINING", "INACTIVE", "RETIRED"},
    LIMITED    |-> {"ACTIVE", "RETRAINING", "INACTIVE", "RETIRED"},
    RETRAINING |-> {"ACTIVE", "LIMITED", "INACTIVE", "RETIRED"},
    INACTIVE   |-> {"ACTIVE", "LIMITED", "RETRAINING", "RETIRED"},
    RETIRED    |-> {} ]

\* NON_EMPLOYEE_CAUSES; the others are EMPLOYEE, MIXED and UNKNOWN.
NonEmployeeCauses ==
  { "RUNTIME_MODEL", "CONTEXT_PACKAGE", "TOOL", "DEPENDENCY", "POLICY_AUTHORIZATION",
    "INFRASTRUCTURE", "EXTERNAL_PROVIDER", "PROCESS_WORKFLOW" }

Causes == NonEmployeeCauses \cup {"EMPLOYEE", "MIXED", "UNKNOWN"}
Observations == {"POSITIVE", "ACCEPTABLE", "CONCERN", "FAIL"}
EvaluationStates == {"NORMAL", "WATCH", "REVIEW"}
AllRecommendations ==
  { "NO_ACTION", "REVIEW_RUNTIME", "REVIEW_CONTEXT", "REVIEW_TOOL", "REVIEW_PROCESS",
    "REQUEST_TRAINING_REVIEW", "REQUEST_WORKFORCE_REVIEW" }

ASSUME LimitsAssumption ==
  /\ MaxTime \in Nat /\ MaxAsked \in Nat /\ MaxTransitions \in Nat
  /\ WindowLength \in Nat /\ MaxWindow \in Nat /\ FailReview \in Nat /\ ConcernWatch \in Nat

Revisioned == Agents \cup Qualifications
EvidenceIds == ToSet(Evidence)
AttributionIds == ToSet(Attributions)
EvaluationIds == ToSet(Evaluations)
Ids == Revisioned \cup EvidenceIds \cup AttributionIds \cup EvaluationIds

\* The store keeps a map for each kind of record.
ASSUME IdsAssumption ==
  /\ \A ids \in {Evidence, Attributions, Evaluations} : ids \in Seq(ToSet(ids)) /\ IsInjective(ids)
  /\ Agents \cap Qualifications = {}
  /\ Revisioned \cap (EvidenceIds \cup AttributionIds \cup EvaluationIds) = {}
  /\ EvidenceIds \cap (AttributionIds \cup EvaluationIds) = {}
  /\ AttributionIds \cap EvaluationIds = {}
  /\ Employed \subseteq Agents
  /\ Services \cap SharedOps = {} /\ None \notin Ops \cup Requests \cup AttributionIds

\* The fields of a request that name something are of its kind (#operationArgs).
ASSUME RequestsAssumption ==
  \A q \in Requests :
    \/ /\ q.action \in {"record.create", "lifecycle.change"}
       /\ q.id \in Agents /\ q.lifecycle \in DOMAIN Transitions
       /\ q.action = "record.create" => q.role \in Roles
       /\ q.action = "lifecycle.change" => q.expected \in Int
    \/ /\ q.action = "role.change"
       /\ q.id \in Agents /\ q.role \in Roles /\ q.expected \in Int
    \/ /\ q.action = "qualification.create"
       /\ q.id \in Qualifications /\ q.agent \in Agents
       /\ q.effective \in Times \cup {None} /\ q.expires \in Times \cup {Never}
    \/ /\ q.action = "qualification.change"
       /\ q.id \in Qualifications /\ q.expected \in Int
       /\ q.expires \in Times \cup {Never, None}
    \/ /\ q.action = "evidence.record"
       /\ q.id \in EvidenceIds /\ q.agent \in Agents
       /\ q.attribution \in AttributionIds \cup {None} /\ q.selfReport \in BOOLEAN
    \/ /\ q.action = "attribution.record"
       /\ q.id \in AttributionIds /\ q.agent \in Agents /\ q.support \subseteq EvidenceIds
    \/ /\ q.action = "agentops.evaluate"
       /\ q.id \in EvaluationIds /\ q.agent \in Agents

NoRecord == [revision |-> 0]
NoRequest == [action |-> "none"]
NoCall ==
  [ pc |-> "idle", op |-> None, request |-> NoRequest, expected |-> NoRevision,
    record |-> NoRecord, wrote |-> FALSE ]

Recorded(id) == id \in Ids /\ store[id] # NoRecord
At(s, pc) == calls[s].pc = pc

ExpiredAt(expires, instant) == expires <= instant

-----------------------------------------------------------------------------
(* The validators, which the service and the store put a record through.    *)

\* What a record was before has earlier revisions, in order.
ValidWorkforceRecord(r) ==
  /\ r.lifecycle \in DOMAIN Transitions /\ r.role \in Roles
  /\ Len(r.history) <= MaxTransitions
  /\ \A k \in DOMAIN r.history :
       /\ r.history[k].revision < r.revision
       /\ k > 1 => r.history[k - 1].revision < r.history[k].revision

ValidQualification(r) == r.status \in Statuses /\ r.effective < r.expires

ValidEvidence(r) ==
  /\ r.observation \in Observations /\ r.authority \in {"AUTHENTICATED", "SELF_REPORT"}
  /\ ~(r.authority = "SELF_REPORT" /\ r.observation = "FAIL")

ValidAttribution(r) == r.cause \in Causes /\ r.support # {}

ValidEvaluation(r) ==
  r.state \in EvaluationStates /\ r.recommendations \subseteq AllRecommendations

Valid(id, r) ==
  /\ id \in Agents => ValidWorkforceRecord(r)
  /\ id \in Qualifications => ValidQualification(r)
  /\ id \in EvidenceIds => ValidEvidence(r)
  /\ id \in AttributionIds => ValidAttribution(r)
  /\ id \in EvaluationIds => ValidEvaluation(r)

-----------------------------------------------------------------------------
(* The store.                                                               *)

\* uniquenessKey: one current qualification for an agent and a capability.
\* Mutant of Shadows: it is not looked for.
ShadowsNothing(id, r) == FALSE

Shadows(id, r) ==
  /\ id \in Qualifications
  /\ \E other \in Qualifications \ {id} :
       /\ Recorded(other)
       /\ store[other].agent = r.agent /\ store[other].capability = r.capability

\* Mutant of RevisionMatches: the record is only compared with what is expected.
RevisionUnchecked(id, expected, r) ==
  IF id \notin Revisioned THEN ~Recorded(id)
  ELSE IF expected = NoRevision THEN ~Recorded(id) /\ r.revision = 1
  ELSE Recorded(id) /\ r.revision = expected + 1

RevisionMatches(id, expected, r) ==
  IF id \notin Revisioned THEN ~Recorded(id)
  ELSE IF expected = NoRevision THEN ~Recorded(id) /\ r.revision = 1
  ELSE /\ Recorded(id)
       /\ store[id].revision = expected
       /\ r.revision = expected + 1

\* Mutant of Reused: an operation id is not compared with those there are.
ReusedUnseen(op, request) == FALSE

Reused(op, request) == ops[op] \notin {None, request}

PutAnswer(c) ==
  IF ops[c.op] = c.request THEN "OP_REPLAY"
  ELSE IF Reused(c.op, c.request) THEN "OP_CONFLICT"
  ELSE IF /\ ~Shadows(c.request.id, c.record)
          /\ RevisionMatches(c.request.id, c.expected, c.record)
       THEN "WRITTEN"
  ELSE "REJECTED"   \* ALREADY_EXISTS, STALE_REVISION

\* historyEntry: what the record that is replaced said.
Superseded(id) ==
  IF id \in Agents
  THEN [ revision |-> store[id].revision, lifecycle |-> store[id].lifecycle, role |-> store[id].role ]
  ELSE [ revision |-> store[id].revision, status |-> store[id].status, expires |-> store[id].expires ]

PutWrites(c) ==
  LET id == c.request.id IN
  /\ store' = [store EXCEPT ![id] = c.record]
  /\ history' = IF id \in Revisioned /\ Recorded(id)
                THEN [history EXCEPT ![id] = Append(@, Superseded(id))] ELSE history
  /\ ops' = [ops EXCEPT ![c.op] = c.request]

\* readOperation of #commit: without a fingerprint, any entry of the id will do.
ReadsBack(op) == ops[op] # None

-----------------------------------------------------------------------------
(* A call.                                                                  *)

Answered(c, answer) ==
  [c EXCEPT !.pc = answer, !.request = NoRequest, !.record = NoRecord, !.expected = NoRevision]

\* A request names the revision its caller expects, which may be current or not.
Ask(s) ==
  /\ At(s, "idle") /\ asked < MaxAsked
  /\ \E op \in SharedOps \cup {s}, request \in Requests :
       calls' = [calls EXCEPT ![s] = [NoCall EXCEPT !.pc = "asked", !.op = op, !.request = request]]
  /\ asked' = asked + 1
  /\ UNCHANGED <<store, history, ops, now>>

\* #replayOperation: an operation id that is known answers the call.
Replay(s) ==
  LET c == calls[s] IN
  /\ At(s, "asked") /\ ops[c.op] # None
  /\ calls' = [calls EXCEPT ![s] =
       Answered(c, IF ops[c.op] = c.request THEN "recorded" ELSE "refused")]
  /\ UNCHANGED <<store, history, ops, now, asked>>

\* The input is malformed, the lookup of the operation throws, or the authorizer,
\* the identity resolver or the evidence intake says no.
Deny(s) ==
  /\ At(s, "asked")
  /\ \E answer \in {"refused", "unknown"} : calls' = [calls EXCEPT ![s] = Answered(@, answer)]
  /\ UNCHANGED <<store, history, ops, now, asked>>

\* An operation: refused, or #commit of the record that is made.
Working(s, action) ==
  /\ At(s, "asked") /\ calls[s].request.action = action
  /\ ops[calls[s].op] = None
  /\ UNCHANGED <<store, history, ops, now, asked>>

Refuse(s) == calls' = [calls EXCEPT ![s] = Answered(@, "refused")]

Commit(s, expected, r) ==
  IF Valid(calls[s].request.id, r)
  THEN calls' = [calls EXCEPT ![s].pc = "attempt", ![s].expected = expected, ![s].record = r]
  ELSE Refuse(s)

\* One put; the store may answer AMBIGUOUS whatever it did.
PutIn(s, ambiguous) ==
  LET c == calls[s]  answer == PutAnswer(c) IN
  /\ \/ /\ answer = "WRITTEN"
        /\ PutWrites(c)
        /\ \/ calls' = [calls EXCEPT ![s] = Answered([c EXCEPT !.wrote = TRUE], "recorded")]
           \/ calls' = [calls EXCEPT ![s] = [c EXCEPT !.wrote = TRUE, !.pc = ambiguous]]
     \/ /\ answer # "WRITTEN"
        /\ calls' = [calls EXCEPT ![s] =
             Answered(c, IF answer = "OP_REPLAY" THEN "recorded" ELSE "refused")]
        /\ UNCHANGED <<store, history, ops>>
     \/ /\ calls' = [calls EXCEPT ![s].pc = ambiguous]
        /\ UNCHANGED <<store, history, ops>>
  /\ UNCHANGED <<now, asked>>

Attempt(s) == At(s, "attempt") /\ PutIn(s, "readback")
Retry(s) == At(s, "retry") /\ PutIn(s, "reread")

ReadBack(s) ==
  LET c == calls[s] IN
  /\ At(s, "readback")
  /\ calls' = [calls EXCEPT ![s] =
       IF ReadsBack(c.op) THEN Answered(c, "recorded") ELSE [c EXCEPT !.pc = "recheck"]]
  /\ UNCHANGED <<store, history, ops, now, asked>>

\* revisionUnchanged: only then is the same operation tried again.
Recheck(s) ==
  LET c == calls[s]  id == c.request.id IN
  /\ At(s, "recheck")
  /\ calls' = [calls EXCEPT ![s] =
       IF (IF c.expected = NoRevision THEN ~Recorded(id) ELSE store[id].revision = c.expected)
       THEN [c EXCEPT !.pc = "retry"] ELSE Answered(c, "unknown")]
  /\ UNCHANGED <<store, history, ops, now, asked>>

Reread(s) ==
  LET c == calls[s] IN
  /\ At(s, "reread")
  /\ calls' = [calls EXCEPT ![s] = Answered(c, IF ReadsBack(c.op) THEN "recorded" ELSE "unknown")]
  /\ UNCHANGED <<store, history, ops, now, asked>>

\* The caller has its answer; a fresh operation id is never used again.
Return(s) ==
  /\ calls[s].pc \in {"recorded", "refused", "unknown"}
  /\ calls' = [calls EXCEPT ![s] = NoCall]
  /\ ops' = [ops EXCEPT ![s] = None]
  /\ UNCHANGED <<store, history, now, asked>>

-----------------------------------------------------------------------------
(* The standing of agents and their qualifications.                         *)

CreateWorkforceRecord(s) ==
  LET q == calls[s].request IN
  /\ Working(s, "record.create")
  /\ Commit(s, NoRevision,
       [revision |-> 1, lifecycle |-> q.lifecycle, role |-> q.role, history |-> <<>>])

\* The history within the record is cut to its last entries.
Embedded(id) ==
  LET all == Append(store[id].history, Superseded(id)) IN
  SubSeq(all, IF Len(all) > MaxTransitions THEN Len(all) - MaxTransitions + 1 ELSE 1, Len(all))

TransitionAllowed(from, to) == from # to /\ to \in Transitions[from]

ChangeLifecycle(s) ==
  LET q == calls[s].request IN
  /\ Working(s, "lifecycle.change")
  /\ IF /\ Recorded(q.id) /\ store[q.id].revision = q.expected
        /\ TransitionAllowed(store[q.id].lifecycle, q.lifecycle)
     THEN Commit(s, q.expected,
            [ store[q.id] EXCEPT !.revision = @ + 1, !.lifecycle = q.lifecycle,
                                 !.history = Embedded(q.id) ])
     ELSE Refuse(s)

ChangeRole(s) ==
  LET q == calls[s].request IN
  /\ Working(s, "role.change")
  /\ IF Recorded(q.id) /\ store[q.id].revision = q.expected /\ store[q.id].role # q.role
     THEN Commit(s, q.expected,
            [ store[q.id] EXCEPT !.revision = @ + 1, !.role = q.role, !.history = Embedded(q.id) ])
     ELSE Refuse(s)

\* A request that leaves out when it is effective means now.
CreateQualification(s) ==
  LET q == calls[s].request IN
  /\ Working(s, "qualification.create")
  /\ IF Recorded(q.agent)
     THEN Commit(s, NoRevision,
            [ revision |-> 1, agent |-> q.agent, capability |-> q.capability,
              status |-> q.status, expires |-> q.expires,
              effective |-> IF q.effective = None THEN now ELSE q.effective ])
     ELSE Refuse(s)

\* A request leaves out the status or the expiry that is to stay; one that names
\* neither, or only the status there is, is refused.
ChangeQualification(s) ==
  LET q == calls[s].request  current == store[q.id]
      status == IF q.status = None THEN current.status ELSE q.status
      expires == IF q.expires = None THEN current.expires ELSE q.expires IN
  /\ Working(s, "qualification.change")
  /\ IF /\ Recorded(q.id) /\ current.revision = q.expected
        /\ q.expires # None \/ q.status \notin {None, current.status}
     THEN Commit(s, q.expected,
            [current EXCEPT !.revision = @ + 1, !.status = status, !.expires = expires])
     ELSE Refuse(s)

-----------------------------------------------------------------------------
(* Evidence about the work of an agent and what it is attributed to.        *)

\* A report of the agent itself cannot say FAIL, and its attribution is not looked at.
EvidenceAccepted(q) ==
  /\ Recorded(q.agent)
  /\ q.selfReport => q.observation # "FAIL"
  /\ ~q.selfReport /\ q.attribution # None =>
       /\ Recorded(q.attribution)
       /\ store[q.attribution].agent = q.agent /\ store[q.attribution].subject = q.subject

\* selfReport: the caller says so, or the intake does.
RecordEvidence(s) ==
  LET q == calls[s].request IN
  /\ Working(s, "evidence.record")
  /\ IF EvidenceAccepted(q)
     THEN Commit(s, NoRevision,
            [ agent |-> q.agent, subject |-> q.subject, policy |-> q.policy,
              observation |-> q.observation, attribution |-> q.attribution,
              authority |-> IF q.selfReport THEN "SELF_REPORT" ELSE "AUTHENTICATED",
              observed |-> now ])
     ELSE Refuse(s)

\* Mutant of Substantiated: a report of the agent itself is enough.
SubstantiatedByAny(q) ==
  /\ q.support # {}
  /\ \A e \in q.support :
       Recorded(e) /\ store[e].agent = q.agent /\ store[e].subject = q.subject

Substantiated(q) ==
  /\ q.support # {}
  /\ \A e \in q.support :
       Recorded(e) /\ store[e].agent = q.agent /\ store[e].subject = q.subject
  /\ q.cause = "EMPLOYEE" => \E e \in q.support : store[e].authority = "AUTHENTICATED"

RecordAttribution(s) ==
  LET q == calls[s].request IN
  /\ Working(s, "attribution.record")
  /\ IF Recorded(q.agent) /\ Substantiated(q)
     THEN Commit(s, NoRevision,
            [agent |-> q.agent, subject |-> q.subject, cause |-> q.cause, support |-> q.support])
     ELSE Refuse(s)

-----------------------------------------------------------------------------
(* evaluateAgentOps: a projection of the evidence, which changes nothing else. *)

InTime(k, agent) ==
  /\ Recorded(Evidence[k]) /\ store[Evidence[k]].agent = agent
  /\ store[Evidence[k]].observed >= now - WindowLength

\* The newest of the evidence; of one instant, the first in the order of list().
Before(j, k) ==
  \/ store[Evidence[j]].observed > store[Evidence[k]].observed
  \/ (store[Evidence[j]].observed = store[Evidence[k]].observed /\ j < k)

Window(agent) ==
  LET found == {k \in DOMAIN Evidence : InTime(k, agent)} IN
  {Evidence[k] : k \in {j \in found : Cardinality({i \in found : Before(i, j)}) < MaxWindow}}

\* The attribution that the evidence names, or else the first that names the evidence.
AttributionOf(e, agent) ==
  LET named == store[e].attribution
      naming == {k \in DOMAIN Attributions :
                   /\ Recorded(Attributions[k]) /\ store[Attributions[k]].agent = agent
                   /\ e \in store[Attributions[k]].support}
  IN
  IF named # None /\ Recorded(named) /\ store[named].agent = agent THEN named
  ELSE IF naming = {} THEN None
  ELSE Attributions[CHOOSE k \in naming : \A j \in naming : k <= j]

CauseOf(e, agent) ==
  LET t == AttributionOf(e, agent) IN IF t = None THEN "UNKNOWN" ELSE store[t].cause

\* Evidence that counts for the trend: authenticated, and not caused by something else.
Counted(agent) == {e \in Window(agent) : store[e].authority = "AUTHENTICATED"}
Employee(agent) == {e \in Counted(agent) : CauseOf(e, agent) \in {"EMPLOYEE", "MIXED"}}
Investigated(agent) == {e \in Counted(agent) : CauseOf(e, agent) = "UNKNOWN"}
Failing(es) == {e \in es : store[e].observation = "FAIL"}
Concerning(es) == {e \in es : store[e].observation = "CONCERN"}

EvaluationState(agent) ==
  LET own == Employee(agent)
      failures == Cardinality(Failing(own)) IN
  IF failures >= FailReview \/ (\E e \in Failing(Counted(agent)) : store[e].policy) THEN "REVIEW"
  ELSE IF \/ failures > 0
          \/ Cardinality(Concerning(own)) >= ConcernWatch
          \/ Investigated(agent) # {}
       THEN "WATCH" ELSE "NORMAL"

\* REVIEW_PROCESS for evidence of unknown cause; the causes that would recommend
\* a review of the runtime, the context or a tool are not among those that count.
Recommendations(agent) ==
  LET own == Failing(Employee(agent)) \cup Concerning(Employee(agent))
      found ==
        IF EvaluationState(agent) = "NORMAL" THEN {}
        ELSE (IF Investigated(agent) # {} THEN {"REVIEW_PROCESS"} ELSE {})
               \cup (IF own # {} THEN {"REQUEST_WORKFORCE_REVIEW"} ELSE {})
  IN IF found = {} THEN {"NO_ACTION"} ELSE found

EvaluateAgentOps(s) ==
  LET q == calls[s].request IN
  /\ Working(s, "agentops.evaluate")
  /\ IF Recorded(q.agent)
     THEN Commit(s, NoRevision,
            [ agent |-> q.agent, state |-> EvaluationState(q.agent),
              recommendations |-> Recommendations(q.agent), generated |-> now ])
     ELSE Refuse(s)

\* #latestEvaluations: the one generated last; of one instant, the last id.
LatestEvaluation(agent) ==
  LET found == {k \in DOMAIN Evaluations :
                  Recorded(Evaluations[k]) /\ store[Evaluations[k]].agent = agent}
      generated(k) == store[Evaluations[k]].generated
  IN IF found = {} THEN None
     ELSE Evaluations[CHOOSE k \in found : \A j \in found \ {k} :
            generated(j) < generated(k) \/ (generated(j) = generated(k) /\ j < k)]

\* workforceFactsFor: what Organizational State reads through its seam.
DerivedStatus(q) ==
  IF store[q].status = "QUALIFIED" /\ ExpiredAt(store[q].expires, now)
  THEN "EXPIRED" ELSE store[q].status

FactsFor(agent, capability) ==
  LET current == {q \in Qualifications : /\ Recorded(q) /\ store[q].agent = agent
                                         /\ store[q].capability = capability}
      latest == LatestEvaluation(agent)
  IN [ lifecycle |-> store[agent].lifecycle,
       qualifications |-> {[status |-> DerivedStatus(q), expires |-> store[q].expires] : q \in current},
       evaluation |-> IF latest = None THEN "NORMAL" ELSE store[latest].state ]

\* validateWorkforceOperatingFactsV1: if not, workforceFactsFor answers null.
ValidFacts(f) ==
  /\ f.lifecycle \in DOMAIN Transitions /\ f.evaluation \in EvaluationStates
  /\ \A q \in f.qualifications :
       /\ q.status \in Statuses \cup {"EXPIRED"}
       /\ ~(q.status = "QUALIFIED" /\ ExpiredAt(q.expires, now))
       /\ q.status = "EXPIRED" => q.expires # Never

-----------------------------------------------------------------------------
WorkforceInit ==
  \E hired \in [Employed -> Roles] :
    /\ store = [id \in Ids |->
         IF id \in Employed
         THEN [revision |-> 1, lifecycle |-> "ACTIVE", role |-> hired[id], history |-> <<>>]
         ELSE NoRecord]
    /\ history = [id \in Revisioned |-> <<>>]
    /\ ops = [op \in Ops |-> None]
    /\ calls = [s \in Services |-> NoCall]
    /\ now = 0
    /\ asked = 0

Tick ==
  /\ now < MaxTime
  /\ now' = now + 1
  /\ UNCHANGED <<store, history, ops, calls, asked>>

Operation(s) ==
  \/ CreateWorkforceRecord(s) \/ ChangeLifecycle(s) \/ ChangeRole(s)
  \/ CreateQualification(s) \/ ChangeQualification(s)
  \/ RecordEvidence(s) \/ RecordAttribution(s) \/ EvaluateAgentOps(s)

WorkforceNext ==
  \/ Tick
  \/ \E s \in Services :
       \/ Ask(s) \/ Replay(s) \/ Deny(s) \/ Operation(s)
       \/ Attempt(s) \/ ReadBack(s) \/ Recheck(s) \/ Retry(s) \/ Reread(s) \/ Return(s)

WorkforceSpec == WorkforceInit /\ [][WorkforceNext]_workforceVars

-----------------------------------------------------------------------------
(* Properties.                                                              *)

\* Every record there is passes the validator of its kind.  An agent has one
\* current qualification for a capability, so the facts that Organizational State
\* reads do not depend on which record is found, and they are such as it takes:
\* an agent that has a record never looks to it like one without (uniquenessKey,
\* workforceFactsFor).
WorkforceTypeOK ==
  /\ now \in Times
  /\ \A id \in Ids : Recorded(id) => Valid(id, store[id])
  /\ \A a \in Agents, c \in Capabilities : Recorded(a) =>
       /\ ValidFacts(FactsFor(a, c))
       /\ Cardinality({q \in Qualifications : /\ Recorded(q) /\ store[q].agent = a
                                              /\ store[q].capability = c}) <= 1

\* However calls interleave, repeat and are answered ambiguously, what a record
\* said before is all there, once and in order: one entry for each revision, each
\* lifecycle status allowed after the one before it, and the history within the
\* record the end of it (put, the history entries, and the transition table).
TruthUnbroken ==
  \A id \in Revisioned : Recorded(id) =>
    LET past == history[id] IN
    /\ Len(past) = store[id].revision - 1
    /\ \A k \in DOMAIN past : past[k].revision = k
    /\ id \in Agents =>
         LET statuses == [k \in 1..(Len(past) + 1) |->
                            IF k > Len(past) THEN store[id].lifecycle ELSE past[k].lifecycle] IN
         /\ \A k \in DOMAIN past :
              statuses[k + 1] \in Transitions[statuses[k]] \cup {statuses[k]}
         /\ IsSuffix(store[id].history, past)
         /\ Len(store[id].history) = IF Len(past) < MaxTransitions THEN Len(past) ELSE MaxTransitions

\* No agent is blamed on its own word or for nothing: what is attributed to it
\* has authenticated evidence about it and the subject, and a review of an agent
\* is only recommended when something was attributed to it
\* (recordAttribution, evaluateAgentOps).
BlameSubstantiated ==
  /\ \A t \in AttributionIds : Recorded(t) /\ store[t].cause = "EMPLOYEE" =>
       \E e \in store[t].support :
         /\ Recorded(e) /\ store[e].authority = "AUTHENTICATED"
         /\ store[e].agent = store[t].agent /\ store[e].subject = store[t].subject
  /\ \A v \in EvaluationIds :
       Recorded(v) /\ "REQUEST_WORKFORCE_REVIEW" \in store[v].recommendations =>
         \E t \in AttributionIds :
           /\ Recorded(t) /\ store[t].agent = store[v].agent
           /\ store[t].cause \in {"EMPLOYEE", "MIXED"}

\* #commit and #replayOperation keep the promise of OperationLog, with the
\* operation id as the key and the request as the value: an id is recorded once, a
\* refusal is only said of what was not written, and RECORDED only of the request
\* that was made; but for an id that callers share, where a read-back takes the
\* record of any request (ConflictRejects).
Doubtful == {"readback", "recheck", "retry", "reread"}

Progress(pc) ==
  CASE pc = "idle" -> "none" [] pc \in {"asked", "attempt"} -> "asked"
    [] pc \in Doubtful -> "doubtful" [] OTHER -> pc

Log == INSTANCE OperationLog WITH
  Callers <- Services, Keys <- Ops, FreshKeys <- Services,
  log  <- ops,
  call <- [s \in Services |->
             [ state |-> Progress(calls[s].pc),
               key   |-> calls[s].op,
               value |-> IF calls[s].pc \in {"asked", "attempt"} \cup Doubtful
                         THEN calls[s].request ELSE None,
               wrote |-> calls[s].wrote ]]

CommitsKept == Log!LogSpec

\* The store says of put that conflicting reuse of an operation id rejects: RECORDED
\* would be said of the request that was made, whichever id it came under.  The code
\* does not keep this: after an AMBIGUOUS put, #commit takes what it reads back under
\* the id, whatever it is.
ConflictRejects == Log!NeverDeceived
=============================================================================
