---------------------------- MODULE WorkforceProofs ----------------------------
(***************************************************************************)
(* Workforce, for any number of service instances, agents, ids, requests    *)
(* and instants: whatever calls interleave, repeat and are answered         *)
(* ambiguously, the past of a record is all there, nobody is blamed without *)
(* evidence, and the store's log keeps the promise of OperationLog.         *)
(*                                                                          *)
(* The argument.  What a call is about to put was made from records that    *)
(* either never change once they are there (evidence, attributions) or are  *)
(* compared by revision when it is put (Revises): so what was checked when  *)
(* it was made (Kind) is true when it is written, and ever after.  Under a  *)
(* fresh operation id there is the request of its own call or nothing, so a *)
(* call in doubt is not deceived by what it finds there.                    *)
(***************************************************************************)
EXTENDS Workforce, FiniteSetTheorems, SequenceTheorems, WellFoundedInduction, TLAPS

-----------------------------------------------------------------------------
(* The invariant.                                                           *)

Pending == {"attempt"} \cup Doubtful
Open == Pending \cup {"asked"}
Points == Pending \cup {"idle", "asked", "recorded", "refused", "unknown"}

AgentShape(r) ==
  /\ r = [ revision |-> r.revision, lifecycle |-> r.lifecycle, role |-> r.role,
           history |-> r.history ]
  /\ r.revision \in Nat \ {0}

QualificationShape(r) ==
  /\ r = [ revision |-> r.revision, agent |-> r.agent, capability |-> r.capability,
           status |-> r.status, effective |-> r.effective, expires |-> r.expires ]
  /\ r.revision \in Nat \ {0} /\ r.expires \in Times \cup {Never}

EvidenceShape(r) ==
  /\ r = [ agent |-> r.agent, subject |-> r.subject, policy |-> r.policy,
           observation |-> r.observation, attribution |-> r.attribution,
           authority |-> r.authority, observed |-> r.observed ]
  /\ r.attribution \in AttributionIds \cup {None}

AttributionShape(r) ==
  /\ r = [agent |-> r.agent, subject |-> r.subject, cause |-> r.cause, support |-> r.support]
  /\ r.support \subseteq EvidenceIds

EvaluationShape(r) ==
  /\ r = [ agent |-> r.agent, state |-> r.state, recommendations |-> r.recommendations,
           generated |-> r.generated ]
  /\ r.generated \in Times

\* What is attributed to an agent has authenticated evidence.
Supported(r) ==
  r.cause = "EMPLOYEE" =>
    \E e \in r.support :
      /\ Recorded(e) /\ store[e].authority = "AUTHENTICATED"
      /\ store[e].agent = r.agent /\ store[e].subject = r.subject

\* A review of an agent is recommended for what was attributed to it.
Deserved(r) ==
  "REQUEST_WORKFORCE_REVIEW" \in r.recommendations =>
    \E t \in AttributionIds :
      Recorded(t) /\ store[t].agent = r.agent /\ store[t].cause \in {"EMPLOYEE", "MIXED"}

\* What is true of a record that the store holds or a call is about to put.
Kind(id, r) ==
  /\ Valid(id, r)
  /\ id \in Agents => AgentShape(r)
  /\ id \in Qualifications => QualificationShape(r)
  /\ id \in EvidenceIds => EvidenceShape(r)
  /\ id \in AttributionIds => AttributionShape(r) /\ Supported(r)
  /\ id \in EvaluationIds => EvaluationShape(r) /\ Deserved(r)

\* The end of a history that a record keeps within it.
EndOf(past) ==
  SubSeq(past, IF Len(past) > MaxTransitions THEN Len(past) - MaxTransitions + 1 ELSE 1, Len(past))

AgentEntry == [revision : Nat, lifecycle : DOMAIN Transitions, role : Roles]
QualificationEntry == [revision : Nat, status : Statuses, expires : Times \cup {Never}]
Entry == AgentEntry \cup QualificationEntry

\* One entry for each revision before this one, each status allowed after the
\* one before it, the end of them in the record.
PastComplete(id) ==
  LET past == history[id]  n == Len(past) IN
  /\ ~Recorded(id) => past = <<>>
  /\ Recorded(id) => n = store[id].revision - 1
  /\ \A k \in 1..n : past[k].revision = k
  /\ id \in Agents =>
       /\ past \in Seq(AgentEntry)
       /\ \A k \in 1..n : k < n =>
            past[k + 1].lifecycle \in Transitions[past[k].lifecycle] \cup {past[k].lifecycle}
       /\ n > 0 =>
            store[id].lifecycle \in Transitions[past[n].lifecycle] \cup {past[n].lifecycle}
       /\ Recorded(id) => store[id].history = EndOf(past)

NoShadow ==
  \A p, q \in Qualifications :
    Recorded(p) /\ Recorded(q) /\ store[p].agent = store[q].agent
      /\ store[p].capability = store[q].capability => p = q

\* A revision that is about to be put was made from the record that it is
\* compared with, if it is still there.
Revises(id, expected, r) ==
  IF expected = NoRevision
  THEN r.revision = 1 /\ (id \in Agents => r.history = <<>>)
  ELSE /\ Recorded(id) /\ expected <= store[id].revision /\ r.revision = expected + 1
       /\ id \in Agents /\ store[id].revision = expected =>
            /\ r.lifecycle \in Transitions[store[id].lifecycle] \cup {store[id].lifecycle}
            /\ r.history = Embedded(id)

CallShape(c) ==
  /\ c = [ pc |-> c.pc, op |-> c.op, request |-> c.request, expected |-> c.expected,
           record |-> c.record, wrote |-> c.wrote ]
  /\ c.pc \in Points /\ c.wrote \in BOOLEAN /\ c.expected \in Int

CallOK(s, c) ==
  /\ CallShape(c)
  /\ IF c.pc = "idle" THEN c = NoCall ELSE c.op \in SharedOps \cup {s}
  /\ c.pc = "asked" => c.request \in Requests /\ ~c.wrote
  /\ c.pc \in Pending =>
       /\ c.request \in Requests
       /\ Kind(c.request.id, c.record)
       /\ c.request.id \in Revisioned => Revises(c.request.id, c.expected, c.record)
       /\ c.wrote => ops[c.op] = c.request
  /\ c.pc \in Open /\ c.op \in Services => ops[c.op] \in {None, c.request}

WorkforceInv ==
  /\ now \in Times
  /\ store = [id \in Ids |-> store[id]] /\ calls = [s \in Services |-> calls[s]]
  /\ history \in [Revisioned -> Seq(Entry)]
  /\ ops \in [Ops -> Requests \cup {None}]
  /\ \A s \in Services : ops[s] # None => calls[s].op = s
  /\ \A id \in Ids : Recorded(id) => Kind(id, store[id])
  /\ \A id \in Revisioned : PastComplete(id)
  /\ NoShadow
  /\ \A s \in Services : CallOK(s, calls[s])

-----------------------------------------------------------------------------
(* Numbers and sequences.                                                   *)

LEMMA LeastOfNaturals ==
  ASSUME NEW T \in SUBSET Nat, T # {}
  PROVE  \E x \in T : \A y \in T : x <= y
<1>1. PICK x \in T : \A y \in T : ~(<<y, x>> \in OpToRel(<, Nat))
  BY NatLessThanWellFounded, WFMin
<1>2. ASSUME NEW y \in T PROVE x <= y
  <2>1. ~(y < x)
    BY <1>1 DEF OpToRel
  <2>. QED
    BY <2>1
<1>. QED
  BY <1>2

\* A set whose elements are all the same has at most one.
LEMMA AtMostOne ==
  ASSUME NEW S, \A x, y \in S : x = y
  PROVE  Cardinality(S) <= 1
<1>1. CASE S = {}
  BY <1>1, FS_EmptySet
<1>2. CASE S # {}
  <2>1. PICK x \in S : TRUE
    BY <1>2
  <2>2. S = {x}
    BY <2>1
  <2>. QED
    BY <2>2, FS_Singleton
<1>. QED
  BY <1>1, <1>2

LEMMA EndOfHistory ==
  ASSUME NEW S, NEW past \in Seq(S)
  PROVE  LET n == Len(past)
             m == IF n < MaxTransitions THEN n ELSE MaxTransitions
         IN /\ EndOf(past) \in Seq(S) /\ Len(EndOf(past)) = m
            /\ \A k \in 1..m : EndOf(past)[k] = past[n - m + k]
<1> DEFINE n == Len(past)
           m == IF n < MaxTransitions THEN n ELSE MaxTransitions
           first == IF n > MaxTransitions THEN n - MaxTransitions + 1 ELSE 1
<1>1. n \in Nat /\ MaxTransitions \in Nat /\ \A k \in 1..n : past[k] \in S
  BY LenProperties, LimitsAssumption
<1>2. first \in Int /\ first >= 1 /\ first = n - m + 1 /\ m \in Nat
  <2> HIDE DEF n
  <2>1. CASE n > MaxTransitions
    BY <1>1, <2>1
  <2>2. CASE ~(n > MaxTransitions)
    BY <1>1, <2>2
  <2>. QED
    BY <2>1, <2>2
<1> HIDE DEF first, m
<1>3. \A k \in first..n : past[k] \in S
  BY <1>1, <1>2
<1>4. /\ SubSeq(past, first, n) \in Seq(S)
      /\ Len(SubSeq(past, first, n)) = IF first <= n THEN n - first + 1 ELSE 0
      /\ \A k \in 1..n - first + 1 : SubSeq(past, first, n)[k] = past[first + k - 1]
  BY <1>1, <1>2, <1>3, SubSeqProperties
<1>5. EndOf(past) = SubSeq(past, first, n)
  BY DEF EndOf, first
<1>6. \A k \in 1..m : first + k - 1 = n - m + k /\ k \in 1..n - first + 1
  BY <1>1, <1>2
<1>7. Len(EndOf(past)) = m
  BY <1>1, <1>2, <1>4, <1>5
<1>8. \A k \in 1..m : EndOf(past)[k] = past[n - m + k]
  BY <1>4, <1>5, <1>6
<1>. QED
  BY <1>4, <1>5, <1>7, <1>8 DEF m

\* The end of a longer history is the end of its end and what was added.
LEMMA EndOfEnd ==
  ASSUME NEW S, NEW past \in Seq(S), NEW x \in S
  PROVE  EndOf(Append(EndOf(past), x)) = EndOf(Append(past, x))
<1> DEFINE n == Len(past)
           m == IF n < MaxTransitions THEN n ELSE MaxTransitions
           p == Append(past, x)
           q == Append(EndOf(past), x)
           d == IF m + 1 < MaxTransitions THEN m + 1 ELSE MaxTransitions
           e == IF n + 1 < MaxTransitions THEN n + 1 ELSE MaxTransitions
<1>1. n \in Nat /\ MaxTransitions \in Nat /\ m \in Nat
  BY LenProperties, LimitsAssumption
<1>2. /\ EndOf(past) \in Seq(S) /\ Len(EndOf(past)) = m
      /\ \A k \in 1..m : EndOf(past)[k] = past[n - m + k]
  BY EndOfHistory
<1>3. /\ p \in Seq(S) /\ Len(p) = n + 1 /\ p[n + 1] = x /\ \A k \in 1..n : p[k] = past[k]
      /\ q \in Seq(S) /\ Len(q) = m + 1 /\ q[m + 1] = x
      /\ \A k \in 1..m : q[k] = EndOf(past)[k]
  BY <1>1, <1>2, AppendProperties, LenProperties
<1> HIDE DEF p, q
<1>4. /\ EndOf(q) \in Seq(S) /\ Len(EndOf(q)) = d
      /\ \A k \in 1..d : EndOf(q)[k] = q[m + 1 - d + k]
  <2> HIDE DEF m
  <2>1. d = IF Len(q) < MaxTransitions THEN Len(q) ELSE MaxTransitions
    BY <1>3
  <2>2. /\ EndOf(q) \in Seq(S) /\ Len(EndOf(q)) = d
        /\ \A k \in 1..d : EndOf(q)[k] = q[Len(q) - d + k]
    <3>1. q \in Seq(S)
      BY <1>3
    <3> HIDE DEF d
    <3>. QED
      BY <2>1, <3>1, EndOfHistory
  <2>3. d \in Nat
    BY <1>1
  <2> HIDE DEF d
  <2>. QED
    BY <1>1, <1>3, <2>2, <2>3
<1>5. /\ EndOf(p) \in Seq(S) /\ Len(EndOf(p)) = e
      /\ \A k \in 1..e : EndOf(p)[k] = p[n + 1 - e + k]
  <2> HIDE DEF n
  <2>1. e = IF Len(p) < MaxTransitions THEN Len(p) ELSE MaxTransitions
    BY <1>3
  <2>2. /\ EndOf(p) \in Seq(S) /\ Len(EndOf(p)) = e
        /\ \A k \in 1..e : EndOf(p)[k] = p[Len(p) - e + k]
    <3>1. p \in Seq(S)
      BY <1>3
    <3> HIDE DEF e
    <3>. QED
      BY <2>1, <3>1, EndOfHistory
  <2>3. e \in Nat
    BY <1>1
  <2> HIDE DEF e
  <2>. QED
    BY <1>1, <1>3, <2>2, <2>3
<1>6. d = e /\ d \in Nat /\ d <= m + 1 /\ m <= n /\ e <= n + 1
  <2> HIDE DEF n
  <2>1. CASE n < MaxTransitions
    BY <1>1, <2>1
  <2>2. CASE ~(n < MaxTransitions)
    BY <1>1, <2>2
  <2>. QED
    BY <2>1, <2>2
<1> HIDE DEF d, e, m, n
<1>7. ASSUME NEW k \in 1..d PROVE EndOf(q)[k] = EndOf(p)[k]
  <2>1. CASE k = d
    <3>1. m + 1 - d + k = m + 1 /\ n + 1 - e + k = n + 1
      BY <1>1, <1>6, <2>1
    <3>. QED
      BY <1>3, <1>4, <1>5, <1>6, <3>1
  <2>2. CASE k # d
    <3>1. m + 1 - d + k \in 1..m
      BY <1>1, <1>6, <2>2
    <3>2. n + 1 - e + k \in 1..n /\ n - m + (m + 1 - d + k) = n + 1 - e + k
      BY <1>1, <1>6, <2>2
    <3>3. EndOf(q)[k] = EndOf(past)[m + 1 - d + k]
      BY <1>3, <1>4, <3>1
    <3>4. EndOf(past)[m + 1 - d + k] = past[n + 1 - e + k]
      BY <1>2, <3>1, <3>2
    <3>5. EndOf(p)[k] = past[n + 1 - e + k]
      BY <1>3, <1>5, <1>6, <3>2
    <3>. QED
      BY <3>3, <3>4, <3>5
  <2>. QED
    BY <2>1, <2>2
<1>8. \A k \in 1..d : EndOf(q)[k] = EndOf(p)[k]
  BY <1>7
<1>9. EndOf(q) = EndOf(p)
  BY <1>4, <1>5, <1>6, <1>8, SeqEqual
<1>. QED
  BY <1>9 DEF p, q

LEMMA EndIsSuffix ==
  ASSUME NEW S, NEW past \in Seq(S)
  PROVE  IsSuffix(EndOf(past), past)
<1> DEFINE n == Len(past)
           m == IF n < MaxTransitions THEN n ELSE MaxTransitions
           e == EndOf(past)
           a == Reverse(e)
           b == Reverse(past)
<1>1. n \in Nat /\ m \in Nat /\ m <= n /\ \A k \in 1..n : past[k] \in S
  BY LenProperties, LimitsAssumption
<1>2. e \in Seq(S) /\ Len(e) = m /\ \A k \in 1..m : e[k] = past[n - m + k]
  BY EndOfHistory
<1> HIDE DEF e, m
<1>3. \A k \in 1..m : e[k] \in S
  BY <1>2, LenProperties
<1>4. a \in Seq(S) /\ Len(a) = m /\ \A k \in 1..m : a[k] = e[m - k + 1]
  <2>1. a \in [1..m -> S]
    BY <1>1, <1>2, <1>3 DEF Reverse
  <2>. QED
    BY <1>1, <1>2, <2>1 DEF Reverse
<1>5. b \in Seq(S) /\ Len(b) = n /\ \A k \in 1..n : b[k] = past[n - k + 1]
  <2>1. b \in [1..n -> S]
    BY <1>1 DEF Reverse
  <2>. QED
    BY <1>1, <2>1 DEF Reverse
<1> HIDE DEF a, b
<1>6. \A k \in 1..m : a[k] = b[k]
  <2> SUFFICES ASSUME NEW k \in 1..m PROVE a[k] = b[k]
    OBVIOUS
  <2>1. m - k + 1 \in 1..m /\ k \in 1..n /\ n - m + (m - k + 1) = n - k + 1
    BY <1>1
  <2>. QED
    BY <1>2, <1>4, <1>5, <2>1
<1>7. SubSeq(a, 1, m) = SubSeq(b, 1, m)
  <2>1. \A k \in 1..m : a[k] \in S /\ b[k] \in S
    BY <1>1, <1>4, <1>5, LenProperties
  <2>2. /\ SubSeq(a, 1, m) \in Seq(S) /\ Len(SubSeq(a, 1, m)) = m
        /\ \A k \in 1..m : SubSeq(a, 1, m)[k] = a[k]
    BY <1>1, <2>1, SubSeqProperties
  <2>3. /\ SubSeq(b, 1, m) \in Seq(S) /\ Len(SubSeq(b, 1, m)) = m
        /\ \A k \in 1..m : SubSeq(b, 1, m)[k] = b[k]
    BY <1>1, <2>1, SubSeqProperties
  <2>. QED
    BY <1>6, <2>2, <2>3, SeqEqual
<1>. QED
  BY <1>1, <1>4, <1>5, <1>7 DEF IsSuffix, IsPrefix, a, b, e

-----------------------------------------------------------------------------
(* Ids, requests and records.                                               *)

LEMMA KindsApart ==
  /\ \A id \in Agents : id \in Revisioned /\ id \notin Qualifications
  /\ \A id \in Qualifications : id \in Revisioned /\ id \notin Agents
  /\ \A id \in Revisioned :
       id \notin EvidenceIds /\ id \notin AttributionIds /\ id \notin EvaluationIds
  /\ \A id \in EvidenceIds : id \notin AttributionIds /\ id \notin EvaluationIds
  /\ \A id \in AttributionIds : id \notin EvaluationIds
  /\ Ids = Revisioned \cup EvidenceIds \cup AttributionIds \cup EvaluationIds
  BY IdsAssumption DEF Revisioned, Ids

LEMMA RequestsName == \A q \in Requests : q.id \in Ids
  BY RequestsAssumption DEF Ids, Revisioned

\* A record that may be put is not the absence of one.
LEMMA KindIsRecord ==
  ASSUME NEW id \in Ids, NEW r, Kind(id, r)
  PROVE  r # NoRecord
<1>1. CASE id \in Revisioned
  <2>1. r.revision \in Nat \ {0}
    BY <1>1, KindsApart DEF Kind, AgentShape, QualificationShape, Revisioned
  <2>. QED
    BY <2>1 DEF NoRecord
<1>2. CASE id \notin Revisioned
  <2>1. "agent" \in DOMAIN r
    <3>1. CASE id \in EvidenceIds
      BY <3>1 DEF Kind, EvidenceShape
    <3>2. CASE id \in AttributionIds
      BY <3>2 DEF Kind, AttributionShape
    <3>3. CASE id \in EvaluationIds
      BY <3>3 DEF Kind, EvaluationShape
    <3>. QED
      BY <1>2, <3>1, <3>2, <3>3, KindsApart
  <2>. QED
    BY <2>1 DEF NoRecord
<1>. QED
  BY <1>1, <1>2

\* What is said of a record and of a call depends on the store and the log only.
LEMMA SameKind ==
  ASSUME UNCHANGED store, NEW id, NEW r PROVE Kind(id, r)' = Kind(id, r)
<1>1. \A j : Recorded(j)' = Recorded(j)
  BY DEF Recorded
<1>2. Supported(r)' = Supported(r) /\ Deserved(r)' = Deserved(r)
  BY <1>1 DEF Supported, Deserved
<1>. QED
  BY <1>2 DEF Kind

LEMMA SameCall ==
  ASSUME UNCHANGED <<store, ops>>, NEW s, NEW c PROVE CallOK(s, c)' = CallOK(s, c)
<1>1. Kind(c.request.id, c.record)' = Kind(c.request.id, c.record)
  BY SameKind
<1>2. Revises(c.request.id, c.expected, c.record)' = Revises(c.request.id, c.expected, c.record)
  BY DEF Revises, Recorded, Embedded, Superseded
<1>. QED
  BY <1>1, <1>2 DEF CallOK

LEMMA SamePast ==
  ASSUME UNCHANGED <<store, history>>, NEW id PROVE PastComplete(id)' = PastComplete(id)
  BY DEF PastComplete, Recorded

-----------------------------------------------------------------------------
(* The initial state.                                                       *)

LEMMA WorkforceInvInit == WorkforceInit => WorkforceInv
<1> SUFFICES ASSUME WorkforceInit PROVE WorkforceInv
  OBVIOUS
<1>1. PICK hired \in [Employed -> Roles] :
        store = [id \in Ids |->
          IF id \in Employed
          THEN [revision |-> 1, lifecycle |-> "ACTIVE", role |-> hired[id], history |-> <<>>]
          ELSE NoRecord]
  BY DEF WorkforceInit
<1>2. /\ history = [id \in Revisioned |-> <<>>] /\ ops = [op \in Ops |-> None]
      /\ calls = [s \in Services |-> NoCall] /\ now = 0
  BY DEF WorkforceInit
<1>3. \A id \in Ids : Recorded(id) <=> id \in Employed
  BY <1>1 DEF Recorded, NoRecord
<1>4. ASSUME NEW id \in Employed
      PROVE  Kind(id, store[id]) /\ store[id].revision = 1 /\ store[id].history = <<>>
  <2> DEFINE r == [revision |-> 1, lifecycle |-> "ACTIVE", role |-> hired[id], history |-> <<>>]
  <2>1. id \in Agents /\ id \in Ids /\ store[id] = r
    BY <1>1, IdsAssumption, KindsApart
  <2>2. ValidWorkforceRecord(r)
    BY LimitsAssumption DEF ValidWorkforceRecord, Transitions
  <2>3. AgentShape(r)
    BY DEF AgentShape
  <2> HIDE DEF r
  <2>4. Kind(id, r)
    BY <2>1, <2>2, <2>3, KindsApart DEF Kind, Valid
  <2>. QED
    BY <2>1, <2>4 DEF r
<1>5. ASSUME NEW id \in Revisioned PROVE PastComplete(id)
  <2>1. history[id] = <<>> /\ <<>> \in Seq(AgentEntry) /\ Len(<<>>) = 0
    BY <1>2
  <2>2. EndOf(<<>>) = <<>>
    BY LimitsAssumption DEF EndOf
  <2>3. Recorded(id) => store[id].revision = 1 /\ store[id].history = <<>>
    BY <1>3, <1>4, KindsApart
  <2>. QED
    BY <2>1, <2>2, <2>3 DEF PastComplete
<1>6. NoShadow
  BY <1>3, IdsAssumption, KindsApart DEF NoShadow
<1>7. CallShape(NoCall)
  BY DEF CallShape, NoCall, Points, NoRevision
<1>8. \A s \in Services : CallOK(s, calls[s])
  BY <1>2, <1>7 DEF CallOK, NoCall, Open, Pending, Doubtful
<1>9. now \in Times
  BY <1>2, LimitsAssumption DEF Times
<1>10. store = [id \in Ids |-> store[id]] /\ calls = [s \in Services |-> calls[s]]
       /\ history \in [Revisioned -> Seq(Entry)] /\ ops \in [Ops -> Requests \cup {None}]
  BY <1>1, <1>2
<1>11. \A s \in Services : ops[s] = None
  BY <1>2 DEF Ops
<1>12. \A id \in Ids : Recorded(id) => Kind(id, store[id])
  BY <1>3, <1>4
<1>. QED
  BY <1>5, <1>6, <1>8, <1>9, <1>10, <1>11, <1>12 DEF WorkforceInv

-----------------------------------------------------------------------------
(* Steps that change one call and nothing in the store.                     *)

Untouched == UNCHANGED <<store, history, ops, now>>

LEMMA QuietKeeps ==
  ASSUME WorkforceInv, Untouched, NEW s \in Services, NEW c, CallOK(s, c),
         calls' = [calls EXCEPT ![s] = c], ops[s] # None => c.op = s
  PROVE  WorkforceInv'
<1>1. calls' = [t \in Services |-> calls'[t]] /\ calls'[s] = c
      /\ \A t \in Services : t # s => calls'[t] = calls[t]
  BY DEF WorkforceInv
<1>2. UNCHANGED store /\ UNCHANGED history /\ UNCHANGED ops /\ UNCHANGED now
  BY DEF Untouched
<1>3. ASSUME NEW t \in Services PROVE CallOK(t, calls[t])'
  <2>1. PICK d : d = calls'[t]
    OBVIOUS
  <2>2. CallOK(t, d)
    BY <1>1, <2>1 DEF WorkforceInv
  <2>3. CallOK(t, d)'
    BY <1>2, <2>2, SameCall
  <2>. QED
    BY <2>1, <2>3
<1>4. ASSUME NEW id \in Ids PROVE Recorded(id)' => Kind(id, store[id])'
  <2>1. PICK r : r = store[id]
    OBVIOUS
  <2>2. Recorded(id)' = Recorded(id) /\ Kind(id, r)' = Kind(id, r)
    BY <1>2, SameKind DEF Recorded
  <2>. QED
    BY <1>2, <2>1, <2>2 DEF WorkforceInv
<1>5. \A id \in Revisioned : PastComplete(id)'
  BY <1>2, SamePast DEF WorkforceInv
<1>6. NoShadow'
  BY <1>2 DEF WorkforceInv, NoShadow, Recorded
<1>. QED
  BY <1>1, <1>2, <1>3, <1>4, <1>5, <1>6 DEF WorkforceInv

-----------------------------------------------------------------------------
(* What the operations make.                                                *)

Prepares(s) ==
  LET id == calls[s].request.id IN
  /\ At(s, "asked") /\ Untouched
  /\ \E expected \in Int : \E r :
       /\ Kind(id, r) /\ (id \in Revisioned => Revises(id, expected, r))
       /\ calls' = [calls EXCEPT ![s].pc = "attempt", ![s].expected = expected, ![s].record = r]

Rejects(s) == At(s, "asked") /\ Untouched /\ Refuse(s)

LEMMA CommitPrepares ==
  ASSUME NEW s \in Services, At(s, "asked"), Untouched,
         NEW id, id = calls[s].request.id,
         NEW expected \in Int, NEW r, Commit(s, expected, r),
         Valid(id, r) => Kind(id, r) /\ (id \in Revisioned => Revises(id, expected, r))
  PROVE  Prepares(s) \/ Rejects(s)
<1>1. CASE Valid(id, r)
  BY <1>1 DEF Commit, Prepares
<1>2. CASE ~Valid(id, r)
  BY <1>2 DEF Commit, Rejects
<1>. QED
  BY <1>1, <1>2

LEMMA WorkingIsAsked ==
  ASSUME WorkforceInv, NEW s \in Services, NEW action, Working(s, action)
  PROVE  /\ At(s, "asked") /\ Untouched /\ calls[s].request \in Requests
         /\ calls[s].request.action = action
  BY DEF Working, WorkforceInv, CallOK, At, Untouched

LEMMA CreateRecordPrepares ==
  ASSUME WorkforceInv, NEW s \in Services, CreateWorkforceRecord(s)
  PROVE  Prepares(s) \/ Rejects(s)
<1>1. PICK q \in Requests : q = calls[s].request
  BY WorkingIsAsked DEF CreateWorkforceRecord
<1>2. At(s, "asked") /\ Untouched /\ q.id \in Agents
  <2>1. q.action = "record.create"
    BY <1>1, WorkingIsAsked DEF CreateWorkforceRecord
  <2>. QED
    BY <2>1, WorkingIsAsked, RequestsAssumption DEF CreateWorkforceRecord
<1>3. PICK r : r = [revision |-> 1, lifecycle |-> q.lifecycle, role |-> q.role, history |-> <<>>]
  OBVIOUS
<1>4. Commit(s, NoRevision, r)
  BY <1>1, <1>3 DEF CreateWorkforceRecord
<1>5. AgentShape(r) /\ Revises(q.id, NoRevision, r) /\ NoRevision \in Int
  BY <1>3 DEF AgentShape, Revises, NoRevision
<1>6. Valid(q.id, r) => Kind(q.id, r)
  BY <1>2, <1>5, KindsApart DEF Kind
<1>. QED
  BY <1>1, <1>2, <1>4, <1>5, <1>6, CommitPrepares

\* A new revision of the record of an agent.
LEMMA RevisionPrepares ==
  ASSUME WorkforceInv, NEW s \in Services, At(s, "asked"), Untouched,
         NEW id \in Agents, id = calls[s].request.id, Recorded(id),
         NEW expected \in Int, store[id].revision = expected,
         NEW r, Commit(s, expected, r), AgentShape(r),
         r.revision = expected + 1, r.history = Embedded(id),
         r.lifecycle \in Transitions[store[id].lifecycle] \cup {store[id].lifecycle}
  PROVE  Prepares(s) \/ Rejects(s)
<1>1. expected \in Nat \ {0}
  BY KindsApart DEF WorkforceInv, Kind, AgentShape, Revisioned
<1>3. Revises(id, expected, r)
  BY <1>1 DEF Revises, NoRevision
<1>4. Valid(id, r) => Kind(id, r)
  BY KindsApart DEF Kind
<1>. QED
  BY <1>3, <1>4, CommitPrepares

LEMMA ChangeLifecyclePrepares ==
  ASSUME WorkforceInv, NEW s \in Services, ChangeLifecycle(s)
  PROVE  Prepares(s) \/ Rejects(s)
<1>1. PICK q \in Requests : q = calls[s].request
  BY WorkingIsAsked DEF ChangeLifecycle
<1>2. At(s, "asked") /\ Untouched /\ q.id \in Agents /\ q.expected \in Int
  <2>1. q.action = "lifecycle.change"
    BY <1>1, WorkingIsAsked DEF ChangeLifecycle
  <2>. QED
    BY <2>1, WorkingIsAsked, RequestsAssumption DEF ChangeLifecycle
<1>3. CASE Refuse(s)
  BY <1>2, <1>3 DEF Rejects
<1>4. CASE /\ Recorded(q.id) /\ store[q.id].revision = q.expected
           /\ TransitionAllowed(store[q.id].lifecycle, q.lifecycle)
           /\ Commit(s, q.expected,
                [ store[q.id] EXCEPT !.revision = @ + 1, !.lifecycle = q.lifecycle,
                                     !.history = Embedded(q.id) ])
  <2>1. PICK old, new, r : /\ old = store[q.id] /\ new = Embedded(q.id)
                           /\ r = [ old EXCEPT !.revision = @ + 1, !.lifecycle = q.lifecycle,
                                               !.history = new ]
    OBVIOUS
  <2>2. AgentShape(old)
    BY <1>2, <1>4, <2>1, KindsApart DEF WorkforceInv, Kind, Revisioned
  <2>3. r = [ revision |-> q.expected + 1, lifecycle |-> q.lifecycle, role |-> old.role,
              history |-> new ]
    BY <1>4, <2>1, <2>2 DEF AgentShape
  <2>4. q.lifecycle \in Transitions[store[q.id].lifecycle]
    BY <1>4 DEF TransitionAllowed
  <2>5. Commit(s, q.expected, r)
    BY <1>4, <2>1
  <2>6. AgentShape(r) /\ r.revision = q.expected + 1 /\ r.history = Embedded(q.id)
        /\ r.lifecycle = q.lifecycle
    <3>1. old.revision = q.expected /\ q.expected \in Nat \ {0}
      BY <1>4, <2>1, <2>2 DEF AgentShape
    <3>2. AgentShape(r)
      BY <2>3, <3>1 DEF AgentShape
    <3>. QED
      BY <2>1, <2>3, <3>1, <3>2
  <2>. QED
    BY <1>1, <1>2, <1>4, <2>4, <2>5, <2>6, RevisionPrepares
<1>. QED
  BY <1>1, <1>3, <1>4 DEF ChangeLifecycle

LEMMA ChangeRolePrepares ==
  ASSUME WorkforceInv, NEW s \in Services, ChangeRole(s)
  PROVE  Prepares(s) \/ Rejects(s)
<1>1. PICK q \in Requests : q = calls[s].request
  BY WorkingIsAsked DEF ChangeRole
<1>2. At(s, "asked") /\ Untouched /\ q.id \in Agents /\ q.expected \in Int
  <2>1. q.action = "role.change"
    BY <1>1, WorkingIsAsked DEF ChangeRole
  <2>. QED
    BY <2>1, WorkingIsAsked, RequestsAssumption DEF ChangeRole
<1>3. CASE Refuse(s)
  BY <1>2, <1>3 DEF Rejects
<1>4. CASE /\ Recorded(q.id) /\ store[q.id].revision = q.expected
           /\ Commit(s, q.expected,
                [ store[q.id] EXCEPT !.revision = @ + 1, !.role = q.role,
                                     !.history = Embedded(q.id) ])
  <2>1. PICK old, new, r : /\ old = store[q.id] /\ new = Embedded(q.id)
                           /\ r = [ old EXCEPT !.revision = @ + 1, !.role = q.role,
                                               !.history = new ]
    OBVIOUS
  <2>2. AgentShape(old)
    BY <1>2, <1>4, <2>1, KindsApart DEF WorkforceInv, Kind, Revisioned
  <2>3. r = [ revision |-> q.expected + 1, lifecycle |-> old.lifecycle, role |-> q.role,
              history |-> new ]
    BY <1>4, <2>1, <2>2 DEF AgentShape
  <2>5. Commit(s, q.expected, r)
    BY <1>4, <2>1
  <2>6. AgentShape(r) /\ r.revision = q.expected + 1 /\ r.history = Embedded(q.id)
        /\ r.lifecycle = store[q.id].lifecycle
    <3>1. old.revision = q.expected /\ q.expected \in Nat \ {0}
      BY <1>4, <2>1, <2>2 DEF AgentShape
    <3>2. AgentShape(r)
      BY <2>3, <3>1 DEF AgentShape
    <3>. QED
      BY <2>1, <2>3, <3>1, <3>2
  <2>. QED
    BY <1>1, <1>2, <1>4, <2>5, <2>6, RevisionPrepares
<1>. QED
  BY <1>1, <1>3, <1>4 DEF ChangeRole

LEMMA CreateQualificationPrepares ==
  ASSUME WorkforceInv, NEW s \in Services, CreateQualification(s)
  PROVE  Prepares(s) \/ Rejects(s)
<1>1. PICK q \in Requests : q = calls[s].request
  BY WorkingIsAsked DEF CreateQualification
<1>2. /\ At(s, "asked") /\ Untouched
      /\ q.id \in Qualifications /\ q.expires \in Times \cup {Never}
  <2>1. q.action = "qualification.create"
    BY <1>1, WorkingIsAsked DEF CreateQualification
  <2>. QED
    BY <2>1, WorkingIsAsked, RequestsAssumption DEF CreateQualification
<1>3. CASE Refuse(s)
  BY <1>2, <1>3 DEF Rejects
<1>4. CASE Commit(s, NoRevision,
             [ revision |-> 1, agent |-> q.agent, capability |-> q.capability,
               status |-> q.status, expires |-> q.expires,
               effective |-> IF q.effective = None THEN now ELSE q.effective ])
  <2>1. PICK r : r = [ revision |-> 1, agent |-> q.agent, capability |-> q.capability,
                       status |-> q.status, expires |-> q.expires,
                       effective |-> IF q.effective = None THEN now ELSE q.effective ]
    OBVIOUS
  <2>2. QualificationShape(r) /\ r.revision = 1
    BY <1>2, <2>1 DEF QualificationShape
  <2>3. Revises(q.id, NoRevision, r) /\ NoRevision \in Int
    BY <1>2, <2>2, KindsApart DEF Revises, NoRevision
  <2>4. Valid(q.id, r) => Kind(q.id, r)
    BY <1>2, <2>2, KindsApart DEF Kind
  <2>5. Commit(s, NoRevision, r)
    BY <1>4, <2>1
  <2>. QED
    BY <1>1, <1>2, <2>3, <2>4, <2>5, CommitPrepares
<1>. QED
  BY <1>1, <1>3, <1>4 DEF CreateQualification

LEMMA ChangeQualificationPrepares ==
  ASSUME WorkforceInv, NEW s \in Services, ChangeQualification(s)
  PROVE  Prepares(s) \/ Rejects(s)
<1>1. PICK q \in Requests : q = calls[s].request
  BY WorkingIsAsked DEF ChangeQualification
<1>2. /\ At(s, "asked") /\ Untouched
      /\ q.id \in Qualifications /\ q.expected \in Int /\ q.expires \in Times \cup {Never, None}
  <2>1. q.action = "qualification.change"
    BY <1>1, WorkingIsAsked DEF ChangeQualification
  <2>. QED
    BY <2>1, WorkingIsAsked, RequestsAssumption DEF ChangeQualification
<1>3. CASE Refuse(s)
  BY <1>2, <1>3 DEF Rejects
<1>4. ASSUME Recorded(q.id), store[q.id].revision = q.expected,
             NEW status, NEW expires,
             expires = IF q.expires = None THEN store[q.id].expires ELSE q.expires,
             Commit(s, q.expected,
               [store[q.id] EXCEPT !.revision = @ + 1, !.status = status, !.expires = expires])
      PROVE  Prepares(s) \/ Rejects(s)
  <2>1. PICK old, r : /\ old = store[q.id]
                      /\ r = [ old EXCEPT !.revision = @ + 1, !.status = status,
                                          !.expires = expires ]
    OBVIOUS
  <2>2. QualificationShape(old)
    BY <1>2, <1>4, <2>1, KindsApart DEF WorkforceInv, Kind, Revisioned
  <2>3. r = [ revision |-> q.expected + 1, agent |-> old.agent, capability |-> old.capability,
              status |-> status, effective |-> old.effective, expires |-> expires ]
    BY <1>4, <2>1, <2>2 DEF QualificationShape
  <2>4. q.expected \in Nat \ {0} /\ expires \in Times \cup {Never}
    BY <1>2, <1>4, <2>1, <2>2 DEF QualificationShape
  <2>5. QualificationShape(r) /\ r.revision = q.expected + 1
    BY <2>3, <2>4 DEF QualificationShape
  <2>6. Revises(q.id, q.expected, r)
    BY <1>2, <1>4, <2>4, <2>5, KindsApart DEF Revises, NoRevision
  <2>7. Valid(q.id, r) => Kind(q.id, r)
    BY <1>2, <2>5, KindsApart DEF Kind
  <2>8. Commit(s, q.expected, r)
    BY <1>4, <2>1
  <2>. QED
    BY <1>1, <1>2, <2>6, <2>7, <2>8, CommitPrepares
<1>. QED
  <2>1. PICK status, expires :
          /\ status = IF q.status = None THEN store[q.id].status ELSE q.status
          /\ expires = IF q.expires = None THEN store[q.id].expires ELSE q.expires
    OBVIOUS
  <2>2. \/ Refuse(s)
        \/ /\ Recorded(q.id) /\ store[q.id].revision = q.expected
           /\ Commit(s, q.expected,
                [store[q.id] EXCEPT !.revision = @ + 1, !.status = status, !.expires = expires])
    BY <1>1, <2>1 DEF ChangeQualification
  <2>. QED
    BY <1>3, <1>4, <2>1, <2>2

LEMMA RecordEvidencePrepares ==
  ASSUME WorkforceInv, NEW s \in Services, RecordEvidence(s)
  PROVE  Prepares(s) \/ Rejects(s)
<1>1. PICK q \in Requests : q = calls[s].request
  BY WorkingIsAsked DEF RecordEvidence
<1>2. /\ At(s, "asked") /\ Untouched
      /\ q.id \in EvidenceIds /\ q.attribution \in AttributionIds \cup {None}
  <2>1. q.action = "evidence.record"
    BY <1>1, WorkingIsAsked DEF RecordEvidence
  <2>. QED
    BY <2>1, WorkingIsAsked, RequestsAssumption DEF RecordEvidence
<1>3. CASE Refuse(s)
  BY <1>2, <1>3 DEF Rejects
<1>4. PICK r : r =
        [ agent |-> q.agent, subject |-> q.subject, policy |-> q.policy,
          observation |-> q.observation, attribution |-> q.attribution,
          authority |-> IF q.selfReport THEN "SELF_REPORT" ELSE "AUTHENTICATED",
          observed |-> now ]
  OBVIOUS
<1>5. CASE Commit(s, NoRevision, r)
  <2>1. EvidenceShape(r) /\ NoRevision \in Int
    BY <1>2, <1>4 DEF EvidenceShape, NoRevision
  <2>2. Valid(q.id, r) => Kind(q.id, r) /\ q.id \notin Revisioned
    BY <1>2, <2>1, KindsApart DEF Kind
  <2>. QED
    BY <1>1, <1>2, <1>5, <2>1, <2>2, CommitPrepares
<1>. QED
  BY <1>1, <1>3, <1>4, <1>5 DEF RecordEvidence

LEMMA RecordAttributionPrepares ==
  ASSUME WorkforceInv, NEW s \in Services, RecordAttribution(s)
  PROVE  Prepares(s) \/ Rejects(s)
<1>1. PICK q \in Requests : q = calls[s].request
  BY WorkingIsAsked DEF RecordAttribution
<1>2. At(s, "asked") /\ Untouched /\ q.id \in AttributionIds /\ q.support \subseteq EvidenceIds
  <2>1. q.action = "attribution.record"
    BY <1>1, WorkingIsAsked DEF RecordAttribution
  <2>. QED
    BY <2>1, WorkingIsAsked, RequestsAssumption DEF RecordAttribution
<1>3. CASE Refuse(s)
  BY <1>2, <1>3 DEF Rejects
<1>4. PICK r :
        r = [agent |-> q.agent, subject |-> q.subject, cause |-> q.cause, support |-> q.support]
  OBVIOUS
<1>5. CASE Substantiated(q) /\ Commit(s, NoRevision, r)
  <2>1. AttributionShape(r) /\ Supported(r) /\ NoRevision \in Int
    BY <1>2, <1>4, <1>5 DEF AttributionShape, Supported, Substantiated, NoRevision
  <2>2. Valid(q.id, r) => Kind(q.id, r) /\ q.id \notin Revisioned
    BY <1>2, <2>1, KindsApart DEF Kind
  <2>. QED
    BY <1>1, <1>2, <1>5, <2>1, <2>2, CommitPrepares
<1>. QED
  BY <1>1, <1>3, <1>4, <1>5 DEF RecordAttribution

\* What evidence of an agent is caused by is recorded as an attribution.
LEMMA CauseIsAttributed ==
  ASSUME WorkforceInv, NEW agent, NEW e \in Employee(agent)
  PROVE  \E t \in AttributionIds :
           Recorded(t) /\ store[t].agent = agent /\ store[t].cause \in {"EMPLOYEE", "MIXED"}
<1> DEFINE t == AttributionOf(e, agent)
<1>1. /\ CauseOf(e, agent) \in {"EMPLOYEE", "MIXED"} /\ e \in EvidenceIds /\ Recorded(e)
  <2>1. e \in Window(agent) /\ CauseOf(e, agent) \in {"EMPLOYEE", "MIXED"}
    BY DEF Employee, Counted
  <2>2. PICK k \in DOMAIN Evidence : e = Evidence[k] /\ InTime(k, agent)
    BY <2>1 DEF Window
  <2>. QED
    BY <2>1, <2>2 DEF InTime, EvidenceIds, ToSet
<1>2. t # None /\ store[t].cause \in {"EMPLOYEE", "MIXED"}
  BY <1>1 DEF CauseOf
<1>3. store[e].attribution \in AttributionIds \cup {None}
  BY <1>1 DEF WorkforceInv, Kind, EvidenceShape, Recorded
<1> DEFINE named == store[e].attribution
           naming == {k \in DOMAIN Attributions :
                        /\ Recorded(Attributions[k]) /\ store[Attributions[k]].agent = agent
                        /\ e \in store[Attributions[k]].support}
<1>4. CASE named # None /\ Recorded(named) /\ store[named].agent = agent
  <2>1. t = named
    BY <1>4 DEF AttributionOf
  <2> HIDE DEF t
  <2>. QED
    BY <1>2, <1>3, <1>4, <2>1
<1>5. CASE ~(named # None /\ Recorded(named) /\ store[named].agent = agent)
  <2>1. naming # {}
    BY <1>2, <1>5 DEF AttributionOf
  <2>2. naming \subseteq Nat
    BY IdsAssumption
  <2>3. \E k \in naming : \A j \in naming : k <= j
    <3> HIDE DEF naming
    <3>. QED
      BY <2>1, <2>2, LeastOfNaturals
  <2>4. PICK k \in naming : t = Attributions[k]
    BY <1>5, <2>1, <2>3 DEF AttributionOf
  <2>5. Attributions[k] \in AttributionIds
    BY DEF AttributionIds, ToSet
  <2>6. Recorded(Attributions[k]) /\ store[Attributions[k]].agent = agent
    OBVIOUS
  <2> HIDE DEF t, naming
  <2>. QED
    BY <1>2, <2>4, <2>5, <2>6
<1>. QED
  BY <1>4, <1>5

LEMMA EvaluatePrepares ==
  ASSUME WorkforceInv, NEW s \in Services, EvaluateAgentOps(s)
  PROVE  Prepares(s) \/ Rejects(s)
<1>1. PICK q \in Requests : q = calls[s].request
  BY WorkingIsAsked DEF EvaluateAgentOps
<1>2. At(s, "asked") /\ Untouched /\ q.id \in EvaluationIds
  <2>1. q.action = "agentops.evaluate"
    BY <1>1, WorkingIsAsked DEF EvaluateAgentOps
  <2>. QED
    BY <2>1, WorkingIsAsked, RequestsAssumption DEF EvaluateAgentOps
<1>3. CASE Refuse(s)
  BY <1>2, <1>3 DEF Rejects
<1>4. PICK r :
        r = [ agent |-> q.agent, state |-> EvaluationState(q.agent),
              recommendations |-> Recommendations(q.agent), generated |-> now ]
  OBVIOUS
<1>5. CASE Commit(s, NoRevision, r)
  <2>1. EvaluationShape(r) /\ NoRevision \in Int
    BY <1>4 DEF EvaluationShape, WorkforceInv, NoRevision
  <2>2. Deserved(r)
    <3>1. ASSUME "REQUEST_WORKFORCE_REVIEW" \in Recommendations(q.agent)
          PROVE  Employee(q.agent) # {}
      BY <3>1 DEF Recommendations, Failing, Concerning
    <3>. QED
      BY <1>4, <3>1, CauseIsAttributed DEF Deserved
  <2>3. Valid(q.id, r) => Kind(q.id, r) /\ q.id \notin Revisioned
    BY <1>2, <2>1, <2>2, KindsApart DEF Kind
  <2>. QED
    BY <1>1, <1>2, <1>5, <2>1, <2>3, CommitPrepares
<1>. QED
  BY <1>1, <1>3, <1>4, <1>5 DEF EvaluateAgentOps

LEMMA OperationPrepares ==
  ASSUME WorkforceInv, NEW s \in Services, Operation(s)
  PROVE  Prepares(s) \/ Rejects(s)
  BY CreateRecordPrepares, ChangeLifecyclePrepares, ChangeRolePrepares,
     CreateQualificationPrepares, ChangeQualificationPrepares, RecordEvidencePrepares,
     RecordAttributionPrepares, EvaluatePrepares DEF Operation

-----------------------------------------------------------------------------
(* The steps of a call.                                                     *)

Begins(s) ==
  /\ At(s, "idle") /\ Untouched
  /\ \E op \in SharedOps \cup {s}, request \in Requests :
       calls' = [calls EXCEPT ![s] = [NoCall EXCEPT !.pc = "asked", !.op = op, !.request = request]]

Continues(s) ==
  /\ calls[s].pc \in Pending /\ Untouched
  /\ \E p \in Doubtful : calls' = [calls EXCEPT ![s] = [calls[s] EXCEPT !.pc = p]]

\* The request itself, or in doubt any one.
Finds(s) ==
  \/ ops[calls[s].op] = calls[s].request
  \/ calls[s].pc \in Doubtful /\ ops[calls[s].op] # None

Answers(s) ==
  /\ calls[s].pc \in Open /\ Untouched
  /\ \E answer \in {"recorded", "refused", "unknown"} :
       /\ calls' = [calls EXCEPT ![s] = Answered(calls[s], answer)]
       /\ answer = "recorded" => Finds(s)
       /\ answer = "refused" => calls[s].pc = "asked" \/ ops[calls[s].op] # calls[s].request

Writes(s) ==
  LET c == calls[s] IN
  /\ c.pc \in Pending
  /\ ops[c.op] = None /\ ~Shadows(c.request.id, c.record)
  /\ RevisionMatches(c.request.id, c.expected, c.record)
  /\ PutWrites(c) /\ UNCHANGED now
  /\ \/ calls' = [calls EXCEPT ![s] = Answered([c EXCEPT !.wrote = TRUE], "recorded")]
     \/ \E p \in Doubtful : calls' = [calls EXCEPT ![s] = [c EXCEPT !.wrote = TRUE, !.pc = p]]

\* What is known of a call that is not idle.
LEMMA CallFacts ==
  ASSUME WorkforceInv, NEW s \in Services, calls[s].pc # "idle"
  PROVE  /\ CallShape(calls[s]) /\ calls[s].op \in SharedOps \cup {s} /\ calls[s].op \in Ops
         /\ calls[s].pc \in Open => calls[s].request \in Requests
                                                      /\ calls[s].request # None
         /\ ops[calls[s].op] \in Requests \cup {None}
  BY IdsAssumption DEF WorkforceInv, CallOK, Ops, Open

LEMMA PutKinds ==
  ASSUME WorkforceInv, NEW s \in Services, calls[s].pc \in Pending, NEW p \in Doubtful, PutIn(s, p)
  PROVE  Continues(s) \/ Answers(s) \/ Writes(s)
<1> DEFINE c == calls[s]
           answer == PutAnswer(c)
<1>0. calls[s].pc \in Open
  BY DEF Open
<1>1. c.request # None /\ c.request \in Requests /\ ops[c.op] \in Requests \cup {None}
  BY CallFacts DEF Open, Pending, Doubtful
<1>2. CASE answer = "WRITTEN" /\ PutWrites(c) /\ UNCHANGED now
           /\ \/ calls' = [calls EXCEPT ![s] = Answered([c EXCEPT !.wrote = TRUE], "recorded")]
              \/ calls' = [calls EXCEPT ![s] = [c EXCEPT !.wrote = TRUE, !.pc = p]]
  <2>1. /\ ops[c.op] = None /\ ~Shadows(c.request.id, c.record)
        /\ RevisionMatches(c.request.id, c.expected, c.record)
    BY <1>1, <1>2 DEF PutAnswer, Reused
  <2>. QED
    BY <1>2, <2>1 DEF Writes
<1>3. CASE answer # "WRITTEN" /\ Untouched
           /\ calls' = [calls EXCEPT ![s] =
                Answered(c, IF answer = "OP_REPLAY" THEN "recorded" ELSE "refused")]
  <2>1. CASE answer = "OP_REPLAY"
    <3>1. Finds(s)
      BY <1>1, <2>1 DEF PutAnswer, Finds
    <3>. QED
      BY <1>0, <1>3, <2>1, <3>1 DEF Answers
  <2>2. CASE answer # "OP_REPLAY"
    <3>1. ops[c.op] # c.request
      BY <2>2 DEF PutAnswer
    <3>. QED
      BY <1>0, <1>3, <2>2, <3>1 DEF Answers
  <2>. QED
    BY <2>1, <2>2
<1>4. CASE calls' = [calls EXCEPT ![s].pc = p] /\ Untouched
  BY <1>4 DEF Continues
<1>. QED
  BY <1>2, <1>3, <1>4 DEF PutIn, Untouched

LEMMA CallKinds ==
  ASSUME WorkforceInv, NEW s \in Services,
         \/ Replay(s) \/ Deny(s)
         \/ Attempt(s) \/ ReadBack(s) \/ Recheck(s) \/ Retry(s) \/ Reread(s)
  PROVE  Continues(s) \/ Answers(s) \/ Writes(s)
<1>1. CASE Replay(s)
  BY <1>1 DEF Replay, Answers, Finds, At, Open, Untouched
<1>2. CASE Deny(s)
  BY <1>2 DEF Deny, Answers, At, Open, Untouched
<1>3. CASE Attempt(s) \/ Retry(s)
  BY <1>3, PutKinds DEF Attempt, Retry, At, Open, Pending, Doubtful
<1>4. CASE ReadBack(s)
  BY <1>4 DEF ReadBack, ReadsBack, Continues, Answers, Finds, At, Open, Pending, Doubtful, Untouched
<1>5. CASE Recheck(s)
  BY <1>5 DEF Recheck, Continues, Answers, At, Open, Pending, Doubtful, Untouched
<1>6. CASE Reread(s)
  BY <1>6 DEF Reread, ReadsBack, Answers, Finds, At, Open, Pending, Doubtful, Untouched
<1>. QED
  BY <1>1, <1>2, <1>3, <1>4, <1>5, <1>6

-----------------------------------------------------------------------------
(* Every step keeps the invariant.                                          *)

LEMMA BeginsKeeps ==
  ASSUME WorkforceInv, NEW s \in Services, Begins(s) PROVE WorkforceInv'
<1>1. PICK op \in SharedOps \cup {s}, request \in Requests :
        calls' = [calls EXCEPT ![s] = [NoCall EXCEPT !.pc = "asked", !.op = op, !.request = request]]
  BY DEF Begins
<1>2. PICK c : c = [NoCall EXCEPT !.pc = "asked", !.op = op, !.request = request]
  OBVIOUS
<1>3. c = [ pc |-> "asked", op |-> op, request |-> request, expected |-> NoRevision,
            record |-> NoRecord, wrote |-> FALSE ]
  BY <1>2 DEF NoCall
<1>4. calls[s] = NoCall
  BY DEF Begins, At, WorkforceInv, CallOK
<1>5. ops[s] = None
  <2>1. NoCall.op = None /\ s \in Ops
    BY DEF NoCall, Ops
  <2>. QED
    BY <1>4, <2>1, IdsAssumption DEF WorkforceInv
<1>6. CallOK(s, c)
  <2>1. op \in Services => ops[op] = None
    BY <1>5, IdsAssumption
  <2>. QED
    BY <1>3, <2>1 DEF CallOK, CallShape, Points, Open, Pending, Doubtful, NoRevision
<1>7. calls' = [calls EXCEPT ![s] = c]
  BY <1>1, <1>2
<1>. QED
  BY <1>5, <1>6, <1>7, QuietKeeps DEF Begins

LEMMA PreparesKeeps ==
  ASSUME WorkforceInv, NEW s \in Services, Prepares(s) PROVE WorkforceInv'
<1>1. PICK q, op, d : /\ q = calls[s].request /\ op = calls[s].op /\ d = calls[s]
                      /\ q \in Requests
  BY CallFacts DEF Prepares, At, Open
<1>2. PICK expected, r :
        /\ expected \in Int
        /\ Kind(q.id, r) /\ (q.id \in Revisioned => Revises(q.id, expected, r))
        /\ calls' = [calls EXCEPT ![s].pc = "attempt", ![s].expected = expected, ![s].record = r]
  BY <1>1 DEF Prepares
<1>3. /\ d = [ pc |-> "asked", op |-> op, request |-> q, expected |-> d.expected,
               record |-> d.record, wrote |-> FALSE ]
      /\ op \in SharedOps \cup {s}
  BY <1>1 DEF Prepares, At, WorkforceInv, CallOK, CallShape
<1>4. PICK c : c = [ pc |-> "attempt", op |-> op, request |-> q, expected |-> expected,
                     record |-> r, wrote |-> FALSE ]
  OBVIOUS
<1>5. c = [d EXCEPT !.pc = "attempt", !.expected = expected, !.record = r]
  <2>1. PICK m : m = [d EXCEPT !.pc = "attempt"]
    OBVIOUS
  <2>2. PICK e, was, w : e = d.expected /\ was = d.record /\ w = FALSE
    OBVIOUS
  <2>3. /\ d = [ pc |-> "asked", op |-> op, request |-> q, expected |-> e, record |-> was,
                 wrote |-> w ]
        /\ c = [ pc |-> "attempt", op |-> op, request |-> q, expected |-> expected,
                 record |-> r, wrote |-> w ]
    BY <1>3, <1>4, <2>2
  <2>4. m = [ pc |-> "attempt", op |-> op, request |-> q, expected |-> e, record |-> was,
              wrote |-> w ]
    BY <2>1, <2>3
  <2>5. PICK n : n = [m EXCEPT !.expected = expected]
    OBVIOUS
  <2>6. n = [ pc |-> "attempt", op |-> op, request |-> q, expected |-> expected,
              record |-> was, wrote |-> w ]
    BY <2>4, <2>5
  <2>7. c = [n EXCEPT !.record = r]
    BY <2>3, <2>6
  <2>. QED
    BY <2>1, <2>5, <2>7
<1>6. calls' = [calls EXCEPT ![s] = c]
  BY <1>1, <1>2, <1>5
<1>a. op \in Services => ops[op] \in {None, q}
  BY <1>1 DEF Prepares, At, WorkforceInv, CallOK, Open
<1>7. CallOK(s, c)
  BY <1>1, <1>2, <1>3, <1>4, <1>a DEF CallOK, CallShape, Points, Open, Pending, Doubtful
<1>8. ops[s] # None => op = s
  BY <1>1 DEF WorkforceInv
<1>. QED
  BY <1>4, <1>6, <1>7, <1>8, QuietKeeps DEF Prepares

\* A call that has its answer keeps its operation id and nothing else.
LEMMA AnsweredCall ==
  ASSUME NEW s \in Services, NEW d, CallShape(d), d.op \in SharedOps \cup {s},
         NEW answer \in {"recorded", "refused", "unknown"}
  PROVE  CallOK(s, Answered(d, answer)) /\ Answered(d, answer).op = d.op
<1>1. PICK c : c = Answered(d, answer)
  OBVIOUS
<1>2. c = [ pc |-> answer, op |-> d.op, request |-> NoRequest, expected |-> NoRevision,
            record |-> NoRecord, wrote |-> d.wrote ]
  BY <1>1 DEF Answered, CallShape
<1>3. CallOK(s, c)
  BY <1>2 DEF CallOK, CallShape, Points, Open, Pending, Doubtful, NoRevision
<1>. QED
  BY <1>1, <1>2, <1>3

LEMMA AnswersKeeps ==
  ASSUME WorkforceInv, NEW s \in Services, Answers(s) \/ Rejects(s) PROVE WorkforceInv'
<1>1. PICK answer \in {"recorded", "refused", "unknown"} :
        calls' = [calls EXCEPT ![s] = Answered(calls[s], answer)]
  BY DEF Answers, Rejects, Refuse
<1>2. Untouched /\ calls[s].pc # "idle"
  BY DEF Answers, Rejects, At, Open, Pending, Doubtful
<1>3. PICK d, c : d = calls[s] /\ c = Answered(d, answer)
  OBVIOUS
<1>4. CallShape(d) /\ d.op \in SharedOps \cup {s}
  BY <1>2, <1>3, CallFacts
<1>5. CallOK(s, c) /\ c.op = d.op
  BY <1>3, <1>4, AnsweredCall
<1>6. calls' = [calls EXCEPT ![s] = c]
  BY <1>1, <1>3
<1>7. ops[s] # None => c.op = s
  BY <1>3, <1>5 DEF WorkforceInv
<1>. QED
  BY <1>2, <1>5, <1>6, <1>7, QuietKeeps

LEMMA ContinuesKeeps ==
  ASSUME WorkforceInv, NEW s \in Services, Continues(s) PROVE WorkforceInv'
<1>1. PICK p \in Doubtful : calls' = [calls EXCEPT ![s] = [calls[s] EXCEPT !.pc = p]]
  BY DEF Continues
<1>2. PICK d, c : d = calls[s] /\ c = [d EXCEPT !.pc = p]
  OBVIOUS
<1>3. CallOK(s, d) /\ d.pc \in Pending
  BY <1>2 DEF WorkforceInv, Continues
<1>4. c = [ pc |-> p, op |-> d.op, request |-> d.request, expected |-> d.expected,
            record |-> d.record, wrote |-> d.wrote ]
  BY <1>2, <1>3 DEF CallOK, CallShape
<1>5. CallOK(s, c)
  BY <1>3, <1>4 DEF CallOK, CallShape, Points, Open, Pending, Doubtful
<1>6. ops[s] # None => c.op = s
  BY <1>2, <1>4 DEF WorkforceInv
<1>7. calls' = [calls EXCEPT ![s] = c]
  BY <1>1, <1>2
<1>. QED
  BY <1>5, <1>6, <1>7, QuietKeeps DEF Continues

\* Time passes, or nothing happens.
LEMMA SameStoreKeeps ==
  ASSUME WorkforceInv, UNCHANGED <<store, history, ops, calls>>, now' \in Times
  PROVE  WorkforceInv'
<1>1. ASSUME NEW t \in Services PROVE CallOK(t, calls[t])'
  <2>1. PICK d : d = calls[t]
    OBVIOUS
  <2>2. CallOK(t, d) /\ CallOK(t, d)' = CallOK(t, d)
    BY <2>1, SameCall DEF WorkforceInv
  <2>. QED
    BY <2>1, <2>2
<1>2. ASSUME NEW id \in Ids PROVE Recorded(id)' => Kind(id, store[id])'
  <2>1. PICK r : r = store[id]
    OBVIOUS
  <2>2. Recorded(id)' = Recorded(id) /\ Kind(id, r)' = Kind(id, r)
    BY SameKind DEF Recorded
  <2>. QED
    BY <2>1, <2>2 DEF WorkforceInv
<1>3. \A id \in Revisioned : PastComplete(id)'
  BY SamePast DEF WorkforceInv
<1>4. NoShadow'
  BY DEF WorkforceInv, NoShadow, Recorded
<1>. QED
  BY <1>1, <1>2, <1>3, <1>4 DEF WorkforceInv

LEMMA ReturnKeeps ==
  ASSUME WorkforceInv, NEW s \in Services, Return(s) PROVE WorkforceInv'
<1>1. /\ calls' = [calls EXCEPT ![s] = NoCall] /\ ops' = [ops EXCEPT ![s] = None]
      /\ UNCHANGED store /\ UNCHANGED history /\ UNCHANGED now
  BY DEF Return
<1>2. s \in Ops /\ ops \in [Ops -> Requests \cup {None}]
  BY DEF Ops, WorkforceInv
<1>3. calls' = [t \in Services |-> calls'[t]] /\ calls'[s] = NoCall
      /\ \A t \in Services : t # s => calls'[t] = calls[t]
  BY <1>1 DEF WorkforceInv
<1>4. ASSUME NEW t \in Services PROVE CallOK(t, calls[t])'
  <2>1. CASE t = s
    <3>1. CallShape(NoCall)
      BY DEF CallShape, NoCall, Points, NoRevision
    <3>2. CallOK(t, NoCall)'
      BY <3>1 DEF CallOK, NoCall, Open, Pending, Doubtful
    <3>. QED
      BY <1>3, <2>1, <3>2
  <2>2. CASE t # s
    <3>1. PICK d : d = calls[t]
      OBVIOUS
    <3>2. d = calls'[t] /\ CallOK(t, d)
      BY <1>3, <2>2, <3>1 DEF WorkforceInv
    <3>3. Kind(d.request.id, d.record)' = Kind(d.request.id, d.record)
      BY <1>1, SameKind
    <3>4. Revises(d.request.id, d.expected, d.record)' = Revises(d.request.id, d.expected, d.record)
      BY <1>1 DEF Revises, Recorded, Embedded, Superseded
    <3>5. d.pc \in Open => ops'[d.op] = ops[d.op]
      <4> SUFFICES ASSUME d.pc \in Open PROVE ops'[d.op] = ops[d.op]
        OBVIOUS
      <4>1. d.op \in SharedOps \cup {t}
        BY <3>2 DEF CallOK, Open, Pending, Doubtful
      <4>2. d.op # s /\ d.op \in Ops
        BY <2>2, <4>1, IdsAssumption DEF Ops
      <4>. QED
        BY <1>1, <1>2, <4>2
    <3>6. CallOK(t, d)'
      BY <3>2, <3>3, <3>4, <3>5 DEF CallOK, Open
    <3>. QED
      BY <3>2, <3>6
  <2>. QED
    BY <2>1, <2>2
<1>5. ASSUME NEW id \in Ids PROVE Recorded(id)' => Kind(id, store[id])'
  <2>1. PICK r : r = store[id]
    OBVIOUS
  <2>2. Recorded(id)' = Recorded(id) /\ Kind(id, r)' = Kind(id, r)
    BY <1>1, SameKind DEF Recorded
  <2>. QED
    BY <1>1, <2>1, <2>2 DEF WorkforceInv
<1>6. \A id \in Revisioned : PastComplete(id)'
  BY <1>1, SamePast DEF WorkforceInv
<1>7. NoShadow'
  BY <1>1 DEF WorkforceInv, NoShadow, Recorded
<1>8. \A t \in Services : ops'[t] # None => calls'[t].op = t
  BY <1>1, <1>2, <1>3 DEF WorkforceInv, Ops
<1>9. ops' \in [Ops -> Requests \cup {None}]
  BY <1>1, <1>2
<1>10. now' \in Times /\ store' = [id \in Ids |-> store'[id]]
       /\ history' \in [Revisioned -> Seq(Entry)]
  BY <1>1 DEF WorkforceInv
<1>. QED
  BY <1>3, <1>4, <1>5, <1>6, <1>7, <1>8, <1>9, <1>10 DEF WorkforceInv

-----------------------------------------------------------------------------
(* A put that writes.                                                       *)

Puts(id, r, op, q) ==
  /\ store' = [store EXCEPT ![id] = r]
  /\ history' = IF id \in Revisioned /\ Recorded(id)
                THEN [history EXCEPT ![id] = Append(@, Superseded(id))] ELSE history
  /\ ops' = [ops EXCEPT ![op] = q]
  /\ UNCHANGED now

Replaces(id, expected, r) ==
  /\ Kind(id, r) /\ (id \in Revisioned => Revises(id, expected, r))
  /\ ~Shadows(id, r) /\ RevisionMatches(id, expected, r)

\* One record is new, the others stay; a record without revisions is never replaced.
LEMMA PutGrows ==
  ASSUME WorkforceInv, NEW id \in Ids, NEW expected, NEW r, NEW op, NEW q,
         Replaces(id, expected, r), Puts(id, r, op, q)
  PROVE  /\ store' = [j \in Ids |-> store'[j]] /\ store'[id] = r /\ Recorded(id)'
         /\ \A j \in Ids : j # id => store'[j] = store[j] /\ Recorded(j)' = Recorded(j)
         /\ \A j \in Ids : Recorded(j) => Recorded(j)'
         /\ \A j \in Ids \ Revisioned : Recorded(j) => store'[j] = store[j]
<1>1. store' = [store EXCEPT ![id] = r] /\ store = [j \in Ids |-> store[j]]
  BY DEF Puts, WorkforceInv
<1>2. store' = [j \in Ids |-> store'[j]] /\ store'[id] = r
      /\ \A j \in Ids : j # id => store'[j] = store[j]
  BY <1>1
<1>3. r # NoRecord
  BY KindIsRecord DEF Replaces
<1>4. id \notin Revisioned => ~Recorded(id)
  BY DEF Replaces, RevisionMatches
<1>. QED
  BY <1>2, <1>3, <1>4 DEF Recorded

\* What is true of a record stays true.
LEMMA PutKeepsKind ==
  ASSUME WorkforceInv, NEW id \in Ids, NEW expected, NEW r, NEW op, NEW q,
         Replaces(id, expected, r), Puts(id, r, op, q),
         NEW j \in Ids, NEW x, Kind(j, x)
  PROVE  Kind(j, x)'
<1>1. \A e \in Ids \ Revisioned : Recorded(e) => Recorded(e)' /\ store'[e] = store[e]
  BY PutGrows
<1>2. ASSUME AttributionShape(x), Supported(x) PROVE Supported(x)'
  <2>1. \A e \in x.support : e \in Ids \ Revisioned
    BY <1>2, KindsApart DEF AttributionShape
  <2>. QED
    BY <1>1, <1>2, <2>1 DEF Supported
<1>3. ASSUME Deserved(x) PROVE Deserved(x)'
  <2>1. \A t \in AttributionIds : t \in Ids \ Revisioned
    BY KindsApart
  <2>. QED
    BY <1>1, <1>3, <2>1 DEF Deserved
<1>. QED
  BY <1>2, <1>3 DEF Kind

LEMMA PutKeepsUnique ==
  ASSUME WorkforceInv, NEW id \in Ids, NEW expected, NEW r, NEW op, NEW q,
         Replaces(id, expected, r), Puts(id, r, op, q)
  PROVE  NoShadow'
<1> SUFFICES ASSUME NEW a \in Qualifications, NEW b \in Qualifications, Recorded(a)', Recorded(b)',
                    store'[a].agent = store'[b].agent,
                    store'[a].capability = store'[b].capability,
                    a # b
             PROVE  FALSE
  BY DEF NoShadow
<1>1. a \in Ids /\ b \in Ids
  BY DEF Ids, Revisioned
<1>2. ASSUME NEW e \in Qualifications, e # id, id \in Qualifications, Recorded(e)',
             store'[e].agent = r.agent, store'[e].capability = r.capability
      PROVE  FALSE
  <2>1. e \in Ids
    BY DEF Ids, Revisioned
  <2>2. Recorded(e) /\ store[e].agent = r.agent /\ store[e].capability = r.capability
    BY <1>2, <2>1, PutGrows
  <2>. QED
    BY <1>2, <2>2 DEF Replaces, Shadows
<1>3. CASE a = id
  BY <1>1, <1>2, <1>3, PutGrows
<1>4. CASE b = id
  BY <1>1, <1>2, <1>4, PutGrows
<1>5. CASE a # id /\ b # id
  BY ZenonT(60), <1>1, <1>5, PutGrows DEF WorkforceInv, NoShadow
<1>. QED
  BY <1>3, <1>4, <1>5

\* What the entry that is appended to the history of a record says.
LEMMA SupersededIsEntry ==
  ASSUME WorkforceInv, NEW id \in Revisioned, Recorded(id)
  PROVE  /\ Superseded(id) \in Entry /\ Superseded(id).revision = store[id].revision
         /\ store[id].revision \in Nat \ {0}
         /\ id \in Agents => /\ Superseded(id) \in AgentEntry
                             /\ Superseded(id).lifecycle = store[id].lifecycle
<1>1. id \in Ids /\ Kind(id, store[id])
  BY KindsApart DEF WorkforceInv
<1>2. PICK x, r : x = Superseded(id) /\ r = store[id]
  OBVIOUS
<1>3. CASE id \in Agents
  <2>1. /\ r.revision \in Nat \ {0} /\ r.lifecycle \in DOMAIN Transitions /\ r.role \in Roles
    BY <1>1, <1>2, <1>3 DEF Kind, AgentShape, Valid, ValidWorkforceRecord
  <2>2. x = [revision |-> r.revision, lifecycle |-> r.lifecycle, role |-> r.role]
    BY <1>2, <1>3 DEF Superseded
  <2>3. x \in AgentEntry
    BY <2>1, <2>2 DEF AgentEntry
  <2>. QED
    BY <1>2, <1>3, <2>1, <2>2, <2>3 DEF Entry
<1>4. CASE id \in Qualifications
  <2>1. /\ r.revision \in Nat \ {0} /\ r.status \in Statuses /\ r.expires \in Times \cup {Never}
    BY <1>1, <1>2, <1>4 DEF Kind, QualificationShape, Valid, ValidQualification
  <2>2. id \notin Agents
    BY <1>4, KindsApart
  <2>3. x = [revision |-> r.revision, status |-> r.status, expires |-> r.expires]
    BY <1>2, <2>2 DEF Superseded
  <2>4. x \in QualificationEntry
    BY <2>1, <2>3 DEF QualificationEntry
  <2>. QED
    BY <1>2, <2>1, <2>2, <2>3, <2>4 DEF Entry
<1>. QED
  BY <1>3, <1>4 DEF Revisioned

\* The history after a put.
LEMMA PutHistory ==
  ASSUME WorkforceInv, NEW id \in Ids, NEW expected, NEW r, NEW op, NEW q,
         Replaces(id, expected, r), Puts(id, r, op, q)
  PROVE  /\ history' \in [Revisioned -> Seq(Entry)]
         /\ \A j \in Revisioned : j # id \/ ~Recorded(j) => history'[j] = history[j]
         /\ id \in Revisioned /\ Recorded(id) =>
              history'[id] = Append(history[id], Superseded(id))
<1>1. history \in [Revisioned -> Seq(Entry)]
  BY DEF WorkforceInv
<1>2. CASE id \in Revisioned /\ Recorded(id)
  <2>1. PICK x \in Entry : x = Superseded(id)
    BY <1>2, SupersededIsEntry
  <2>2. history' = [history EXCEPT ![id] = Append(history[id], x)]
    BY <1>2, <2>1 DEF Puts
  <2>3. Append(history[id], x) \in Seq(Entry)
    BY <1>1, <1>2, AppendProperties
  <2>. QED
    BY <1>1, <1>2, <2>1, <2>2, <2>3
<1>3. CASE ~(id \in Revisioned /\ Recorded(id))
  BY <1>1, <1>3 DEF Puts
<1>. QED
  BY <1>2, <1>3

LEMMA PutKeepsPast ==
  ASSUME WorkforceInv, NEW id \in Ids, NEW expected, NEW r, NEW op, NEW q,
         Replaces(id, expected, r), Puts(id, r, op, q), NEW j \in Revisioned
  PROVE  PastComplete(j)'
<1>1. j \in Ids /\ PastComplete(j)
  BY KindsApart DEF WorkforceInv
<1>2. CASE j # id
  <2>1. Recorded(j)' = Recorded(j) /\ store'[j] = store[j] /\ history'[j] = history[j]
    BY <1>1, <1>2, PutGrows, PutHistory
  <2>. QED
    BY <1>1, <2>1 DEF PastComplete
<1>3. CASE j = id /\ ~Recorded(id)
  <2>1. expected = NoRevision /\ r.revision = 1
    BY <1>3 DEF Replaces, RevisionMatches
  <2>2. id \in Agents => r.history = <<>>
    BY <1>3, <2>1 DEF Replaces, Revises
  <2>3. history'[id] = <<>> /\ Len(<<>>) = 0 /\ <<>> \in Seq(AgentEntry)
    BY <1>1, <1>3, PutHistory DEF PastComplete
  <2>4. EndOf(<<>>) = <<>>
    BY LimitsAssumption DEF EndOf
  <2>5. Recorded(id)' /\ store'[id] = r
    BY PutGrows
  <2>. QED
    BY <1>3, <2>1, <2>2, <2>3, <2>4, <2>5 DEF PastComplete
<1>4. CASE j = id /\ Recorded(id)
  <2>1. PICK past, x, old : past = history[id] /\ x = Superseded(id) /\ old = store[id]
    OBVIOUS
  <2>2. /\ x \in Entry /\ x.revision = old.revision /\ old.revision \in Nat \ {0}
        /\ id \in Agents => x \in AgentEntry /\ x.lifecycle = old.lifecycle
    BY <1>4, <2>1, SupersededIsEntry
  <2>3. expected = old.revision /\ r.revision = expected + 1
    BY <1>4, <2>1 DEF Replaces, RevisionMatches
  <2>4. id \in Agents => /\ r.lifecycle \in Transitions[old.lifecycle] \cup {old.lifecycle}
                         /\ r.history = Embedded(id)
    BY <1>4, <2>1, <2>2, <2>3 DEF Replaces, Revises, NoRevision
  <2>5. Recorded(id)' /\ store'[id] = r /\ history'[id] = Append(past, x)
    BY <1>4, <2>1, PutGrows, PutHistory
  <2>6. past \in Seq(Entry)
    BY <1>4, <2>1 DEF WorkforceInv
  <2>7. PICK n \in Nat : n = Len(past)
    BY <2>6, LenProperties
  <2>8. /\ Len(Append(past, x)) = n + 1 /\ Append(past, x)[n + 1] = x
        /\ \A k \in 1..n : Append(past, x)[k] = past[k]
    BY <2>2, <2>6, <2>7, AppendProperties
  <2>9. n = old.revision - 1 /\ \A k \in 1..n : past[k].revision = k
    BY <1>1, <1>4, <2>1, <2>7 DEF PastComplete
  <2>10. x.revision = n + 1 /\ n + 1 = r.revision - 1
    BY <2>2, <2>3, <2>9
  <2>11. PICK new : new = Append(past, x)
    OBVIOUS
  <2>12. \A k \in 1..n + 1 : new[k].revision = k
    <3> SUFFICES ASSUME NEW k \in 1..n + 1 PROVE new[k].revision = k
      OBVIOUS
    <3>1. CASE k = n + 1
      BY <2>8, <2>10, <2>11, <3>1
    <3>2. CASE k # n + 1
      <4>1. k \in 1..n
        BY <3>2
      <4>. QED
        BY <2>8, <2>9, <2>11, <4>1
    <3>. QED
      BY <3>1, <3>2
  <2>13. ASSUME id \in Agents
         PROVE  /\ new \in Seq(AgentEntry)
                /\ \A k \in 1..n + 1 : k < n + 1 =>
                     new[k + 1].lifecycle \in Transitions[new[k].lifecycle] \cup {new[k].lifecycle}
                /\ r.lifecycle \in Transitions[new[n + 1].lifecycle] \cup {new[n + 1].lifecycle}
                /\ r.history = EndOf(new)
    <3>1. /\ past \in Seq(AgentEntry)
          /\ \A k \in 1..n : k < n =>
               past[k + 1].lifecycle \in Transitions[past[k].lifecycle] \cup {past[k].lifecycle}
          /\ n > 0 =>
               old.lifecycle \in Transitions[past[n].lifecycle] \cup {past[n].lifecycle}
          /\ old.history = EndOf(past)
      BY <1>1, <1>4, <2>1, <2>7, <2>13 DEF PastComplete
    <3>2. x \in AgentEntry /\ x.lifecycle = old.lifecycle
      BY <2>2, <2>13
    <3>3. new \in Seq(AgentEntry)
      BY <2>11, <3>1, <3>2, AppendProperties
    <3>4. ASSUME NEW k \in 1..n + 1, k < n + 1
          PROVE  new[k + 1].lifecycle \in Transitions[new[k].lifecycle] \cup {new[k].lifecycle}
      <4>1. k \in 1..n /\ new[k] = past[k]
        BY <2>8, <2>11, <3>4
      <4>2. CASE k < n
        <5>1. k + 1 \in 1..n
          BY <4>1, <4>2
        <5>2. new[k + 1] = past[k + 1]
          BY <2>8, <2>11, <5>1
        <5>. QED
          BY <3>1, <4>1, <4>2, <5>2
      <4>3. CASE ~(k < n)
        <5>1. k = n /\ n > 0
          BY <4>1, <4>3
        <5>. QED
          BY <2>8, <2>11, <3>1, <3>2, <4>1, <5>1
      <4>. QED
        BY <4>2, <4>3
    <3>5. r.lifecycle \in Transitions[new[n + 1].lifecycle] \cup {new[n + 1].lifecycle}
      BY <2>4, <2>8, <2>11, <2>13, <3>2
    <3>6. Embedded(id) = EndOf(Append(EndOf(past), x))
      <4>1. store[id].history = EndOf(past) /\ Superseded(id) = x
        BY <2>1, <3>1
      <4>. QED
        BY <4>1 DEF Embedded, EndOf
    <3>7. EndOf(Append(EndOf(past), x)) = EndOf(new)
      BY <2>11, <3>1, <3>2, EndOfEnd
    <3>8. r.history = EndOf(new)
      BY <2>4, <2>13, <3>6, <3>7
    <3>. QED
      BY <3>3, <3>4, <3>5, <3>8
  <2>14. Len(new) = n + 1 /\ n + 1 > 0 /\ history'[id] = new
    BY <2>5, <2>8, <2>11
  <2>. QED
    BY <1>4, <2>5, <2>10, <2>12, <2>13, <2>14 DEF PastComplete
<1>. QED
  BY <1>2, <1>3, <1>4

\* What is true of the call of another instance stays true.
LEMMA PutKeepsCall ==
  ASSUME WorkforceInv, NEW id \in Ids, NEW expected, NEW r, NEW op \in Ops, NEW q,
         Replaces(id, expected, r), Puts(id, r, op, q), ops[op] = None,
         NEW t \in Services, op # t, NEW d, CallOK(t, d)
  PROVE  CallOK(t, d)'
<1>a. d.pc \in Open /\ d.op \in Services => ops'[d.op] \in {None, d.request}
  <2> SUFFICES ASSUME d.pc \in Open, d.op \in Services PROVE ops'[d.op] \in {None, d.request}
    OBVIOUS
  <2>1. d.op = t
    BY IdsAssumption DEF CallOK, Open, Pending, Doubtful
  <2>2. ops'[d.op] = ops[d.op]
    BY <2>1 DEF Puts, WorkforceInv, Ops
  <2>. QED
    BY <2>2 DEF CallOK
<1> SUFFICES ASSUME d.pc \in Pending
             PROVE  /\ Kind(d.request.id, d.record)'
                    /\ d.request.id \in Revisioned =>
                         Revises(d.request.id, d.expected, d.record)'
                    /\ d.wrote => ops'[d.op] = d.request
  BY <1>a DEF CallOK
<1>1. /\ d.request \in Requests /\ d.request.id \in Ids /\ d.op \in Ops
      /\ Kind(d.request.id, d.record) /\ d.expected \in Int
  BY RequestsName DEF CallOK, CallShape, Open, Pending, Doubtful, Ops
<1>2. Kind(d.request.id, d.record)'
  BY <1>1, PutKeepsKind
<1>3. ASSUME d.wrote PROVE ops'[d.op] = d.request
  <2>1. ops[d.op] = d.request /\ d.request # None
    BY <1>1, <1>3, IdsAssumption DEF CallOK
  <2>. QED
    BY <1>1, <2>1 DEF Puts, WorkforceInv
<1>4. ASSUME NEW j \in Revisioned, j = d.request.id, NEW e, e = d.expected, NEW x, x = d.record
      PROVE  Revises(j, e, x)'
  <2>1. Revises(j, e, x) /\ j \in Ids /\ e \in Int
    BY <1>1, <1>4 DEF CallOK
  <2>2. CASE e = NoRevision
    BY <2>1, <2>2 DEF Revises
  <2>3. CASE e # NoRevision /\ j # id
    <3>1. Recorded(j)' = Recorded(j) /\ store'[j] = store[j]
      BY <2>1, <2>3, PutGrows
    <3>2. Embedded(j)' = Embedded(j)
      BY <3>1 DEF Embedded, Superseded
    <3>. QED
      BY <2>1, <3>1, <3>2 DEF Revises
  <2>4. CASE e # NoRevision /\ j = id
    <3>1. Recorded(id) /\ e <= store[id].revision /\ x.revision = e + 1
      BY <2>1, <2>4 DEF Revises
    <3>2. r.revision = store[id].revision + 1 /\ store[id].revision \in Nat
      BY <2>4, <3>1, SupersededIsEntry DEF Replaces, RevisionMatches
    <3>3. Recorded(id)' /\ store'[id] = r
      BY PutGrows
    <3>4. e <= r.revision /\ r.revision # e
      BY <2>1, <3>1, <3>2
    <3>. QED
      BY <2>4, <3>1, <3>3, <3>4 DEF Revises
  <2>. QED
    BY <2>2, <2>3, <2>4
<1>. QED
  BY <1>2, <1>3, <1>4

\* What becomes of the call that wrote.
LEMMA WriterIsOK ==
  ASSUME WorkforceInv, NEW s \in Services, Writes(s)
  PROVE  \E d : /\ calls' = [calls EXCEPT ![s] = d] /\ CallShape(d) /\ d.op = calls[s].op
                /\ d.pc \in Doubtful \cup {"recorded"} /\ d.wrote
                /\ d.pc \in Pending =>
                     /\ d.request = calls[s].request /\ d.expected = calls[s].expected
                     /\ d.record = calls[s].record
<1>1. PICK c : c = calls[s]
  OBVIOUS
<1>2. CallShape(c)
  BY <1>1 DEF WorkforceInv, CallOK
<1>3. PICK b : b = [c EXCEPT !.wrote = TRUE]
  OBVIOUS
<1>4. b = [ pc |-> c.pc, op |-> c.op, request |-> c.request, expected |-> c.expected,
            record |-> c.record, wrote |-> TRUE ]
  BY <1>2, <1>3 DEF CallShape
<1>5. CASE calls' = [calls EXCEPT ![s] = Answered([c EXCEPT !.wrote = TRUE], "recorded")]
  <2>1. PICK d : d = Answered(b, "recorded")
    OBVIOUS
  <2>2. d = [ pc |-> "recorded", op |-> c.op, request |-> NoRequest, expected |-> NoRevision,
              record |-> NoRecord, wrote |-> TRUE ]
    BY <1>4, <2>1 DEF Answered
  <2>3. calls' = [calls EXCEPT ![s] = d]
    BY <1>3, <1>5, <2>1
  <2>4. CallShape(d)
    BY <2>2 DEF CallShape, Points, NoRevision
  <2>5. d.op = calls[s].op /\ d.pc = "recorded" /\ d.wrote
    BY <1>1, <2>2
  <2>6. d.pc \notin Pending
    BY <2>5 DEF Open, Pending, Doubtful
  <2>. QED
    BY <2>3, <2>4, <2>5, <2>6
<1>6. ASSUME NEW p \in Doubtful,
             calls' = [calls EXCEPT ![s] = [c EXCEPT !.wrote = TRUE, !.pc = p]]
      PROVE  \E d : /\ calls' = [calls EXCEPT ![s] = d] /\ CallShape(d) /\ d.op = calls[s].op
                    /\ d.pc \in Doubtful \cup {"recorded"} /\ d.wrote
                    /\ d.pc \in Pending =>
                         /\ d.request = calls[s].request /\ d.expected = calls[s].expected
                         /\ d.record = calls[s].record
  <2>1. PICK d : d = [b EXCEPT !.pc = p]
    OBVIOUS
  <2>2. d = [ pc |-> p, op |-> c.op, request |-> c.request, expected |-> c.expected,
              record |-> c.record, wrote |-> TRUE ]
    BY <1>4, <2>1
  <2>3. calls' = [calls EXCEPT ![s] = d]
    BY <1>3, <1>6, <2>1
  <2>4. CallShape(d)
    BY <1>2, <2>2 DEF CallShape, Points, Pending
  <2>5. /\ d.op = calls[s].op /\ d.pc \in Doubtful /\ d.wrote
        /\ d.request = calls[s].request /\ d.expected = calls[s].expected
        /\ d.record = calls[s].record
    BY <1>1, <2>2
  <2>. QED
    BY <2>3, <2>4, <2>5
<1>. QED
  BY <1>1, <1>5, <1>6 DEF Writes

LEMMA WritesKeeps ==
  ASSUME WorkforceInv, NEW s \in Services, Writes(s) PROVE WorkforceInv'
<1>1. PICK c : c = calls[s]
  OBVIOUS
<1>2. /\ CallOK(s, c) /\ c.pc \in Pending /\ ops[c.op] = None
      /\ ~Shadows(c.request.id, c.record)
      /\ RevisionMatches(c.request.id, c.expected, c.record)
  BY <1>1 DEF WorkforceInv, Writes
<1>a. PICK r : r = c.record
  OBVIOUS
<1>3. PICK q \in Requests, op \in SharedOps \cup {s}, expected \in Int, id \in Ids :
        /\ q = c.request /\ op = c.op /\ expected = c.expected /\ r = c.record /\ id = q.id
  <2>1. /\ c.request \in Requests /\ c.op \in SharedOps \cup {s} /\ c.expected \in Int
        /\ c.request.id \in Ids
    BY <1>2, RequestsName DEF CallOK, CallShape, Open, Pending, Doubtful
  <2>. QED
    BY <1>a, <2>1
<1>4. op \in Ops /\ ops[op] = None
  BY <1>2, <1>3 DEF Ops
<1>5. Replaces(id, expected, r)
  BY <1>2, <1>3 DEF Replaces, CallOK
<1>6. Puts(id, r, op, q)
  BY <1>1, <1>3 DEF Writes, PutWrites, Puts
<1>7. PICK d : /\ calls' = [calls EXCEPT ![s] = d] /\ CallShape(d) /\ d.op = op
               /\ d.pc \in Doubtful \cup {"recorded"} /\ d.wrote
               /\ d.pc \in Pending => d.request = q /\ d.expected = expected /\ d.record = r
  BY <1>1, <1>3, WriterIsOK
<1>8. calls' = [t \in Services |-> calls'[t]] /\ calls'[s] = d
      /\ \A t \in Services : t # s => calls'[t] = calls[t]
  BY <1>7 DEF WorkforceInv
<1>9. ops \in [Ops -> Requests \cup {None}] /\ ops' = [ops EXCEPT ![op] = q]
  BY <1>6 DEF WorkforceInv, Puts
<1>10. CallOK(s, d)'
  <2>1. Kind(id, r)'
    BY <1>5, <1>6, PutKeepsKind DEF Replaces
  <2>2. id \in Revisioned => Revises(id, expected, r)'
    <3> SUFFICES ASSUME id \in Revisioned, expected # NoRevision PROVE Revises(id, expected, r)'
      BY <1>5 DEF Replaces, Revises
    <3>1. Recorded(id) /\ expected = store[id].revision /\ r.revision = expected + 1
      BY <1>5 DEF Replaces, RevisionMatches
    <3>2. Recorded(id)' /\ store'[id] = r
      BY <1>5, <1>6, PutGrows
    <3>3. expected <= r.revision /\ r.revision # expected
      BY <3>1
    <3>. QED
      BY <3>1, <3>2, <3>3 DEF Revises
  <2>3. ops'[op] = q
    BY <1>4, <1>9
  <2>. QED
    BY <1>3, <1>7, <2>1, <2>2, <2>3 DEF CallOK, Open, Pending, Doubtful
<1>11. ASSUME NEW t \in Services PROVE CallOK(t, calls[t])'
  <2>1. CASE t = s
    BY <1>8, <1>10, <2>1
  <2>2. CASE t # s
    <3>1. PICK b : b = calls[t]
      OBVIOUS
    <3>2. CallOK(t, b) /\ b = calls'[t]
      BY <1>8, <2>2, <3>1 DEF WorkforceInv
    <3>3. op # t
      BY <2>2, IdsAssumption
    <3>4. CallOK(t, b)'
      BY <1>4, <1>5, <1>6, <3>2, <3>3, PutKeepsCall
    <3>. QED
      BY <3>2, <3>4
  <2>. QED
    BY <2>1, <2>2
<1>12. ASSUME NEW j \in Ids PROVE Recorded(j)' => Kind(j, store[j])'
  <2>1. CASE j = id
    <3>1. Kind(id, r)' /\ store'[id] = r
      BY <1>5, <1>6, PutKeepsKind, PutGrows DEF Replaces
    <3>. QED
      BY <2>1, <3>1
  <2>2. CASE j # id
    <3>1. PICK x : x = store[j]
      OBVIOUS
    <3>2. Recorded(j)' = Recorded(j) /\ store'[j] = x
      BY <1>5, <1>6, <2>2, <3>1, PutGrows
    <3>3. Recorded(j) => Kind(j, x)'
      BY <1>5, <1>6, <3>1, PutKeepsKind DEF WorkforceInv
    <3>. QED
      BY <3>2, <3>3
  <2>. QED
    BY <2>1, <2>2
<1>13. \A j \in Revisioned : PastComplete(j)'
  BY <1>5, <1>6, PutKeepsPast
<1>14. NoShadow'
  BY <1>5, <1>6, PutKeepsUnique
<1>15. ASSUME NEW t \in Services, ops'[t] # None PROVE calls'[t].op = t
  <2>1. t \in Ops
    BY DEF Ops
  <2>2. CASE t = op
    <3>1. t = s
      BY <2>2, IdsAssumption
    <3>. QED
      BY <1>7, <1>8, <2>2, <3>1
  <2>3. CASE t # op
    <3>1. ops[t] # None
      BY <1>9, <1>15, <2>1, <2>3
    <3>2. calls[t].op = t
      BY <3>1 DEF WorkforceInv
    <3>. QED
      BY <1>1, <1>3, <1>7, <1>8, <3>2
  <2>. QED
    BY <2>2, <2>3
<1>16. ops' \in [Ops -> Requests \cup {None}]
  BY <1>9
<1>17. /\ now' \in Times /\ store' = [j \in Ids |-> store'[j]]
       /\ history' \in [Revisioned -> Seq(Entry)]
  BY <1>5, <1>6, PutGrows, PutHistory DEF WorkforceInv, Puts
<1>. QED
  BY <1>8, <1>11, <1>12, <1>13, <1>14, <1>15, <1>16, <1>17 DEF WorkforceInv

LEMMA WorkforceInvStep ==
  ASSUME WorkforceInv, [WorkforceNext]_workforceVars PROVE WorkforceInv'
<1>1. CASE UNCHANGED workforceVars
  BY <1>1, SameStoreKeeps DEF workforceVars, WorkforceInv
<1>2. CASE Tick
  <2>1. now' \in Times
    BY <1>2, LimitsAssumption DEF Tick, WorkforceInv, Times
  <2>. QED
    BY <1>2, <2>1, SameStoreKeeps DEF Tick
<1>3. ASSUME NEW s \in Services, Ask(s) PROVE WorkforceInv'
  <2>1. Begins(s)
    BY <1>3 DEF Ask, Begins, Untouched
  <2>. QED
    BY <2>1, BeginsKeeps
<1>4. ASSUME NEW s \in Services, Operation(s) PROVE WorkforceInv'
  BY <1>4, OperationPrepares, PreparesKeeps, AnswersKeeps
<1>5. ASSUME NEW s \in Services,
             \/ Replay(s) \/ Deny(s)
             \/ Attempt(s) \/ ReadBack(s) \/ Recheck(s) \/ Retry(s) \/ Reread(s)
      PROVE  WorkforceInv'
  BY <1>5, CallKinds, ContinuesKeeps, AnswersKeeps, WritesKeeps
<1>6. ASSUME NEW s \in Services, Return(s) PROVE WorkforceInv'
  BY <1>6, ReturnKeeps
<1>. QED
  BY <1>1, <1>2, <1>3, <1>4, <1>5, <1>6 DEF WorkforceNext

\* The invariant holds throughout.
THEOREM WorkforceInvAlways == WorkforceSpec => []WorkforceInv
<1>1. WorkforceInit => WorkforceInv
  BY WorkforceInvInit
<1>2. WorkforceInv /\ [WorkforceNext]_workforceVars => WorkforceInv'
  BY WorkforceInvStep
<1>. QED
  BY <1>1, <1>2, PTL DEF WorkforceSpec

-----------------------------------------------------------------------------
(* What the invariant says to those who read the records.                   *)

\* The evaluation that counts is one of the recorded ones of the agent: of those
\* generated last there is a last one.
LEMMA LatestIsRecorded ==
  ASSUME WorkforceInv, NEW agent, LatestEvaluation(agent) # None
  PROVE  LatestEvaluation(agent) \in EvaluationIds /\ Recorded(LatestEvaluation(agent))
<1> DEFINE found == {k \in DOMAIN Evaluations :
                       Recorded(Evaluations[k]) /\ store[Evaluations[k]].agent = agent}
           generated(k) == store[Evaluations[k]].generated
           Newest(k) == \A j \in found \ {k} :
                        generated(j) < generated(k) \/ (generated(j) = generated(k) /\ j < k)
<1>1. found # {}
  BY DEF LatestEvaluation
<1>2. found \subseteq Nat /\ \A k \in found : k \in 1..Len(Evaluations)
  BY IdsAssumption
<1>3. \A k \in found : generated(k) \in Nat /\ generated(k) <= MaxTime
  <2> SUFFICES ASSUME NEW k \in found PROVE generated(k) \in Nat /\ generated(k) <= MaxTime
    OBVIOUS
  <2>1. Evaluations[k] \in EvaluationIds /\ Recorded(Evaluations[k])
    BY DEF EvaluationIds, ToSet
  <2>2. generated(k) \in Times
    BY <2>1, KindsApart DEF WorkforceInv, Kind, EvaluationShape
  <2>. QED
    BY <2>2, LimitsAssumption DEF Times
<1>4. \E k \in found : Newest(k)
  <2> DEFINE age == {MaxTime - generated(k) : k \in found}
  <2> HIDE DEF found, generated
  <2>1. age \subseteq Nat /\ age # {}
    BY <1>1, <1>3, LimitsAssumption
  <2>2. PICK a \in age : \A b \in age : a <= b
    <3> HIDE DEF age
    <3>. QED
      BY <2>1, LeastOfNaturals
  <2> DEFINE newest == {k \in found : MaxTime - generated(k) = a}
             place == {Len(Evaluations) - k : k \in newest}
  <2>3. newest # {} /\ newest \subseteq found
    BY <2>2
  <2>4. place \subseteq Nat /\ place # {}
    <3>1. Len(Evaluations) \in Nat
      BY IdsAssumption, LenProperties
    <3>2. \A k \in newest : k \in Nat /\ k \in 1..Len(Evaluations)
      BY <1>2, <2>3
    <3> HIDE DEF newest
    <3>3. \A k \in newest : Len(Evaluations) - k \in Nat
      BY <3>1, <3>2
    <3>. QED
      BY <2>3, <3>3
  <2>5. PICK p \in place : \A b \in place : p <= b
    <3> HIDE DEF place
    <3>. QED
      BY <2>4, LeastOfNaturals
  <2>6. PICK k \in newest : p = Len(Evaluations) - k
    BY <2>5
  <2>7. ASSUME NEW j \in found, j # k
        PROVE  generated(j) < generated(k) \/ (generated(j) = generated(k) /\ j < k)
    <3>1. generated(k) \in Nat /\ MaxTime - generated(k) = a /\ generated(j) \in Nat
      BY <1>3, <2>6
    <3>2. a <= MaxTime - generated(j)
      BY <2>2
    <3>3. j \in Nat /\ k \in Nat /\ Len(Evaluations) \in Nat
      BY <1>2, <2>6, IdsAssumption, LenProperties
    <3>4. CASE j \in newest
      <4>1. Len(Evaluations) - k <= Len(Evaluations) - j
        BY <2>5, <2>6, <3>4
      <4>2. MaxTime - generated(j) = a
        BY <3>4
      <4>. QED
        BY <2>7, <3>1, <3>3, <4>1, <4>2, LimitsAssumption
    <3>5. CASE j \notin newest
      <4>1. MaxTime - generated(j) # a
        BY <3>5
      <4>. QED
        BY <3>1, <3>2, <4>1, LimitsAssumption
    <3>. QED
      BY <3>4, <3>5
  <2>. QED
    BY <2>6, <2>7
<1>5. PICK k \in found : LatestEvaluation(agent) = Evaluations[k]
  BY <1>1, <1>4 DEF LatestEvaluation
<1>6. Evaluations[k] \in EvaluationIds /\ Recorded(Evaluations[k])
  BY DEF EvaluationIds, ToSet
<1>. QED
  BY <1>5, <1>6

LEMMA FactsAreValid ==
  ASSUME WorkforceInv, NEW a \in Agents, NEW c, Recorded(a) PROVE ValidFacts(FactsFor(a, c))
<1> DEFINE current == {q \in Qualifications : /\ Recorded(q) /\ store[q].agent = a
                                              /\ store[q].capability = c}
           latest == LatestEvaluation(a)
<1>1. store[a].lifecycle \in DOMAIN Transitions
  BY KindsApart DEF WorkforceInv, Kind, Valid, ValidWorkforceRecord
<1>2. (IF latest = None THEN "NORMAL" ELSE store[latest].state) \in EvaluationStates
  <2>1. CASE latest = None
    BY <2>1 DEF EvaluationStates
  <2>2. CASE latest # None
    <3>1. latest \in EvaluationIds /\ Recorded(latest)
      BY <2>2, LatestIsRecorded
    <3> HIDE DEF latest
    <3>2. Valid(latest, store[latest])
      BY <3>1, KindsApart DEF WorkforceInv, Kind
    <3>. QED
      BY <2>2, <3>1, <3>2 DEF Valid, ValidEvaluation
  <2>. QED
    BY <2>1, <2>2
<1>3. ASSUME NEW q \in current
      PROVE  /\ DerivedStatus(q) \in Statuses \cup {"EXPIRED"}
             /\ ~(DerivedStatus(q) = "QUALIFIED" /\ ExpiredAt(store[q].expires, now))
             /\ DerivedStatus(q) = "EXPIRED" => store[q].expires # Never
  <2>1. store[q].status \in Statuses /\ store[q].expires \in Times \cup {Never}
    BY KindsApart DEF WorkforceInv, Kind, Valid, ValidQualification, QualificationShape
  <2>2. now \in Times /\ Times \subseteq Nat /\ ~(Never <= now)
    BY LimitsAssumption DEF WorkforceInv, Times, Never
  <2>3. "EXPIRED" \notin Statuses
    BY DEF Statuses
  <2>. QED
    BY <2>1, <2>2, <2>3 DEF DerivedStatus, ExpiredAt
<1>4. PICK f : f = FactsFor(a, c)
  OBVIOUS
<1> HIDE DEF latest
<1>5. /\ f.lifecycle = store[a].lifecycle
      /\ f.evaluation = IF latest = None THEN "NORMAL" ELSE store[latest].state
      /\ f.qualifications = {[status |-> DerivedStatus(q), expires |-> store[q].expires] : q \in current}
  BY <1>4 DEF FactsFor, latest
<1>6. \A x \in f.qualifications :
        /\ x.status \in Statuses \cup {"EXPIRED"}
        /\ ~(x.status = "QUALIFIED" /\ ExpiredAt(x.expires, now))
        /\ x.status = "EXPIRED" => x.expires # Never
  <2> SUFFICES ASSUME NEW q \in current, NEW x,
                      x = [status |-> DerivedStatus(q), expires |-> store[q].expires]
               PROVE  /\ x.status \in Statuses \cup {"EXPIRED"}
                      /\ ~(x.status = "QUALIFIED" /\ ExpiredAt(x.expires, now))
                      /\ x.status = "EXPIRED" => x.expires # Never
    BY <1>5
  <2>. QED
    BY <1>3
<1>. QED
  BY <1>1, <1>2, <1>4, <1>5, <1>6 DEF ValidFacts

\* workforceFactsFor: every record passes its validator, an agent has one
\* qualification for a capability, and the facts that Organizational State reads
\* are such as it takes.
THEOREM WorkforceTypeCorrect == WorkforceSpec => []WorkforceTypeOK
<1>1. WorkforceInv => WorkforceTypeOK
  <2> SUFFICES ASSUME WorkforceInv PROVE WorkforceTypeOK
    OBVIOUS
  <2>1. now \in Times /\ \A id \in Ids : Recorded(id) => Valid(id, store[id])
    BY DEF WorkforceInv, Kind
  <2>2. ASSUME NEW a \in Agents, NEW c \in Capabilities
        PROVE  Cardinality({q \in Qualifications : /\ Recorded(q) /\ store[q].agent = a
                                                   /\ store[q].capability = c}) <= 1
    <3> DEFINE found == {q \in Qualifications : /\ Recorded(q) /\ store[q].agent = a
                                                /\ store[q].capability = c}
    <3>1. \A p, q \in found : p = q
      BY DEF WorkforceInv, NoShadow
    <3> HIDE DEF found
    <3>2. Cardinality(found) <= 1
      BY <3>1, AtMostOne
    <3>. QED
      BY <3>2 DEF found
  <2>. QED
    BY <2>1, <2>2, FactsAreValid DEF WorkforceTypeOK
<1>. QED
  BY <1>1, WorkforceInvAlways, PTL

\* put and the history entries: what a record said before is all there, once and
\* in order, each status allowed after the one before it.
THEOREM HistoryIsUnbroken == WorkforceSpec => []TruthUnbroken
<1>1. WorkforceInv => TruthUnbroken
  <2> SUFFICES ASSUME WorkforceInv, NEW id \in Revisioned, Recorded(id)
               PROVE  LET past == history[id] IN
                      /\ Len(past) = store[id].revision - 1
                      /\ \A k \in DOMAIN past : past[k].revision = k
                      /\ id \in Agents =>
                           LET statuses == [k \in 1..(Len(past) + 1) |->
                                  IF k > Len(past) THEN store[id].lifecycle ELSE past[k].lifecycle] IN
                           /\ \A k \in DOMAIN past :
                                statuses[k + 1] \in Transitions[statuses[k]] \cup {statuses[k]}
                           /\ IsSuffix(store[id].history, past)
                           /\ Len(store[id].history) =
                                IF Len(past) < MaxTransitions THEN Len(past) ELSE MaxTransitions
    BY DEF TruthUnbroken
  <2> DEFINE past == history[id]
             r == store[id]
             n == Len(past)
  <2>2. past \in Seq(Entry) /\ PastComplete(id)
    BY DEF WorkforceInv
  <2>3. n \in Nat /\ DOMAIN past = 1..n
    BY <2>2, LenProperties
  <2>4. n = r.revision - 1 /\ \A k \in 1..n : past[k].revision = k
    BY <2>2, <2>3 DEF PastComplete
  <2>5. ASSUME id \in Agents
        PROVE  LET statuses == [k \in 1..(n + 1) |->
                                  IF k > n THEN r.lifecycle ELSE past[k].lifecycle] IN
               /\ \A k \in 1..n : statuses[k + 1] \in Transitions[statuses[k]] \cup {statuses[k]}
               /\ IsSuffix(r.history, past)
               /\ Len(r.history) = IF n < MaxTransitions THEN n ELSE MaxTransitions
    <3>1. /\ past \in Seq(AgentEntry)
          /\ \A k \in 1..n : k < n =>
               past[k + 1].lifecycle \in Transitions[past[k].lifecycle] \cup {past[k].lifecycle}
          /\ n > 0 => r.lifecycle \in Transitions[past[n].lifecycle] \cup {past[n].lifecycle}
          /\ r.history = EndOf(past)
      BY <2>2, <2>3, <2>5 DEF PastComplete
    <3> HIDE DEF past, r, n
    <3> DEFINE statuses == [k \in 1..(n + 1) |-> IF k > n THEN r.lifecycle ELSE past[k].lifecycle]
    <3>2. ASSUME NEW k \in 1..n
          PROVE  statuses[k + 1] \in Transitions[statuses[k]] \cup {statuses[k]}
      <4>1. statuses[k] = past[k].lifecycle
        BY <2>3
      <4>2. CASE k = n
        <5>1. statuses[k + 1] = r.lifecycle /\ n > 0
          BY <4>2
        <5> HIDE DEF statuses
        <5>. QED
          BY <3>1, <4>1, <4>2, <5>1
      <4>3. CASE k # n
        <5>1. statuses[k + 1] = past[k + 1].lifecycle /\ k < n
          BY <2>3, <4>3
        <5> HIDE DEF statuses
        <5>. QED
          BY <3>1, <4>1, <5>1
      <4>. QED
        BY <4>2, <4>3
    <3>3. IsSuffix(r.history, past)
      BY <3>1, EndIsSuffix
    <3>4. Len(r.history) = IF n < MaxTransitions THEN n ELSE MaxTransitions
      BY <3>1, EndOfHistory DEF n
    <3>. QED
      BY <3>2, <3>3, <3>4
  <2>. QED
    BY <2>3, <2>4, <2>5
<1>. QED
  BY <1>1, WorkforceInvAlways, PTL

\* recordAttribution, evaluateAgentOps: no agent is blamed on its own word or for
\* nothing.
THEOREM BlameHasGrounds == WorkforceSpec => []BlameSubstantiated
<1>1. WorkforceInv => BlameSubstantiated
  <2> SUFFICES ASSUME WorkforceInv PROVE BlameSubstantiated
    OBVIOUS
  <2>1. ASSUME NEW t \in AttributionIds, Recorded(t)
        PROVE  Supported(store[t])
    BY <2>1, KindsApart DEF WorkforceInv, Kind
  <2>2. ASSUME NEW v \in EvaluationIds, Recorded(v)
        PROVE  Deserved(store[v])
    BY <2>2, KindsApart DEF WorkforceInv, Kind
  <2>. QED
    BY <2>1, <2>2 DEF Supported, Deserved, BlameSubstantiated
<1>. QED
  BY <1>1, WorkforceInvAlways, PTL

-----------------------------------------------------------------------------
(* The calls and the log, as OperationLog sees them.                        *)

CallSeen(c) ==
  [ state |-> Progress(c.pc), key |-> c.op,
    value |-> IF c.pc \in {"asked", "attempt"} \cup Doubtful THEN c.request ELSE None,
    wrote |-> c.wrote ]

callNow == [s \in Services |-> CallSeen(calls[s])]

\* The call of one instance changes, as OperationLog sees it.
LEMMA CallSeenChanges ==
  ASSUME WorkforceInv, NEW s \in Services, NEW d, calls' = [calls EXCEPT ![s] = d]
  PROVE  callNow' = [callNow EXCEPT ![s] = CallSeen(d)]
<1>1. calls'[s] = d /\ \A t \in Services : t # s => calls'[t] = calls[t]
  BY DEF WorkforceInv
<1>2. PICK x : x = CallSeen(d)
  OBVIOUS
<1>3. CallSeen(calls[s])' = x
  BY <1>1, <1>2 DEF CallSeen
<1>4. \A t \in Services : t # s => CallSeen(calls[t])' = CallSeen(calls[t])
  BY <1>1 DEF CallSeen
<1>5. callNow' = [callNow EXCEPT ![s] = x]
  <2>1. /\ callNow = [t \in Services |-> callNow[t]]
        /\ callNow' = [t \in Services |-> callNow'[t]]
    BY DEF callNow
  <2>2. callNow'[s] = x
    BY <1>3 DEF callNow
  <2>3. \A t \in Services : t # s => callNow'[t] = callNow[t]
    BY <1>4 DEF callNow
  <2>. QED
    BY <2>1, <2>2, <2>3
<1>. QED
  BY <1>2, <1>5

SeenAs(c, key) ==
  [ state |-> Progress(c.pc), key |-> key,
    value |-> IF c.pc \in Open THEN c.request ELSE None, wrote |-> c.wrote ]

\* The call that an instance has in progress, as OperationLog sees it.
LEMMA OpenIsWaiting ==
  ASSUME WorkforceInv, NEW s \in Services, calls[s].pc \in Open
  PROVE  /\ callNow[s].key = calls[s].op /\ callNow[s].key \in Ops /\ callNow[s].key # None
         /\ callNow[s].value = calls[s].request /\ callNow[s].value # None
         /\ callNow[s].wrote = calls[s].wrote /\ calls[s].wrote \in BOOLEAN
         /\ callNow[s].state = IF calls[s].pc \in Doubtful THEN "doubtful" ELSE "asked"
<1>1. /\ calls[s].op \in Ops /\ calls[s].wrote \in BOOLEAN
      /\ calls[s].request \in Requests /\ calls[s].request # None
  BY CallFacts DEF CallShape, Open, Pending, Doubtful
<1>2. Progress(calls[s].pc) = IF calls[s].pc \in Doubtful THEN "doubtful" ELSE "asked"
  BY DEF Progress, Open, Pending, Doubtful
<1>3. calls[s].pc \in {"asked", "attempt"} \cup Doubtful
  BY DEF Open, Pending
<1>. QED
  BY <1>1, <1>2, <1>3, IdsAssumption DEF callNow, CallSeen

\* A step of a call in progress, as OperationLog sees it.
LEMMA CallMoves ==
  ASSUME WorkforceInv, NEW s \in Services, calls[s].pc \in Open,
         NEW c, calls' = [calls EXCEPT ![s] = c], c.op = calls[s].op
  PROVE  callNow' = [callNow EXCEPT ![s] = SeenAs(c, callNow[s].key)]
<1>1. callNow' = [callNow EXCEPT ![s] = CallSeen(c)]
  BY CallSeenChanges
<1>2. PICK key : key = callNow[s].key
  OBVIOUS
<1>3. c.op = key
  BY <1>2, OpenIsWaiting
<1>4. CallSeen(c) = SeenAs(c, key)
  BY <1>3 DEF CallSeen, SeenAs, Open, Pending
<1>. QED
  BY <1>1, <1>2, <1>4

LEMMA AskRefines ==
  ASSUME WorkforceInv, NEW s \in Services, Begins(s)
  PROVE  Log!Ask(s) /\ callNow'[s] # callNow[s]
<1>1. PICK op \in SharedOps \cup {s}, request \in Requests :
        calls' = [calls EXCEPT ![s] = [NoCall EXCEPT !.pc = "asked", !.op = op, !.request = request]]
  BY DEF Begins
<1>2. PICK d : d = [NoCall EXCEPT !.pc = "asked", !.op = op, !.request = request]
  OBVIOUS
<1>3. CallSeen(d) = [state |-> "asked", key |-> op, value |-> request, wrote |-> FALSE]
  <2>1. d.pc = "asked" /\ d.op = op /\ d.request = request /\ d.wrote = FALSE
    BY <1>2 DEF NoCall
  <2>2. Progress("asked") = "asked"
    BY DEF Progress, Doubtful
  <2>. QED
    BY <2>1, <2>2 DEF CallSeen
<1>4. callNow[s] = [state |-> "none", key |-> None, value |-> None, wrote |-> FALSE]
  <2>1. calls[s] = NoCall
    BY DEF Begins, At, WorkforceInv, CallOK
  <2>2. CallSeen(NoCall) = [state |-> "none", key |-> None, value |-> None, wrote |-> FALSE]
    BY DEF NoCall, CallSeen, Progress, Doubtful
  <2>. QED
    BY <2>1, <2>2 DEF callNow
<1>5. callNow' = [callNow EXCEPT ![s] =
                    [state |-> "asked", key |-> op, value |-> request, wrote |-> FALSE]]
  BY <1>1, <1>2, <1>3, CallSeenChanges
<1>6. op \in Ops /\ request # None
  BY IdsAssumption DEF Ops
<1>7. callNow'[s] = [state |-> "asked", key |-> op, value |-> request, wrote |-> FALSE]
  BY <1>5 DEF callNow
<1>8. callNow'[s] # callNow[s] /\ callNow'[s].value = request
  BY <1>4, <1>7
<1>. QED
  BY <1>4, <1>5, <1>6, <1>8
  DEF Log!Ask, Log!NoCall, callNow, CallSeen, Begins, Untouched

\* What a step of a call makes of the other fields, OperationLog does not see.
LEMMA PreparesRefines ==
  ASSUME WorkforceInv, NEW s \in Services, Prepares(s)
  PROVE  callNow' = callNow
<1>1. PICK expected, r :
        calls' = [calls EXCEPT ![s].pc = "attempt", ![s].expected = expected, ![s].record = r]
  BY DEF Prepares
<1>2. PICK c : c = calls[s]
  OBVIOUS
<1>3. c = [ pc |-> c.pc, op |-> c.op, request |-> c.request, expected |-> c.expected,
            record |-> c.record, wrote |-> c.wrote ]
      /\ c.pc = "asked"
  BY <1>2 DEF WorkforceInv, CallOK, CallShape, Prepares, At
<1>4. PICK d : d = [c EXCEPT !.pc = "attempt", !.expected = expected, !.record = r]
  OBVIOUS
<1>5. calls' = [calls EXCEPT ![s] = d]
  BY <1>1, <1>2, <1>4
<1>6. d.op = c.op /\ d.request = c.request /\ d.wrote = c.wrote /\ d.pc = "attempt"
  BY <1>3, <1>4
<1>7. Progress("attempt") = "asked" /\ Progress("asked") = "asked"
  BY DEF Progress, Doubtful
<1>8. CallSeen(d) = callNow[s]
  BY <1>2, <1>3, <1>6, <1>7 DEF CallSeen, callNow
<1>9. callNow' = [callNow EXCEPT ![s] = CallSeen(d)]
  BY <1>5, CallSeenChanges
<1>. QED
  BY <1>8, <1>9 DEF callNow

\* A put that is answered AMBIGUOUS leaves the call in doubt; what comes then, but for
\* the answer, is not seen.
LEMMA ContinueRefines ==
  ASSUME WorkforceInv, NEW s \in Services, Continues(s)
  PROVE  callNow' = callNow \/ (Log!Doubt(s) /\ callNow'[s] # callNow[s])
<1>1. PICK p \in Doubtful : calls' = [calls EXCEPT ![s] = [calls[s] EXCEPT !.pc = p]]
  BY DEF Continues
<1>2. PICK c, d : c = calls[s] /\ d = [c EXCEPT !.pc = p]
  OBVIOUS
<1>3. calls' = [calls EXCEPT ![s] = d]
  BY <1>1, <1>2
<1>4. c = [ pc |-> c.pc, op |-> c.op, request |-> c.request, expected |-> c.expected,
            record |-> c.record, wrote |-> c.wrote ]
      /\ c.pc \in Pending /\ c.pc \in Open
  BY <1>2 DEF WorkforceInv, CallOK, CallShape, Continues, Open
<1>5. d.op = c.op /\ d.request = c.request /\ d.wrote = c.wrote /\ d.pc = p
  BY <1>2, <1>4
<1>6. callNow' = [callNow EXCEPT ![s] = SeenAs(d, callNow[s].key)]
  BY <1>2, <1>3, <1>4, <1>5, CallMoves
<1>7. PICK key, value, wrote :
        key = callNow[s].key /\ value = callNow[s].value /\ wrote = callNow[s].wrote
  OBVIOUS
<1>8. value = d.request /\ wrote = d.wrote
  BY <1>2, <1>4, <1>5, <1>7, OpenIsWaiting
<1>9. SeenAs(d, key) = [state |-> "doubtful", key |-> key, value |-> value, wrote |-> wrote]
  <2>1. Progress(p) = "doubtful" /\ p \in Open
    BY DEF Progress, Open, Pending, Doubtful
  <2>. QED
    BY <1>5, <1>8, <2>1 DEF SeenAs
<1>10. CASE c.pc \in Doubtful
  <2>1. CallSeen(d) = CallSeen(c)
    <3>1. Progress(p) = Progress(c.pc)
      BY <1>10 DEF Progress, Doubtful
    <3>. QED
      BY <1>5, <1>10, <3>1 DEF CallSeen
  <2>. QED
    BY <1>2, <1>3, <2>1, CallSeenChanges DEF callNow
<1>11. CASE c.pc \notin Doubtful
  <2>1. callNow[s].state = "asked"
    BY <1>2, <1>4, <1>11, OpenIsWaiting
  <2>2. callNow' = [callNow EXCEPT ![s] =
                      [ state |-> "doubtful", key |-> callNow[s].key,
                        value |-> callNow[s].value, wrote |-> callNow[s].wrote ]]
    BY <1>6, <1>7, <1>9
  <2>3. callNow'[s] # callNow[s]
    BY <2>1, <2>2 DEF callNow
  <2>4. UNCHANGED ops
    BY DEF Continues, Untouched
  <2>. QED
    BY <2>1, <2>2, <2>3, <2>4 DEF Log!Doubt, Log!Proceed, callNow, CallSeen
<1>. QED
  BY <1>10, <1>11

LEMMA TellRefines ==
  ASSUME WorkforceInv, NEW s \in Services, Answers(s) \/ Rejects(s)
  PROVE  Log!Tell(s) /\ callNow'[s] # callNow[s]
<1>1. PICK answer \in {"recorded", "refused", "unknown"} :
        /\ calls' = [calls EXCEPT ![s] = Answered(calls[s], answer)]
        /\ answer = "recorded" => Finds(s)
        /\ answer = "refused" => calls[s].pc = "asked" \/ ops[calls[s].op] # calls[s].request
  BY DEF Answers, Rejects, Refuse, At
<1>2. calls[s].pc \in Open /\ UNCHANGED ops
  BY DEF Answers, Rejects, At, Untouched, Open
<1>3. PICK c, d, wrote : c = calls[s] /\ d = Answered(c, answer) /\ wrote = callNow[s].wrote
  OBVIOUS
<1>4. d.pc = answer /\ d.op = c.op /\ d.wrote = wrote /\ wrote = c.wrote /\ wrote \in BOOLEAN
  <2>1. wrote = c.wrote /\ wrote \in BOOLEAN
    BY <1>2, <1>3, OpenIsWaiting
  <2>. QED
    BY <1>3, <2>1 DEF Answered, WorkforceInv, CallOK, CallShape
<1>5. callNow' = [callNow EXCEPT ![s] =
                    [state |-> answer, key |-> callNow[s].key, value |-> None, wrote |-> wrote]]
  <2>1. callNow' = [callNow EXCEPT ![s] = SeenAs(d, callNow[s].key)]
    BY <1>1, <1>2, <1>3, <1>4, CallMoves
  <2>2. PICK key : key = callNow[s].key
    OBVIOUS
  <2>3. SeenAs(d, key) = [state |-> answer, key |-> key, value |-> None, wrote |-> wrote]
    <3>1. Progress(answer) = answer /\ answer \notin Open
      BY DEF Progress, Open, Pending, Doubtful
    <3>. QED
      BY <1>4, <3>1 DEF SeenAs
  <2>. QED
    BY <2>1, <2>2, <2>3
<1>6. callNow' = [callNow EXCEPT ![s] =
                    [ state |-> answer, key |-> callNow[s].key, value |-> None,
                      wrote |-> callNow[s].wrote ]]
  BY <1>3, <1>5
<1>7. Log!Waiting(s)
  BY <1>2, OpenIsWaiting DEF Log!Waiting, callNow, CallSeen
<1>8. answer = "recorded" => Log!Found(s)
  <2> SUFFICES ASSUME answer = "recorded" PROVE Log!Found(s)
    OBVIOUS
  <2>1. callNow[s].key = c.op /\ callNow[s].value = c.request
    BY <1>2, <1>3, OpenIsWaiting
  <2>2. \/ ops[callNow[s].key] = callNow[s].value
        \/ /\ callNow[s].state = "doubtful" /\ callNow[s].key \notin Services
           /\ ops[callNow[s].key] # None
    <3>1. CASE ops[c.op] = c.request
      BY <2>1, <3>1
    <3>2. CASE ops[c.op] # c.request
      <4>1. c.pc \in Doubtful /\ ops[c.op] # None
        BY <1>1, <1>3, <3>2 DEF Finds
      <4>2. c.op \notin Services
        BY <1>2, <1>3, <3>2, <4>1 DEF WorkforceInv, CallOK
      <4>3. callNow[s].state = "doubtful"
        BY <1>2, <1>3, <4>1, OpenIsWaiting
      <4>. QED
        BY <2>1, <4>1, <4>2, <4>3
    <3>. QED
      BY <3>1, <3>2
  <2>. QED
    BY <2>2 DEF Log!Found, callNow, CallSeen
<1>9. answer = "refused" => ~wrote
  <2> SUFFICES ASSUME answer = "refused" PROVE ~c.wrote
    BY <1>4
  <2>. QED
    BY <1>1, <1>2, <1>3 DEF WorkforceInv, CallOK, Open
<1>10. callNow'[s] # callNow[s]
  <2>1. callNow'[s].value = None
    BY <1>5 DEF callNow
  <2>. QED
    BY <1>2, <2>1, OpenIsWaiting
<1>11. \/ Log!Found(s) /\ Log!Answer(s, "recorded", callNow[s].wrote)
       \/ ~callNow[s].wrote /\ Log!Answer(s, "refused", FALSE)
       \/ Log!Answer(s, "unknown", callNow[s].wrote)
  <2>1. CASE answer = "recorded"
    <3>1. Log!Answer(s, "recorded", callNow[s].wrote)
      BY <1>6, <2>1 DEF Log!Answer, callNow, CallSeen
    <3>. QED
      BY <1>8, <2>1, <3>1
  <2>2. CASE answer = "refused"
    <3>1. wrote = FALSE
      BY <1>4, <1>9, <2>2
    <3>2. Log!Answer(s, "refused", FALSE)
      BY <1>5, <2>2, <3>1 DEF Log!Answer, callNow, CallSeen
    <3>. QED
      BY <1>3, <3>1, <3>2
  <2>3. CASE answer = "unknown"
    <3>1. Log!Answer(s, "unknown", callNow[s].wrote)
      BY <1>6, <2>3 DEF Log!Answer, callNow, CallSeen
    <3>. QED
      BY <3>1
  <2>. QED
    BY <2>1, <2>2, <2>3
<1>. QED
  BY <1>2, <1>7, <1>10, <1>11 DEF Log!Tell, callNow, CallSeen

LEMMA WriteRefines ==
  ASSUME WorkforceInv, NEW s \in Services, Writes(s)
  PROVE  Log!Write(s) /\ callNow'[s] # callNow[s]
<1>1. PICK op, q, c : op = calls[s].op /\ q = calls[s].request /\ c = calls[s]
  OBVIOUS
<1>2. c.pc \in Pending /\ c.pc \in Open /\ CallOK(s, c) /\ ops[op] = None
      /\ ops' = [ops EXCEPT ![op] = q]
  BY <1>1 DEF Writes, PutWrites, WorkforceInv, Open
<1>3. q \in Requests /\ q # None /\ op \in Ops /\ op # None
  BY <1>1, <1>2, CallFacts, IdsAssumption DEF Open, Pending, Doubtful
<1>4. callNow[s].key = op /\ callNow[s].value = q /\ callNow[s].wrote = c.wrote /\ ~c.wrote
  <2>1. ~c.wrote
    BY <1>1, <1>2, <1>3 DEF CallOK
  <2>. QED
    BY <1>1, <1>2, <2>1, OpenIsWaiting
<1>5. PICK d : /\ calls' = [calls EXCEPT ![s] = d] /\ CallShape(d) /\ d.op = op
               /\ d.pc \in Doubtful \cup {"recorded"} /\ d.wrote
               /\ d.pc \in Pending => d.request = q
  BY <1>1, WriterIsOK
<1>6. PICK key, state, value, wrote :
        /\ key = callNow[s].key /\ state = Progress(d.pc) /\ wrote = d.wrote
        /\ value = IF d.pc \in Open THEN d.request ELSE None
  OBVIOUS
<1>7. wrote = TRUE
  BY <1>5, <1>6 DEF CallShape
<1>8. callNow' = [callNow EXCEPT ![s] =
                    [state |-> state, key |-> callNow[s].key, value |-> value, wrote |-> TRUE]]
  <2>1. callNow' = [callNow EXCEPT ![s] = SeenAs(d, callNow[s].key)]
    BY <1>1, <1>2, <1>5, CallMoves
  <2>2. SeenAs(d, key) = [state |-> state, key |-> key, value |-> value, wrote |-> wrote]
    BY <1>6 DEF SeenAs
  <2>. QED
    BY <1>6, <1>7, <2>1, <2>2
<1>9. Log!Proceed(s, "doubtful", TRUE) \/ Log!Answer(s, "recorded", TRUE)
  <2>1. CASE d.pc = "recorded"
    <3>1. state = "recorded" /\ value = None
      BY <1>6, <2>1 DEF Progress, Open, Pending, Doubtful
    <3>. QED
      BY <1>8, <3>1 DEF Log!Answer, callNow, CallSeen
  <2>2. CASE d.pc # "recorded"
    <3>1. state = "doubtful" /\ value = callNow[s].value
      BY <1>4, <1>5, <1>6, <2>2 DEF Progress, Open, Pending, Doubtful
    <3>2. callNow' = [callNow EXCEPT ![s] =
                        [ state |-> "doubtful", key |-> callNow[s].key,
                          value |-> callNow[s].value, wrote |-> TRUE ]]
      BY <1>8, <3>1
    <3>. QED
      BY <3>2 DEF Log!Proceed, callNow, CallSeen
  <2>. QED
    BY <2>1, <2>2
<1>10. callNow'[s] # callNow[s]
  <2>1. callNow'[s].wrote = TRUE
    BY <1>8 DEF callNow
  <2>. QED
    BY <1>4, <2>1
<1>11. Log!Waiting(s)
  BY <1>1, <1>2, OpenIsWaiting DEF Log!Waiting, callNow, CallSeen
<1>12. ops' = [ops EXCEPT ![op] = callNow[s].value]
  BY <1>2, <1>4
<1>. QED
  BY <1>2, <1>4, <1>9, <1>10, <1>11, <1>12 DEF Log!Write, callNow, CallSeen

LEMMA ReturnRefines ==
  ASSUME WorkforceInv, NEW s \in Services, Return(s)
  PROVE  Log!Return(s) /\ callNow'[s] # callNow[s]
<1>1. /\ calls[s].pc \in {"recorded", "refused", "unknown"}
      /\ calls' = [calls EXCEPT ![s] = NoCall] /\ ops' = [ops EXCEPT ![s] = None]
  BY DEF Return
<1>2. PICK op \in SharedOps \cup {s} : op = calls[s].op
  BY <1>1, CallFacts
<1>3. callNow[s].key = op /\ callNow[s].state \in {"recorded", "refused", "unknown"}
  BY <1>1, <1>2 DEF callNow, CallSeen, Progress, Doubtful
<1>4. CallSeen(NoCall) = [state |-> "none", key |-> None, value |-> None, wrote |-> FALSE]
  BY DEF CallSeen, NoCall, Progress, Doubtful
<1>5. callNow' = [callNow EXCEPT ![s] =
                    [state |-> "none", key |-> None, value |-> None, wrote |-> FALSE]]
  BY <1>1, <1>4, CallSeenChanges
<1>6. callNow'[s] # callNow[s]
  BY <1>3, <1>5 DEF callNow
<1>7. ops' = IF op \in Services THEN [ops EXCEPT ![op] = None] ELSE ops
  <2>1. CASE op = s
    BY <1>1, <2>1
  <2>2. CASE op # s
    <3>1. op \notin Services /\ ops[s] = None
      BY <1>2, <2>2, IdsAssumption DEF WorkforceInv
    <3>. QED
      BY <1>1, <3>1 DEF WorkforceInv
  <2>. QED
    BY <2>1, <2>2
<1>. QED
  BY <1>3, <1>5, <1>6, <1>7
  DEF Log!Return, Log!NoCall, callNow, CallSeen

LEMMA WorkforceLogInit == WorkforceInit => Log!LogInit
<1> SUFFICES ASSUME WorkforceInit PROVE Log!LogInit
  OBVIOUS
<1>1. callNow = [s \in Services |->
                   [state |-> "none", key |-> None, value |-> None, wrote |-> FALSE]]
  BY DEF WorkforceInit, callNow, CallSeen, NoCall, Progress, Doubtful
<1>2. DOMAIN ops = Ops /\ \A s \in Services : ops[s] = None
  BY DEF WorkforceInit, Ops
<1>. QED
  BY <1>1, <1>2 DEF Log!LogInit, Log!NoCall, callNow, CallSeen

LEMMA WorkforceLogStep ==
  ASSUME WorkforceInv, [WorkforceNext]_workforceVars PROVE [Log!LogNext]_Log!logVars
<1>1. ASSUME NEW s \in Services,
             Log!Ask(s) \/ Log!Write(s) \/ Log!Doubt(s) \/ Log!Tell(s) \/ Log!Return(s),
             callNow'[s] # callNow[s]
      PROVE  Log!LogNext
  BY <1>1 DEF Log!LogNext, callNow, CallSeen
<1>2. callNow' = callNow /\ ops' = ops => UNCHANGED Log!logVars
  BY DEF Log!logVars, callNow, CallSeen
<1>3. CASE UNCHANGED workforceVars
  BY <1>2, <1>3 DEF workforceVars, callNow
<1>4. CASE Tick
  BY <1>2, <1>4 DEF Tick, callNow
<1>5. ASSUME NEW s \in Services, Ask(s) PROVE [Log!LogNext]_Log!logVars
  <2>1. Begins(s)
    BY <1>5 DEF Ask, Begins, Untouched
  <2>. QED
    BY <1>1, <2>1, AskRefines
<1>6. ASSUME NEW s \in Services, Prepares(s) \/ Continues(s) PROVE [Log!LogNext]_Log!logVars
  <2>1. ops' = ops
    BY <1>6 DEF Prepares, Continues, Untouched
  <2>. QED
    BY <1>1, <1>2, <1>6, <2>1, PreparesRefines, ContinueRefines
<1>7. ASSUME NEW s \in Services, Answers(s) \/ Rejects(s) PROVE [Log!LogNext]_Log!logVars
  BY <1>1, <1>7, TellRefines
<1>8. ASSUME NEW s \in Services, Writes(s) PROVE [Log!LogNext]_Log!logVars
  BY <1>1, <1>8, WriteRefines
<1>9. ASSUME NEW s \in Services, Return(s) PROVE [Log!LogNext]_Log!logVars
  BY <1>1, <1>9, ReturnRefines
<1>10. CASE WorkforceNext /\ ~Tick
  <2>1. PICK s \in Services :
          \/ Ask(s) \/ Replay(s) \/ Deny(s) \/ Operation(s)
          \/ Attempt(s) \/ ReadBack(s) \/ Recheck(s) \/ Retry(s) \/ Reread(s) \/ Return(s)
    BY <1>10 DEF WorkforceNext
  <2>2. \/ Ask(s) \/ Prepares(s) \/ Rejects(s) \/ Continues(s) \/ Answers(s) \/ Writes(s)
        \/ Return(s)
    BY <2>1, OperationPrepares, CallKinds
  <2>. QED
    BY <1>5, <1>6, <1>7, <1>8, <1>9, <2>2
<1>. QED
  BY <1>3, <1>4, <1>10

\* #commit and #replayOperation: an operation id is recorded once, a refusal is only
\* said of what was not written, and "recorded" only of the request that was made,
\* whatever the store's ambiguous answers; but for an id that callers share, where a
\* call in doubt may be told so of another's request.
THEOREM WorkforceKeepsCommits == WorkforceSpec => CommitsKept
<1>1. WorkforceInit => Log!LogInit
  BY WorkforceLogInit
<1>2. WorkforceInv /\ [WorkforceNext]_workforceVars => [Log!LogNext]_Log!logVars
  BY WorkforceLogStep
<1>. QED
  BY <1>1, <1>2, WorkforceInvAlways, PTL DEF WorkforceSpec, CommitsKept, Log!LogSpec
===============================================================================
