---------------------------- MODULE CalendarProofs ----------------------------
(***************************************************************************)
(* Calendar, for any number of templates and evaluations, any schedules and *)
(* bounds, and whatever fails: a template never has two unfinished jobs, no *)
(* due window is lost or claimed twice, what an occurrence says was done is *)
(* what was done, and an occurrence that waits for review stops the rest.   *)
(*                                                                          *)
(* The argument.  A window is claimed only when every occurrence of the     *)
(* template is settled, so at most one is unsettled; only the holder of the *)
(* template's lock moves it on, and it submits a job only when the job of   *)
(* every predecessor has ended, which stays so since no other occurrence    *)
(* can be submitted in the meantime.                                        *)
(***************************************************************************)
EXTENDS Calendar, FiniteSetTheorems, WellFoundedInduction, TLAPS

-----------------------------------------------------------------------------
(* The invariant.                                                           *)

Unsettled == OpenStatuses \cup {"REVIEW_REQUIRED"}

\* The points of #process.
Processing == {"priors", "lookup", "accept"}

Over(t, w) == job[t][w] # "live"

\* An evaluation that holds nothing is at a point where it needs nothing.
HolderPoints(e) == ev[e].pc \in {"idle", "next"} <=> ev[e].template = None

\* A template that exists has a schedule, and one that is held is ACTIVE:
\* it cannot be edited meanwhile.
HeldTemplates(t) ==
  /\ templates[t].status # "ABSENT" => templates[t].schedule \in Schedules
  /\ lock[t] # None => templates[t].status = "ACTIVE"

\* At most one occurrence of a template is neither submitted nor skipped.
OneUnsettled(t) ==
  \A v, w \in Instants :
    occ[t][v].status \in Unsettled /\ occ[t][w].status \in Unsettled => v = w

\* While an occurrence may have a job that is not known of, no other has one.
SoleJob(t) ==
  \A v, w \in Instants :
    occ[t][w].status = "SUBMISSION_PENDING" /\ v # w => Over(t, v)

\* What #process relies on: its occurrence is the open one, the jobs of the
\* predecessors it has looked at are over, and what getJob answers is still so.
ProcessFacts(e) ==
  LET t == ev[e].template
      w == ev[e].window
      first == Min(ev[e].priors)
  IN
  /\ ev[e].pc \in Processing => occ[t][w].status \in OpenStatuses
  /\ ev[e].pc = "accept" => occ[t][w].status = "SUBMISSION_PENDING"
  /\ ev[e].pc \in {"priors", "lookup"} =>
       \A v \in Instants : v # w /\ v \notin ev[e].priors => Over(t, v)
  /\ ev[e].pc = "lookup" =>
       /\ ev[e].priors # {}
       /\ ev[e].seen = "ended" => Over(t, first)
       /\ ev[e].seen = "live" => occ[t][w].status = "DUE"

\* The open occurrences that were found and not yet retried.
PendingFacts(e) ==
  ev[e].pending # {} => /\ ev[e].pc = "retry"
                        /\ ev[e].pending \subseteq With(ev[e].template, OpenStatuses)

\* The windows that became due have been seen to, so that the checkpoint can move.
SeenTo(e) ==
  LET t == ev[e].template
      missed == Missed(t, ev[e].now)
  IN
  \/ missed = 0
  \/ occ[t][LatestWindow(t, ev[e].now)].status # "none"
  \/ missed > 1 /\ templates[t].policy = "SKIP"

ScanFacts(e) ==
  \/ ev[e].pc = "checkpoint"
  \/ ev[e].pc \in Processing /\ ev[e].resume = "checkpoint"
  => SeenTo(e)

EvaluationFacts(e) == HolderPoints(e) /\ ProcessFacts(e) /\ PendingFacts(e) /\ ScanFacts(e)

\* The parts of NoOverlap and OutcomeTrue that are about one template.
SoleLive(t) ==
  \A v, w \in Instants : job[t][v] = "live" /\ job[t][w] = "live" => v = w

Truthful(t) ==
  \A w \in Instants :
    /\ occ[t][w].status = "SUBMITTED" => job[t][w] # "none"
    /\ occ[t][w].status \in {"SKIPPED", "DUE", "none"} => job[t][w] = "none"

TemplateFacts(t) == OneUnsettled(t) /\ SoleJob(t) /\ SoleLive(t) /\ Truthful(t)

CalendarInv ==
  /\ CalendarTypeOK
  /\ \A e \in Evaluators : EvaluationFacts(e)
  /\ \A t \in Templates : HeldTemplates(t) /\ TemplateFacts(t)

-----------------------------------------------------------------------------
(* Schedules: a window is an anchor and whole intervals after it.           *)

\* Rounding down: a window is not after an instant if and only if its index is
\* not greater than the one Index finds.
LEMMA WindowIndex ==
  ASSUME NEW a \in Int, NEW d \in Nat \ {0}, NEW i \in Int, NEW x \in Int
  PROVE  /\ (x - a) \div d \in Int
         /\ i * d \in Int
         /\ a + i * d <= x <=> i <= (x - a) \div d
<1> DEFINE q == (x - a) \div d
           r == (x - a) % d
<1>1. q \in Int /\ r \in 0..(d - 1) /\ x - a = d * q + r
  OBVIOUS
<1> HIDE DEF q, r
<1>2. i <= q => i * d <= q * d
  BY <1>1
<1>3. q < i => (q + 1) * d <= i * d
  BY <1>1
<1>4. (q + 1) * d = q * d + d
  BY <1>1
<1>5. d * q = q * d /\ i * d \in Int /\ q * d \in Int
  BY <1>1
<1>6. a + i * d <= x <=> i <= q
  BY <1>1, <1>2, <1>3, <1>4, <1>5
<1>. QED
  BY <1>1, <1>5, <1>6 DEF q

\* The instant of an index has that index, and is a whole number of intervals
\* after the anchor.
LEMMA IndexOfWindow ==
  ASSUME NEW a \in Int, NEW d \in Nat \ {0}, NEW i \in Int
  PROVE  /\ ((a + i * d) - a) \div d = i
         /\ ((a + i * d) - a) % d = 0
  OBVIOUS

\* Dividing a whole number of intervals by the interval is exact.
LEMMA WholeIntervals ==
  ASSUME NEW a \in Int, NEW d \in Nat \ {0}, NEW w \in Int, (w - a) % d = 0
  PROVE  a + ((w - a) \div d) * d = w
<1> DEFINE q == (w - a) \div d
<1>1. q \in Int /\ w - a = d * q + 0
  OBVIOUS
<1> HIDE DEF q
<1>2. d * q = q * d
  BY <1>1
<1>3. a + q * d = w
  BY <1>1, <1>2
<1>. QED
  BY <1>3 DEF q

\* Max of two numbers, as an IF.
LEMMA LargerOfTwo ==
  ASSUME NEW a \in Int, NEW b \in Int
  PROVE  Max({a, b}) = IF a >= b THEN a ELSE b
  BY DEF Max

\* A set of naturals has a least element.
LEMMA LeastOfNaturals ==
  ASSUME NEW T \in SUBSET Nat, T # {}
  PROVE  \E x \in T : \A y \in T : x <= y
<1>1. PICK x \in T : \A y \in T : ~(<<y, x>> \in OpToRel(<, Nat))
  BY NatLessThanWellFounded, WFMin
<1>2. ASSUME NEW y \in T PROVE x <= y
  <2>1. ~(y < x)
    BY <1>1 DEF OpToRel
  <2>. QED
    BY <2>1
<1>. QED
  BY <1>2

\* Every set of instants has an earliest one.
LEMMA EarliestOf ==
  ASSUME NEW S \in SUBSET Instants, S # {}
  PROVE  Min(S) \in S
<1>1. \E x \in S : \A y \in S : x <= y
  <2>1. S \subseteq Nat
    BY CalendarAssumption DEF Instants
  <2>. QED
    BY <2>1, LeastOfNaturals
<1>. QED
  BY <1>1 DEF Min

\* The facts about schedules that the scan relies on.
LEMMA ScheduleFacts ==
  ASSUME NEW s \in Schedules
  PROVE  /\ s.anchor \in Nat /\ s.interval \in Nat \ {0}
         /\ \A x \in Int : Index(s, x) \in Int
         /\ \A i \in Int : /\ WindowAt(s, i) \in Int
                           /\ Index(s, WindowAt(s, i)) = i
                           /\ (WindowAt(s, i) - s.anchor) % s.interval = 0
         /\ \A i, x \in Int : WindowAt(s, i) <= x <=> i <= Index(s, x)
         /\ \A w \in Int : (w - s.anchor) % s.interval = 0 => WindowAt(s, Index(s, w)) = w
         /\ WindowAt(s, 0) = s.anchor
<1>1. s.anchor \in Nat /\ s.interval \in Nat \ {0}
  BY CalendarAssumption
<1>2. PICK a \in Int, d \in Nat \ {0} : a = s.anchor /\ d = s.interval
  BY <1>1
<1>3. \A i, x \in Int : /\ (x - a) \div d \in Int
                        /\ i * d \in Int
                        /\ a + i * d <= x <=> i <= (x - a) \div d
  BY WindowIndex
<1>4. \A i \in Int : ((a + i * d) - a) \div d = i /\ ((a + i * d) - a) % d = 0
  BY IndexOfWindow
<1>5. \A x : Index(s, x) = (x - a) \div d /\ WindowAt(s, x) = a + x * d
  BY <1>2 DEF Index, WindowAt
<1>6. \A x \in Int : Index(s, x) \in Int
  BY <1>3, <1>5
<1>7. \A i \in Int : /\ WindowAt(s, i) \in Int
                    /\ Index(s, WindowAt(s, i)) = i
                    /\ (WindowAt(s, i) - s.anchor) % s.interval = 0
  <2> TAKE i \in Int
  <2>1. WindowAt(s, i) = a + i * d
    BY <1>5
  <2>2. i * d \in Int
    BY <1>2
  <2>3. Index(s, WindowAt(s, i)) = ((a + i * d) - a) \div d
    BY <1>5, <2>1
  <2>4. (WindowAt(s, i) - s.anchor) % s.interval = ((a + i * d) - a) % d
    BY <1>2, <2>1
  <2>. QED
    BY <1>2, <1>4, <2>1, <2>2, <2>3, <2>4
<1>8. \A i, x \in Int : WindowAt(s, i) <= x <=> i <= Index(s, x)
  BY <1>3, <1>5
<1>9. ASSUME NEW w \in Int, (w - s.anchor) % s.interval = 0
      PROVE  WindowAt(s, Index(s, w)) = w
  <2>1. a + ((w - a) \div d) * d = w
    BY <1>2, <1>9, WholeIntervals
  <2>2. WindowAt(s, Index(s, w)) = a + Index(s, w) * d
    BY <1>5
  <2>3. Index(s, w) = (w - a) \div d
    BY <1>5
  <2>. QED
    BY <2>1, <2>2, <2>3
<1>10. WindowAt(s, 0) = s.anchor
  <2>1. WindowAt(s, 0) = a + 0 * d
    BY <1>5
  <2>. QED
    BY <1>2, <2>1
<1>. QED
  BY <1>1, <1>6, <1>7, <1>8, <1>9, <1>10

\* The windows between the checkpoint and an instant are those whose index lies
\* between the first one to look at and the latest.
LEMMA DueIndices ==
  ASSUME CalendarTypeOK, NEW t \in Templates, NEW s \in Schedules, s = templates[t].schedule,
         NEW now \in Instants
  PROVE  /\ FirstIndex(t) \in Nat /\ Index(s, now) \in Int
         /\ Missed(t, now) = IF Index(s, now) < FirstIndex(t) THEN 0
                             ELSE Index(s, now) - FirstIndex(t) + 1
         /\ \A i \in FirstIndex(t)..Index(s, now) :
              WindowAt(s, i) \in WindowsIn(s, checkpoint[t], now)
         /\ \A w \in WindowsIn(s, checkpoint[t], now) :
              /\ Index(s, w) \in FirstIndex(t)..Index(s, now)
              /\ w = WindowAt(s, Index(s, w))
<1> DEFINE c == checkpoint[t]
           first == FirstIndex(t)
           k == Index(s, now)
           due == WindowsIn(s, c, now)
<1>1. now \in Nat /\ c \in Int /\ c >= Never /\ MaxTime \in Nat
  BY CalendarAssumption DEF CalendarTypeOK, Instants, Never
<1>2. /\ s.anchor \in Nat /\ s.interval \in Nat \ {0}
      /\ \A x \in Int : Index(s, x) \in Int
      /\ \A i \in Int : /\ WindowAt(s, i) \in Int
                        /\ Index(s, WindowAt(s, i)) = i
                        /\ (WindowAt(s, i) - s.anchor) % s.interval = 0
      /\ \A i, x \in Int : WindowAt(s, i) <= x <=> i <= Index(s, x)
      /\ \A w \in Int : (w - s.anchor) % s.interval = 0 => WindowAt(s, Index(s, w)) = w
      /\ WindowAt(s, 0) = s.anchor
  BY ScheduleFacts
<1>3. first = IF c = Never THEN 0 ELSE IF Index(s, c) + 1 > 0 THEN Index(s, c) + 1 ELSE 0
  <2>1. Max({0, Index(s, c) + 1}) = IF 0 >= Index(s, c) + 1 THEN 0 ELSE Index(s, c) + 1
    <3>1. PICK b \in Int : b = Index(s, c) + 1
      BY <1>1, <1>2
    <3>. QED
      BY <3>1, LargerOfTwo
  <2>2. first = IF c = Never THEN 0 ELSE Max({0, Index(s, c) + 1})
    BY DEF FirstIndex
  <2>3. 0 >= Index(s, c) + 1 <=> ~(Index(s, c) + 1 > 0)
    BY <1>1, <1>2
  <2> HIDE DEF first
  <2>. QED
    BY <2>1, <2>2, <2>3
<1>4. first \in Nat /\ k \in Int
  BY <1>1, <1>2, <1>3
<1>5. Missed(t, now) = IF k < first THEN 0 ELSE k - first + 1
  <2>1. PICK b \in Int : b = k - first + 1
    BY <1>4
  <2>2. Missed(t, now) = Max({0, b})
    BY <2>1 DEF Missed
  <2>3. Missed(t, now) = IF 0 >= b THEN 0 ELSE b
    BY <2>2, LargerOfTwo
  <2>. QED
    BY <2>1, <2>3, <1>4
<1> HIDE DEF c, first, k
<1>7. ASSUME NEW i \in first..k
      PROVE  WindowAt(s, i) \in due
  <2>1. i \in Nat /\ first <= i /\ i <= k
    BY <1>4, <1>7
  <2>2. WindowAt(s, i) <= now
    BY <2>1, <1>1, <1>2 DEF k
  <2>3. s.anchor <= WindowAt(s, i)
    <3>1. WindowAt(s, i) \in Int /\ Index(s, WindowAt(s, i)) = i
      BY <2>1, <1>2
    <3>2. WindowAt(s, 0) <= WindowAt(s, i)
      BY <3>1, <2>1, <1>2
    <3>. QED
      BY <3>2, <1>2
  <2>4. c < WindowAt(s, i)
    <3>1. CASE c = Never
      BY <3>1, <2>3, <1>2 DEF Never
    <3>2. CASE c # Never
      <4>1. ~(i <= Index(s, c))
        BY <3>2, <2>1, <1>1, <1>2, <1>3
      <4>. QED
        BY <4>1, <2>1, <1>1, <1>2
    <3>. QED
      BY <3>1, <3>2
  <2>5. WindowAt(s, i) \in Int /\ (WindowAt(s, i) - s.anchor) % s.interval = 0
    BY <2>1, <1>2
  <2>. QED
    BY <2>2, <2>3, <2>4, <2>5, <1>1 DEF WindowsIn
<1>8. ASSUME NEW w \in due
      PROVE  Index(s, w) \in first..k /\ w = WindowAt(s, Index(s, w))
  <2>1. /\ w \in Int /\ c < w /\ w <= now /\ s.anchor <= w
        /\ (w - s.anchor) % s.interval = 0
    BY <1>1 DEF WindowsIn
  <2>2. w = WindowAt(s, Index(s, w))
    BY <2>1, <1>2
  <2>3. Index(s, w) \in Int /\ Index(s, w) <= k
    BY <2>1, <2>2, <1>1, <1>2 DEF k
  <2>4. 0 <= Index(s, w)
    BY <2>1, <2>3, <1>2
  <2>5. c # Never => Index(s, c) < Index(s, w)
    BY <2>1, <2>2, <2>3, <1>1, <1>2
  <2>. QED
    BY <2>2, <2>3, <2>4, <2>5, <1>1, <1>2, <1>3, <1>4
<1>. QED
  BY <1>4, <1>5, <1>7, <1>8 DEF c, first, k

\* The window that the scan claims is an instant that was reached, after the
\* checkpoint.
LEMMA LatestIsDue ==
  ASSUME CalendarTypeOK, NEW t \in Templates, templates[t].schedule \in Schedules,
         NEW now \in Instants
  PROVE  /\ Missed(t, now) \in Nat
         /\ Missed(t, now) # 0 =>
              /\ LatestWindow(t, now) \in Instants
              /\ checkpoint[t] < LatestWindow(t, now) /\ LatestWindow(t, now) <= now
<1>1. PICK s \in Schedules : s = templates[t].schedule
  OBVIOUS
<1>2. PICK k, n : k = Index(s, now) /\ n = FirstIndex(t)
  OBVIOUS
<1>3. /\ k \in Int /\ n \in Nat /\ Missed(t, now) = IF k < n THEN 0 ELSE k - n + 1
      /\ \A i \in n..k : WindowAt(s, i) \in WindowsIn(s, checkpoint[t], now)
  BY <1>1, <1>2, DueIndices
<1>4. now \in Nat /\ now <= MaxTime /\ MaxTime \in Nat
  BY CalendarAssumption DEF Instants
<1>5. checkpoint[t] \in Int /\ checkpoint[t] >= -1
  BY <1>4 DEF CalendarTypeOK, Instants, Never
<1>6. LatestWindow(t, now) = WindowAt(s, k)
  BY <1>1, <1>2 DEF LatestWindow
<1>7. ASSUME Missed(t, now) # 0
      PROVE  /\ LatestWindow(t, now) \in Instants
             /\ checkpoint[t] < LatestWindow(t, now) /\ LatestWindow(t, now) <= now
  <2>1. k \in n..k
    BY <1>3, <1>7
  <2>2. LatestWindow(t, now) \in WindowsIn(s, checkpoint[t], now)
    BY <2>1, <1>3, <1>6
  <2>. QED
    BY <2>2, <1>4, <1>5 DEF WindowsIn, Instants
<1>. QED
  BY <1>3, <1>7

\* Of the windows between the checkpoint and a later instant, as many as Missed
\* counts or more, the latest is the one that the scan claims.
LEMMA LatestOfDue ==
  ASSUME CalendarTypeOK, NEW t \in Templates, NEW s \in Schedules, s = templates[t].schedule,
         NEW now \in Instants, NEW due, due = WindowsIn(s, checkpoint[t], now), due # {}
  PROVE  /\ Missed(t, now) # 0
         /\ Max(due) = LatestWindow(t, now)
         /\ Missed(t, now) > 1 => Cardinality(due) > 1
<1>1. PICK k, n : k = Index(s, now) /\ n = FirstIndex(t)
  OBVIOUS
<1>2. /\ k \in Int /\ n \in Nat /\ Missed(t, now) = IF k < n THEN 0 ELSE k - n + 1
      /\ \A i \in n..k : WindowAt(s, i) \in due
      /\ \A w \in due : Index(s, w) \in n..k /\ w = WindowAt(s, Index(s, w))
  BY <1>1, DueIndices
<1>3. now \in Nat /\ checkpoint[t] \in Int
  BY CalendarAssumption DEF CalendarTypeOK, Instants, Never
<1>4. due \subseteq (checkpoint[t] + 1)..now
  BY DEF WindowsIn
<1>5. k \in n..k /\ Missed(t, now) # 0
  BY <1>2
<1>6. LatestWindow(t, now) = WindowAt(s, k)
  BY <1>1 DEF LatestWindow
<1>7. ASSUME NEW i \in Int, NEW j \in Int, i <= j
      PROVE  /\ WindowAt(s, i) \in Int /\ WindowAt(s, j) \in Int
             /\ WindowAt(s, i) <= WindowAt(s, j)
             /\ WindowAt(s, i) = WindowAt(s, j) => i = j
  <2>1. /\ WindowAt(s, i) \in Int /\ Index(s, WindowAt(s, i)) = i
        /\ WindowAt(s, j) \in Int /\ Index(s, WindowAt(s, j)) = j
    BY ScheduleFacts
  <2>. QED
    BY <1>7, <2>1, ScheduleFacts
<1>8. Max(due) = WindowAt(s, k)
  <2>1. WindowAt(s, k) \in due
    BY <1>2, <1>5
  <2>2. ASSUME NEW w \in due PROVE w \in Int /\ WindowAt(s, k) >= w
    <3>1. PICK i \in n..k : i = Index(s, w) /\ w = WindowAt(s, i)
      BY <1>2
    <3>. QED
      BY <3>1, <1>2, <1>7
  <2>3. \A x \in due : (\A y \in due : x >= y) => x = WindowAt(s, k)
    BY <2>1, <2>2
  <2>. QED
    BY <2>1, <2>2, <2>3 DEF Max
<1>9. ASSUME Missed(t, now) > 1
      PROVE  Cardinality(due) > 1
  <2>1. k - 1 \in n..k /\ k - 1 \in Int /\ k - 1 # k
    BY <1>2, <1>9
  <2>2. PICK v \in due, w \in due : v = WindowAt(s, k - 1) /\ w = WindowAt(s, k)
    BY <2>1, <1>2, <1>5
  <2>3. v # w
    BY <2>1, <2>2, <1>2, <1>7
  <2>4. IsFiniteSet(due)
    <3>1. PICK a \in Int, b \in Int : a = checkpoint[t] + 1 /\ b = now
      BY <1>3
    <3>2. IsFiniteSet(a..b) /\ due \subseteq a..b
      BY <3>1, <1>4, FS_Interval
    <3>. QED
      BY <3>2, FS_Subset
  <2>5. Cardinality({v, w}) = 2 /\ IsFiniteSet({v, w})
    <3>1. Cardinality({v}) = 1 /\ IsFiniteSet({v})
      BY FS_Singleton
    <3>2. {v, w} = {v} \cup {w}
      OBVIOUS
    <3>3. w \notin {v}
      BY <2>3
    <3>4. /\ IsFiniteSet({v} \cup {w})
          /\ Cardinality({v} \cup {w}) = Cardinality({v}) + 1
      BY <3>1, <3>3, FS_AddElement
    <3>. QED
      BY <3>1, <3>2, <3>4
  <2>6. Cardinality({v, w}) <= Cardinality(due)
    BY <2>4, FS_Subset
  <2>. QED
    BY <2>4, <2>5, <2>6, FS_CardinalityType
<1>. QED
  BY <1>5, <1>6, <1>8, <1>9

-----------------------------------------------------------------------------
(* The local variables of an evaluation, one and several at a time.         *)

\* Assigning one field of one evaluation keeps the type and the other fields.
LEMMA FieldKeeps ==
  ASSUME NEW f \in [Evaluators -> Evaluation], NEW e \in Evaluators
  PROVE  /\ \A v \in Points : [f EXCEPT ![e].pc = v] \in [Evaluators -> Evaluation]
         /\ \A v \in SUBSET Templates : [f EXCEPT ![e].todo = v] \in [Evaluators -> Evaluation]
         /\ \A v \in Templates : [f EXCEPT ![e].template = v] \in [Evaluators -> Evaluation]
         /\ \A v \in Instants : [f EXCEPT ![e].window = v] \in [Evaluators -> Evaluation]
         /\ \A v \in SUBSET Instants : [f EXCEPT ![e].pending = v] \in [Evaluators -> Evaluation]
         /\ \A v \in SUBSET Instants : [f EXCEPT ![e].priors = v] \in [Evaluators -> Evaluation]
         /\ \A v \in {"none", "live", "ended"} :
              [f EXCEPT ![e].seen = v] \in [Evaluators -> Evaluation]
         /\ \A v \in {"retry", "checkpoint"} :
              [f EXCEPT ![e].resume = v] \in [Evaluators -> Evaluation]
<1>1. \A v \in Points : [f EXCEPT ![e].pc = v] \in [Evaluators -> Evaluation]
  BY DEF Evaluation
<1>2. \A v \in SUBSET Templates : [f EXCEPT ![e].todo = v] \in [Evaluators -> Evaluation]
  BY DEF Evaluation
<1>3. \A v \in Templates : [f EXCEPT ![e].template = v] \in [Evaluators -> Evaluation]
  BY DEF Evaluation
<1>4. \A v \in Instants : [f EXCEPT ![e].window = v] \in [Evaluators -> Evaluation]
  BY DEF Evaluation
<1>5. \A v \in SUBSET Instants : [f EXCEPT ![e].pending = v] \in [Evaluators -> Evaluation]
  BY DEF Evaluation
<1>6. \A v \in SUBSET Instants : [f EXCEPT ![e].priors = v] \in [Evaluators -> Evaluation]
  BY DEF Evaluation
<1>7. \A v \in {"none", "live", "ended"} :
        [f EXCEPT ![e].seen = v] \in [Evaluators -> Evaluation]
  BY DEF Evaluation
<1>8. \A v \in {"retry", "checkpoint"} :
        [f EXCEPT ![e].resume = v] \in [Evaluators -> Evaluation]
  BY DEF Evaluation
<1>. QED
  BY <1>1, <1>2, <1>3, <1>4, <1>5, <1>6, <1>7, <1>8

Others(e) == \A x \in Evaluators \ {e} : ev'[x] = ev[x]

\* An evaluation that goes on with what it has.
Stays(e) ==
  /\ ev' \in [Evaluators -> Evaluation]
  /\ Others(e)
  /\ ev'[e].now = ev[e].now /\ ev'[e].template = ev[e].template

SameSearch(e) ==
  /\ ev'[e].window = ev[e].window /\ ev'[e].seen = ev[e].seen
  /\ ev'[e].resume = ev[e].resume

\* A step that only moves the point of an evaluation.
LEMMA GotoMoves ==
  ASSUME CalendarTypeOK, NEW e \in Evaluators, NEW p \in Points, Goto(e, p)
  PROVE  /\ Stays(e) /\ SameSearch(e)
         /\ ev'[e].pc = p /\ ev'[e].pending = ev[e].pending /\ ev'[e].priors = ev[e].priors
<1>1. ev \in [Evaluators -> Evaluation]
  BY DEF CalendarTypeOK
<1>2. ev' \in [Evaluators -> Evaluation]
  BY <1>1, FieldKeeps DEF Goto
<1>. QED
  BY <1>1, <1>2 DEF Goto, Evaluation, Stays, Others, SameSearch

\* The end of #process: on to the next pending occurrence, or to the scan.
LEMMA SettleMoves ==
  ASSUME CalendarTypeOK, NEW e \in Evaluators, NEW p \in Points,
         ev' = [ev EXCEPT ![e].pc = p, ![e].priors = {}]
  PROVE  /\ Stays(e) /\ SameSearch(e)
         /\ ev'[e].pc = p /\ ev'[e].pending = ev[e].pending /\ ev'[e].priors = {}
<1>1. ev \in [Evaluators -> Evaluation]
  BY DEF CalendarTypeOK
<1>2. PICK f : f = [ev EXCEPT ![e].pc = p]
  OBVIOUS
<1>a. PICK none \in SUBSET Instants : none = {}
  OBVIOUS
<1>3. ev' = [f EXCEPT ![e].priors = none]
  BY <1>2, <1>a
<1>4. f \in [Evaluators -> Evaluation]
  BY <1>1, <1>2, FieldKeeps
<1>5. ev' \in [Evaluators -> Evaluation]
  <2>1. \A v \in SUBSET Instants : [f EXCEPT ![e].priors = v] \in [Evaluators -> Evaluation]
    BY <1>4, FieldKeeps
  <2>. QED
    BY <1>3, <2>1
<1>. QED
  BY <1>1, <1>5 DEF Evaluation, Stays, Others, SameSearch

\* The occurrences that may have a job.
Predecessors(e, w) == With(ev[e].template, Statuses \ {"SKIPPED"}) \ {w}

\* #process is called for an occurrence, with what is left to be retried.
ProcessCalled(e, w, resume, pending) ==
  \/ ev' = Process(e, w, resume) /\ pending = ev[e].pending
  \/ ev' = [Process(e, w, resume) EXCEPT ![e].pending = pending]

\* #process is entered with an occurrence and its predecessors.
LEMMA ProcessMoves ==
  ASSUME CalendarTypeOK, NEW e \in Evaluators, NEW w \in Instants,
         NEW pending \in SUBSET Instants, NEW resume \in {"retry", "checkpoint"},
         NEW priors, priors = Predecessors(e, w),
         ProcessCalled(e, w, resume, pending)
  PROVE  /\ Stays(e)
         /\ ev'[e].pc = "priors" /\ ev'[e].window = w /\ ev'[e].resume = resume
         /\ ev'[e].priors = priors /\ ev'[e].pending = pending
<1>1. ev \in [Evaluators -> Evaluation]
  BY DEF CalendarTypeOK
<1>2. PICK a : a = [ev EXCEPT ![e].pc = "priors"]
  OBVIOUS
<1>3. PICK b : b = [a EXCEPT ![e].window = w]
  OBVIOUS
<1>4. PICK c : c = [b EXCEPT ![e].priors = priors]
  OBVIOUS
<1>5. PICK d : d = [c EXCEPT ![e].resume = resume]
  OBVIOUS
<1>6. Process(e, w, resume) = d
  BY <1>2, <1>3, <1>4, <1>5 DEF Process, Predecessors
<1>7. a \in [Evaluators -> Evaluation]
  BY <1>1, <1>2, FieldKeeps DEF Points
<1>8. b \in [Evaluators -> Evaluation]
  BY <1>3, <1>7, FieldKeeps
<1>9. priors \in SUBSET Instants
  BY DEF With, Predecessors
<1>10. c \in [Evaluators -> Evaluation]
  BY <1>4, <1>8, <1>9, FieldKeeps
<1>11. d \in [Evaluators -> Evaluation]
  BY <1>5, <1>10, FieldKeeps
<1>12. /\ d[e].pc = "priors" /\ d[e].window = w /\ d[e].priors = priors /\ d[e].resume = resume
       /\ d[e].now = ev[e].now /\ d[e].template = ev[e].template
       /\ d[e].pending = ev[e].pending
       /\ \A x \in Evaluators \ {e} : d[x] = ev[x]
  BY <1>1, <1>2, <1>3, <1>4, <1>5 DEF Evaluation
<1>13. CASE ev' = d /\ pending = ev[e].pending
  BY <1>11, <1>12, <1>13 DEF Stays, Others
<1>14. CASE ev' = [d EXCEPT ![e].pending = pending]
  <2>1. ev' \in [Evaluators -> Evaluation]
    BY <1>11, <1>14, FieldKeeps
  <2>2. /\ ev'[e].pc = d[e].pc /\ ev'[e].window = d[e].window /\ ev'[e].priors = d[e].priors
        /\ ev'[e].resume = d[e].resume /\ ev'[e].now = d[e].now
        /\ ev'[e].template = d[e].template /\ ev'[e].pending = pending
        /\ \A x \in Evaluators \ {e} : ev'[x] = d[x]
    BY <1>11, <1>14 DEF Evaluation
  <2>. QED
    BY <2>1, <2>2, <1>12 DEF Stays, Others
<1>. QED
  BY <1>6, <1>13, <1>14 DEF ProcessCalled

\* A template is locked: its open occurrences are retried first.
LEMMA TakeMoves ==
  ASSUME CalendarTypeOK, NEW e \in Evaluators, NEW t \in Templates,
         NEW pending \in SUBSET Instants, NEW todo \in SUBSET Templates,
         ev' = [ev EXCEPT ![e].pc = "retry", ![e].todo = todo, ![e].template = t,
                          ![e].pending = pending]
  PROVE  /\ ev' \in [Evaluators -> Evaluation]
         /\ Others(e)
         /\ ev'[e].pc = "retry" /\ ev'[e].template = t /\ ev'[e].pending = pending
         /\ ev'[e].now = ev[e].now
<1>1. ev \in [Evaluators -> Evaluation]
  BY DEF CalendarTypeOK
<1>2. PICK a : a = [ev EXCEPT ![e].pc = "retry"]
  OBVIOUS
<1>3. PICK b : b = [a EXCEPT ![e].todo = todo]
  OBVIOUS
<1>4. PICK c : c = [b EXCEPT ![e].template = t]
  OBVIOUS
<1>5. ev' = [c EXCEPT ![e].pending = pending]
  BY <1>2, <1>3, <1>4
<1>6. a \in [Evaluators -> Evaluation]
  BY <1>1, <1>2, FieldKeeps DEF Points
<1>7. b \in [Evaluators -> Evaluation]
  BY <1>3, <1>6, FieldKeeps
<1>8. c \in [Evaluators -> Evaluation]
  BY <1>4, <1>7, FieldKeeps
<1>9. ev' \in [Evaluators -> Evaluation]
  <2>1. \A v \in SUBSET Instants : [c EXCEPT ![e].pending = v] \in [Evaluators -> Evaluation]
    BY <1>8, FieldKeeps
  <2>2. [c EXCEPT ![e].pending = pending] \in [Evaluators -> Evaluation]
    BY <2>1
  <2>. QED
    BY <1>5, <2>2
<1>. QED
  BY <1>1, <1>9 DEF Evaluation, Others

\* The evaluation remembers what getJob answered.
LEMMA AskMoves ==
  ASSUME CalendarTypeOK, NEW e \in Evaluators, NEW seen \in {"none", "live", "ended"},
         ev' = [ev EXCEPT ![e].pc = "lookup", ![e].seen = seen]
  PROVE  /\ Stays(e)
         /\ ev'[e].window = ev[e].window /\ ev'[e].resume = ev[e].resume
         /\ ev'[e].pending = ev[e].pending /\ ev'[e].priors = ev[e].priors
         /\ ev'[e].pc = "lookup" /\ ev'[e].seen = seen
<1>1. ev \in [Evaluators -> Evaluation]
  BY DEF CalendarTypeOK
<1>2. PICK a : a = [ev EXCEPT ![e].pc = "lookup"]
  OBVIOUS
<1>3. ev' = [a EXCEPT ![e].seen = seen]
  BY <1>2
<1>4. a \in [Evaluators -> Evaluation]
  BY <1>1, <1>2, FieldKeeps DEF Points
<1>5. ev' \in [Evaluators -> Evaluation]
  <2>1. \A v \in {"none", "live", "ended"} :
          [a EXCEPT ![e].seen = v] \in [Evaluators -> Evaluation]
    BY <1>4, FieldKeeps
  <2>. QED
    BY <1>3, <2>1
<1>. QED
  BY <1>1, <1>5 DEF Evaluation, Stays, Others

\* A predecessor whose job has ended is crossed off.
LEMMA DropMoves ==
  ASSUME CalendarTypeOK, NEW e \in Evaluators, NEW priors \in SUBSET Instants,
         ev' = [ev EXCEPT ![e].pc = "priors", ![e].priors = priors, ![e].seen = "none"]
  PROVE  /\ Stays(e)
         /\ ev'[e].window = ev[e].window /\ ev'[e].resume = ev[e].resume
         /\ ev'[e].pending = ev[e].pending /\ ev'[e].priors = priors
         /\ ev'[e].pc = "priors"
<1>1. ev \in [Evaluators -> Evaluation]
  BY DEF CalendarTypeOK
<1>2. PICK a : a = [ev EXCEPT ![e].pc = "priors"]
  OBVIOUS
<1>3. PICK b : b = [a EXCEPT ![e].priors = priors]
  OBVIOUS
<1>4. ev' = [b EXCEPT ![e].seen = "none"]
  BY <1>2, <1>3
<1>5. a \in [Evaluators -> Evaluation]
  BY <1>1, <1>2, FieldKeeps DEF Points
<1>6. b \in [Evaluators -> Evaluation]
  <2>1. \A v \in SUBSET Instants : [a EXCEPT ![e].priors = v] \in [Evaluators -> Evaluation]
    BY <1>5, FieldKeeps
  <2>. QED
    BY <1>3, <2>1
<1>7. ev' \in [Evaluators -> Evaluation]
  <2>1. \A v \in {"none", "live", "ended"} :
          [b EXCEPT ![e].seen = v] \in [Evaluators -> Evaluation]
    BY <1>6, FieldKeeps
  <2>. QED
    BY <1>4, <2>1
<1>. QED
  BY <1>1, <1>7 DEF Evaluation, Stays, Others

\* An evaluation that holds no template, or none any more.
Holdless(e) ==
  /\ ev' \in [Evaluators -> Evaluation]
  /\ Others(e)
  /\ ev'[e].pc \in {"idle", "next"} /\ ev'[e].template = None /\ ev'[e].pending = {}

\* An evaluation that ends forgets everything.
LEMMA IdleMoves ==
  ASSUME CalendarTypeOK, NEW e \in Evaluators, ev' = [ev EXCEPT ![e] = Idle]
  PROVE  Holdless(e) /\ ev'[e].now = 0
  BY CalendarAssumption DEF Idle, CalendarTypeOK, Evaluation, Holdless, Others, Points, Instants

\* The loop over the templates goes on without one of them.
LEMMA RemainingMoves ==
  ASSUME CalendarTypeOK, NEW e \in Evaluators, NEW now \in Instants,
         NEW todo \in SUBSET Templates, ev' = [ev EXCEPT ![e] = Remaining(now, todo)]
  PROVE  Holdless(e) /\ ev'[e].now \in {0, now}
<1>1. PICK r : r = Remaining(now, todo)
  OBVIOUS
<1>2. 0 \in Instants
  BY CalendarAssumption DEF Instants
<1>3. \/ r = Idle
      \/ r = [ pc |-> "next", now |-> now, todo |-> todo, template |-> None, pending |-> {},
               window |-> 0, priors |-> {}, seen |-> "none", resume |-> "retry" ]
  BY <1>1 DEF Remaining, Idle
<1>4. r \in Evaluation
  BY <1>2, <1>3 DEF Evaluation, Idle, Points
<1>. QED
  BY <1>1, <1>3, <1>4 DEF CalendarTypeOK, Holdless, Others, Idle

-----------------------------------------------------------------------------
(* What a step leaves alone.                                                *)

\* Nothing that an evaluation relies on changes under it.
Unmoved(t) ==
  /\ occ'[t] = occ[t] /\ templates'[t] = templates[t] /\ checkpoint'[t] = checkpoint[t]
  /\ \A w \in Instants : Over(t, w) => Over(t, w)'

\* What an evaluation relies on is about its own template and lock only.
LEMMA FactsStay ==
  ASSUME CalendarTypeOK, NEW x \in Evaluators, EvaluationFacts(x), ev'[x] = ev[x],
         \A t \in Templates : ev[x].template = t => Unmoved(t)
  PROVE  EvaluationFacts(x)'
<1>1. PICK t, w, n, p, pending, priors : /\ t = ev[x].template /\ w = ev[x].window
                              /\ n = ev[x].now /\ p = ev[x].pc
                              /\ pending = ev[x].pending /\ priors = ev[x].priors
  OBVIOUS
<1>2. CASE t = None
  <2>1. p \in {"idle", "next"} /\ pending = {}
    BY <1>1, <1>2 DEF EvaluationFacts, HolderPoints, PendingFacts
  <2>. QED
    BY <1>1, <1>2, <2>1 DEF EvaluationFacts, HolderPoints, PendingFacts, ProcessFacts, ScanFacts,
                            Processing
<1>3. CASE t # None
  <2>1. /\ occ'[t] = occ[t] /\ templates'[t] = templates[t] /\ checkpoint'[t] = checkpoint[t]
        /\ \A v \in Instants : Over(t, v) => Over(t, v)'
    <3>1. t \in Templates
      BY <1>1, <1>3 DEF CalendarTypeOK, Evaluation
    <3>. QED
      BY <1>1, <3>1 DEF Unmoved
  <2>2. HolderPoints(x)'
    BY <1>1 DEF EvaluationFacts, HolderPoints
  <2>3. PendingFacts(x)'
    BY <1>1, <2>1 DEF EvaluationFacts, PendingFacts, With
  <2>4. ScanFacts(x)'
    <3>1. FirstIndex(t)' = FirstIndex(t)
      BY <2>1 DEF FirstIndex
    <3>2. Missed(t, n)' = Missed(t, n) /\ LatestWindow(t, n)' = LatestWindow(t, n)
      BY <2>1, <3>1 DEF Missed, LatestWindow
    <3>. QED
      BY <1>1, <2>1, <3>2 DEF EvaluationFacts, ScanFacts, SeenTo
  <2>5. ProcessFacts(x)'
    <3>1. ev[x] \in Evaluation
      BY DEF CalendarTypeOK
    <3>2. priors # {} => Min(priors) \in Instants
      <4>1. priors \in SUBSET Instants
        BY <1>1, <3>1 DEF Evaluation
      <4>. QED
        BY <4>1, EarliestOf
    <3>. QED
      BY <1>1, <2>1, <3>2 DEF EvaluationFacts, ProcessFacts
  <2>. QED
    BY <2>2, <2>3, <2>4, <2>5 DEF EvaluationFacts
<1>. QED
  BY <1>2, <1>3

\* The holders of two templates are two evaluations.
LEMMA HoldersDiffer ==
  ASSUME CalendarTypeOK, NEW e \in Evaluators, NEW x \in Evaluators \ {e},
         ev[e].template # None
  PROVE  ev[x].template # ev[e].template
<1>1. ev[e].template \in Templates
  BY DEF CalendarTypeOK, Evaluation
<1>. QED
  BY <1>1 DEF CalendarTypeOK

\* Nor does anything that is true of a template.
LEMMA TemplateStays ==
  ASSUME NEW t \in Templates, TemplateFacts(t), occ'[t] = occ[t], job'[t] = job[t]
  PROVE  TemplateFacts(t)'
  BY DEF TemplateFacts, OneUnsettled, SoleJob, SoleLive, Truthful, Over

-----------------------------------------------------------------------------
(* What a step of #process does to the occurrence and to its job.           *)

\* The occurrence is given a status, every other one stays as it is.
Marks(t, w, status) ==
  /\ occ' \in [Templates -> [Instants -> Occurrence]]
  /\ occ'[t][w].status = status
  /\ \A v \in Instants \ {w} : occ'[t][v] = occ[t][v]
  /\ \A u \in Templates \ {t} : occ'[u] = occ[u]

\* A job is created for it, or not.
MayCreate(t, w) ==
  /\ job' \in [Templates -> [Instants -> {"none", "live", "ended"}]]
  /\ job[t][w] # "none" => job'[t][w] = job[t][w]
  /\ job[t][w] = "none" => job'[t][w] \in {"none", "live"}
  /\ \A v \in Instants \ {w} : job'[t][v] = job[t][v]
  /\ \A u \in Templates \ {t} : job'[u] = job[u]

\* The facts of a template survive a new status of its open occurrence.
LEMMA MarkedStays ==
  ASSUME NEW t \in Templates, NEW w \in Instants, NEW status \in Statuses,
         TemplateFacts(t), Marks(t, w, status), MayCreate(t, w),
         occ[t][w].status \in OpenStatuses,
         job'[t][w] # job[t][w] =>
           /\ occ[t][w].status = "SUBMISSION_PENDING"
           /\ status \in (Unsettled \cup {"SUBMITTED"}) \ {"DUE"},
         status = "SUBMISSION_PENDING" => \A v \in Instants \ {w} : Over(t, v),
         status = "SUBMITTED" => job'[t][w] # "none",
         status \in {"SKIPPED", "DUE"} => job[t][w] = "none"
  PROVE  TemplateFacts(t)'
<1> USE DEF Marks, MayCreate
<1>1. OneUnsettled(t)'
  BY DEF TemplateFacts, OneUnsettled, Unsettled, OpenStatuses
<1>2. SoleJob(t)'
  BY DEF TemplateFacts, OneUnsettled, SoleJob, Unsettled, OpenStatuses, Over
<1>3. SoleLive(t)'
  BY DEF TemplateFacts, SoleLive, SoleJob, Over
<1>4. Truthful(t)'
  BY DEF TemplateFacts, Truthful, Unsettled, OpenStatuses, Statuses
<1>. QED
  BY <1>1, <1>2, <1>3, <1>4 DEF TemplateFacts

-----------------------------------------------------------------------------
(* A step of the holder of a template.                                      *)

\* Nothing is done but to this template's occurrences, jobs and checkpoint.
OnlyAt(t) ==
  /\ time' = time /\ templates' = templates
  /\ occ' \in [Templates -> [Instants -> Occurrence]]
  /\ job' \in [Templates -> [Instants -> {"none", "live", "ended"}]]
  /\ checkpoint' \in [Templates -> Never..time]
  /\ \A u \in Templates \ {t} : /\ occ'[u] = occ[u] /\ job'[u] = job[u]
                                /\ checkpoint'[u] = checkpoint[u]
  /\ \A w \in Instants : occ'[t][w].status # "none" => w <= time

Holds(e, t) == ev[e].template = t

\* A step of the holder that writes no record keeps the invariant if what
\* the holder relies on holds at its new point.
LEMMA HolderStep ==
  ASSUME CalendarInv, NEW e \in Evaluators, NEW t \in Templates, Holds(e, t), OnlyAt(t),
         TemplateFacts(t)',
         \/ Stays(e) /\ lock' = lock /\ EvaluationFacts(e)'
         \/ Holdless(e) /\ lock' = Unlocked(e) /\ ev'[e].now <= time
  PROVE  CalendarInv'
<1>1. CalendarTypeOK /\ t # None /\ None \notin Evaluators
  BY CalendarAssumption DEF CalendarInv
<1>2. ev' \in [Evaluators -> Evaluation] /\ Others(e)
  BY DEF Stays, Holdless
<1>3. lock[t] = e
  BY <1>1 DEF CalendarTypeOK, Holds
<1>4. /\ lock' \in [Templates -> Evaluators \cup {None}]
      /\ \A u \in Templates : lock'[u] # None => lock[u] # None
      /\ \A u \in Templates, x \in Evaluators : lock'[u] = x <=> ev'[x].template = u
  <2>1. CASE Stays(e) /\ lock' = lock
    BY <1>1, <1>2, <2>1 DEF CalendarTypeOK, Stays, Others
  <2>2. CASE Holdless(e) /\ lock' = Unlocked(e)
    <3>1. /\ lock' \in [Templates -> Evaluators \cup {None}]
          /\ lock'[t] = None /\ \A u \in Templates \ {t} : lock'[u] = lock[u]
      BY <1>1, <1>3, <2>2 DEF CalendarTypeOK, Unlocked, Holds
    <3>2. ev'[e].template = None /\ None \notin Templates
      BY <2>2, CalendarAssumption DEF Holdless
    <3>3. ASSUME NEW u \in Templates, NEW x \in Evaluators
          PROVE  lock'[u] = x <=> ev'[x].template = u
      <4>1. CASE x = e
        BY <1>1, <1>3, <3>1, <3>2, <4>1 DEF CalendarTypeOK, Holds
      <4>2. CASE x # e
        BY <1>1, <1>2, <1>3, <3>1, <4>2 DEF CalendarTypeOK, Holds, Others
      <4>. QED
        BY <4>1, <4>2
    <3>. QED
      BY <3>1, <3>3
  <2>. QED
    BY <2>1, <2>2
<1>5. \A x \in Evaluators : ev'[x].now <= time
  BY <1>1, <1>2 DEF CalendarTypeOK, Stays, Holdless, Others
<1>6. CalendarTypeOK'
  <2>1. ASSUME NEW u \in Templates, NEW w \in Instants, occ'[u][w].status # "none"
        PROVE  w <= time
    <3>1. CASE u = t
      BY <2>1, <3>1 DEF OnlyAt
    <3>2. CASE u # t
      BY <1>1, <2>1, <3>2 DEF CalendarTypeOK, OnlyAt
    <3>. QED
      BY <3>1, <3>2
  <2>. QED
    BY <1>1, <1>2, <1>4, <1>5, <2>1 DEF CalendarTypeOK, OnlyAt
<1>7. ASSUME NEW x \in Evaluators \ {e} PROVE EvaluationFacts(x)'
  <2>1. ev[x].template # t
    BY <1>1, HoldersDiffer DEF Holds
  <2>2. \A u \in Templates : ev[x].template = u => Unmoved(u)
    <3>2. ASSUME NEW u \in Templates \ {t} PROVE Unmoved(u)
      BY <3>2 DEF OnlyAt, Unmoved, Over
    <3>. QED
      BY <2>1, <3>2
  <2>. QED
    BY <1>1, <1>2, <2>2, FactsStay DEF CalendarInv, Others
<1>8. EvaluationFacts(e)'
  <2>1. CASE Holdless(e)
    BY <2>1 DEF Holdless, EvaluationFacts, HolderPoints, ProcessFacts, PendingFacts, ScanFacts,
                Processing
  <2>. QED
    BY <2>1
<1>9. ASSUME NEW u \in Templates PROVE HeldTemplates(u)' /\ TemplateFacts(u)'
  <2>1. HeldTemplates(u)'
    BY <1>4 DEF CalendarInv, HeldTemplates, OnlyAt
  <2>2. CASE u # t
    <3>1. TemplateFacts(u)'
      BY <2>2, TemplateStays DEF CalendarInv, OnlyAt
    <3>. QED
      BY <2>1, <3>1
  <2>. QED
    BY <2>1, <2>2
<1>. QED
  BY <1>6, <1>7, <1>8, <1>9 DEF CalendarInv

\* The invariant, for one evaluation and the template that it holds.
LEMMA HolderFacts ==
  ASSUME CalendarInv, NEW e \in Evaluators, ~At(e, "idle"), ~At(e, "next")
  PROVE  \E t \in Templates :
           /\ Holds(e, t) /\ lock[t] = e
           /\ templates[t].status = "ACTIVE" /\ templates[t].schedule \in Schedules
<1>1. ev[e].pc \notin {"idle", "next"} /\ CalendarTypeOK /\ HolderPoints(e)
  BY DEF At, CalendarInv, EvaluationFacts
<1>2. PICK t \in Templates : Holds(e, t)
  BY <1>1 DEF HolderPoints, CalendarTypeOK, Evaluation, Holds
<1>3. lock[t] = e /\ e # None
  BY <1>1, <1>2, CalendarAssumption DEF CalendarTypeOK, Holds
<1>4. HeldTemplates(t)
  BY DEF CalendarInv
<1>. QED
  BY <1>2, <1>3, <1>4 DEF HeldTemplates

\* What has been seen to stays so while the evaluation goes on.
LEMMA SeenStays ==
  ASSUME CalendarInv, NEW e \in Evaluators, NEW t \in Templates, Holds(e, t),
         templates[t].schedule \in Schedules, Stays(e),
         NEW n \in Instants, n = ev[e].now,
         SeenTo(e) \/ occ'[t][LatestWindow(t, n)].status # "none",
         templates' = templates, checkpoint' = checkpoint,
         \A v \in Instants : occ[t][v].status # "none" => occ'[t][v].status # "none"
  PROVE  SeenTo(e)'
<1>2. PICK m, w : m = Missed(t, n) /\ w = LatestWindow(t, n)
  OBVIOUS
<1>3. m # 0 => w \in Instants
  BY <1>2, LatestIsDue DEF CalendarInv
<1>4. FirstIndex(t)' = FirstIndex(t)
  BY DEF FirstIndex
<1>5. Missed(t, n)' = m /\ LatestWindow(t, n)' = w
  BY <1>2, <1>4 DEF Missed, LatestWindow
<1>6. ev'[e].now = n /\ ev'[e].template = t /\ ev[e].template = t
  BY DEF Stays, Holds
<1>7. \/ m = 0 \/ occ[t][w].status # "none" \/ (m > 1 /\ templates[t].policy = "SKIP")
      \/ occ'[t][w].status # "none"
  BY <1>2, <1>6 DEF SeenTo
<1>8. m = 0 \/ occ'[t][w].status # "none" \/ (m > 1 /\ templates'[t].policy = "SKIP")
  BY <1>3, <1>7
<1>. QED
  BY <1>5, <1>6, <1>8 DEF SeenTo

\* #process returns to where it was called from.
LEMMA Returns ==
  ASSUME CalendarInv, NEW e \in Evaluators, NEW t \in Templates, Holds(e, t),
         templates[t].schedule \in Schedules, ev[e].pc \in Processing, Stays(e),
         ev'[e].pc = ev[e].resume, ev'[e].pending = ev[e].pending,
         templates' = templates, checkpoint' = checkpoint,
         \A v \in Instants : occ[t][v].status # "none" => occ'[t][v].status # "none"
  PROVE  EvaluationFacts(e)'
<1>1. /\ ev'[e].pc \in {"retry", "checkpoint"} /\ ev'[e].pending = {}
      /\ ev'[e].template = t /\ t # None
  <2>1. ev[e].resume \in {"retry", "checkpoint"} /\ t # None
    BY CalendarAssumption DEF CalendarInv, CalendarTypeOK, Evaluation
  <2>2. ev[e].pending = {}
    BY DEF CalendarInv, EvaluationFacts, PendingFacts, Processing
  <2>. QED
    BY <2>1, <2>2 DEF Stays, Holds
<1>2. ev'[e].pc = "checkpoint" => SeenTo(e)
  BY DEF CalendarInv, EvaluationFacts, ScanFacts, Processing
<1>3. PICK n \in Instants : n = ev[e].now
  BY DEF CalendarInv, CalendarTypeOK, Evaluation
<1>4. ev'[e].pc = "checkpoint" => SeenTo(e)'
  BY <1>2, <1>3, SeenStays
<1>. QED
  BY <1>1, <1>4 DEF EvaluationFacts, HolderPoints, PendingFacts, ProcessFacts, ScanFacts,
                    Processing

\* The occurrence that is processed gets its next status, and the evaluation
\* goes on or is aborted.
LEMMA MarkedKeeps ==
  ASSUME CalendarInv, NEW e \in Evaluators, NEW t \in Templates, Holds(e, t),
         NEW w \in Instants, w = ev[e].window, NEW status \in Statuses,
         ev[e].pc \in Processing, Marks(t, w, status), MayCreate(t, w),
         time' = time, templates' = templates, checkpoint' = checkpoint,
         job'[t][w] # job[t][w] =>
           /\ occ[t][w].status = "SUBMISSION_PENDING"
           /\ status \in (Unsettled \cup {"SUBMITTED"}) \ {"DUE"},
         status = "SUBMISSION_PENDING" => \A v \in Instants \ {w} : Over(t, v),
         status = "SUBMITTED" => job'[t][w] # "none",
         status \in {"SKIPPED", "DUE"} => job[t][w] = "none",
         \/ Stays(e) /\ lock' = lock /\ EvaluationFacts(e)'
         \/ Abort(e)
  PROVE  CalendarInv'
<1>1. occ[t][w].status \in OpenStatuses
  BY DEF CalendarInv, EvaluationFacts, ProcessFacts, Holds
<1>2. TemplateFacts(t)'
  BY <1>1, MarkedStays DEF CalendarInv
<1>3. OnlyAt(t)
  <2>1. \A v \in Instants : occ'[t][v].status # "none" => v <= time
    <3>1. \A v \in Instants : occ[t][v].status # "none" => v <= time
      BY DEF CalendarInv, CalendarTypeOK
    <3>2. occ[t][w].status # "none"
      BY <1>1 DEF OpenStatuses
    <3>. QED
      BY <3>1, <3>2 DEF Marks
  <2>. QED
    BY <2>1 DEF OnlyAt, Marks, MayCreate, CalendarInv, CalendarTypeOK
<1>4. CASE Abort(e)
  <2>1. Holdless(e) /\ ev'[e].now = 0
    BY <1>4, IdleMoves DEF Abort, CalendarInv
  <2>2. 0 <= time
    BY CalendarAssumption DEF CalendarInv, CalendarTypeOK, Instants
  <2>. QED
    BY <1>2, <1>3, <1>4, <2>1, <2>2, HolderStep DEF Abort
<1>. QED
  BY <1>2, <1>3, <1>4, HolderStep

-----------------------------------------------------------------------------
(* The steps of #process.                                                   *)

\* The holder of a template in #process, with the occurrence it is about.
InProcess(e, t, w) ==
  /\ Holds(e, t) /\ w = ev[e].window /\ ev[e].pc \in Processing
  /\ lock[t] = e /\ templates[t].schedule \in Schedules
  /\ occ[t][w].status \in OpenStatuses /\ occ[t][w].attempts \in 0..MaxAttempts
  /\ ev[e].priors \in SUBSET Instants

\* At the points of #process an evaluation holds the template of its occurrence.
LEMMA ProcessHolds ==
  ASSUME CalendarInv, NEW e \in Evaluators, ev[e].pc \in Processing
  PROVE  \E t \in Templates, w \in Instants : InProcess(e, t, w)
<1>1. PICK t \in Templates : Holds(e, t) /\ lock[t] = e /\ templates[t].schedule \in Schedules
  BY HolderFacts DEF Processing, At
<1>2. PICK w \in Instants : w = ev[e].window
  BY DEF CalendarInv, CalendarTypeOK, Evaluation
<1>3. occ[t][w].status \in OpenStatuses
  BY <1>1, <1>2 DEF CalendarInv, EvaluationFacts, ProcessFacts, Holds
<1>4. occ[t][w].attempts \in 0..MaxAttempts /\ ev[e].priors \in SUBSET Instants
  BY DEF CalendarInv, CalendarTypeOK, Occurrence, Evaluation
<1>. QED
  BY <1>1, <1>2, <1>3, <1>4 DEF InProcess

\* Setting the status of one occurrence leaves the others as they are.
LEMMA OccurrenceSet ==
  ASSUME CalendarInv, NEW e \in Evaluators, NEW t \in Templates, Holds(e, t),
         NEW w \in Instants, NEW status \in Statuses, NEW n \in 0..MaxAttempts,
         SetOccurrence(e, w, status, n)
  PROVE  Marks(t, w, status)
  BY DEF SetOccurrence, Marks, CalendarInv, CalendarTypeOK, Occurrence, Holds

\* An occurrence that #process updates is still marked as it should be.
LEMMA UpdateMarks ==
  ASSUME CalendarInv, NEW e \in Evaluators, NEW t \in Templates, NEW w \in Instants,
         InProcess(e, t, w), NEW status \in Statuses, NEW n \in 0..MaxAttempts, NEW next,
         Update(e, status, n, next)
  PROVE  Marks(t, w, status) /\ ((ev' = next /\ lock' = lock) \/ Abort(e))
<1>1. Updatable(e, ev[e].window)
  BY DEF Updatable, Status, InProcess, Holds
<1>2. SetOccurrence(e, w, status, n) /\ Continue(e, next)
  BY <1>1 DEF Update, InProcess
<1>3. Marks(t, w, status)
  BY <1>2, OccurrenceSet DEF InProcess
<1>. QED
  BY <1>2, <1>3 DEF Continue

\* The marks of a template survive the update of its open occurrence.
LEMMA MarksKeep ==
  ASSUME NEW t \in Templates, NEW w \in Instants, NEW status \in Statuses, Marks(t, w, status)
  PROVE  \A v \in Instants : occ[t][v].status # "none" => occ'[t][v].status # "none"
  BY DEF Marks, Statuses, OpenStatuses

\* Settling an occurrence (RETRY_PENDING, REVIEW_REQUIRED, SUBMITTED) keeps
\* the invariant.
LEMMA SettleKeeps ==
  ASSUME CalendarInv, NEW e \in Evaluators, NEW t \in Templates, NEW w \in Instants,
         InProcess(e, t, w), NEW status \in {"REVIEW_REQUIRED", "SKIPPED"}, Settle(e, status),
         MayCreate(t, w), UNCHANGED records, UNCHANGED checkpoint,
         job'[t][w] # job[t][w] =>
           occ[t][w].status = "SUBMISSION_PENDING" /\ status = "REVIEW_REQUIRED",
         status = "SKIPPED" => job[t][w] = "none"
  PROVE  CalendarInv'
<1>a. PICK n \in 0..MaxAttempts : n = Tries(e)
  BY DEF Tries, InProcess, Holds
<1>1. PICK p \in {"retry", "checkpoint"} : p = ev[e].resume
  BY DEF CalendarInv, CalendarTypeOK, Evaluation
<1>b. PICK next : next = [ev EXCEPT ![e].pc = p, ![e].priors = {}]
  OBVIOUS
<1>2. Update(e, status, n, next) /\ status \in Statuses
  BY <1>a, <1>1, <1>b DEF Settle, Statuses
<1>3. Marks(t, w, status) /\ ((ev' = next /\ lock' = lock) \/ Abort(e))
  BY <1>2, UpdateMarks
<1>4. ASSUME ev' = next PROVE Stays(e) /\ EvaluationFacts(e)'
  <2>1. Stays(e) /\ ev'[e].pc = p /\ ev'[e].pending = ev[e].pending
    BY <1>1, <1>b, <1>4, SettleMoves DEF Points, CalendarInv
  <2>2. \A v \in Instants : occ[t][v].status # "none" => occ'[t][v].status # "none"
    BY <1>2, <1>3, MarksKeep
  <2>. QED
    BY <1>1, <2>1, <2>2, Returns DEF records, InProcess
<1>5. status \in (Unsettled \cup {"SUBMITTED"}) \ {"DUE"} \/ status = "SKIPPED"
  BY DEF Unsettled
<1>. QED
  BY <1>2, <1>3, <1>4, <1>5, MarkedKeeps DEF records, InProcess

\* No job is created.
LEMMA NoneCreated ==
  ASSUME CalendarInv, NEW t \in Templates, NEW w \in Instants, UNCHANGED job
  PROVE  MayCreate(t, w) /\ job'[t][w] = job[t][w]
  BY DEF CalendarInv, CalendarTypeOK, MayCreate

\* Submission creates at most the job of the occurrence submitted.
LEMMA OneCreated ==
  ASSUME CalendarInv, NEW e \in Evaluators, NEW t \in Templates, NEW w \in Instants,
         InProcess(e, t, w), CreateJob(e)
  PROVE  MayCreate(t, w) /\ job'[t][w] # "none"
  BY DEF CalendarInv, CalendarTypeOK, CreateJob, MayCreate, InProcess, Holds

\* The evaluation goes on with its occurrence, nothing is stored.
LEMMA GoesOn ==
  ASSUME CalendarInv, NEW e \in Evaluators, NEW t \in Templates, NEW w \in Instants,
         InProcess(e, t, w), UNCHANGED <<records, occ, checkpoint, job>>, lock' = lock,
         Stays(e), EvaluationFacts(e)'
  PROVE  CalendarInv'
<1>1. Marks(t, w, occ[t][w].status) /\ MayCreate(t, w) /\ job'[t][w] = job[t][w]
  BY NoneCreated DEF Marks, CalendarInv, CalendarTypeOK
<1>2. /\ occ[t][w].status = "SUBMISSION_PENDING" => \A v \in Instants \ {w} : Over(t, v)
      /\ occ[t][w].status = "DUE" => job[t][w] = "none"
      /\ occ[t][w].status \in OpenStatuses
  BY DEF CalendarInv, TemplateFacts, SoleJob, Truthful, InProcess
<1>3. occ[t][w].status \in Statuses /\ occ[t][w].status \notin {"SKIPPED", "SUBMITTED"}
  BY <1>2 DEF OpenStatuses, Statuses
<1>. QED
  BY <1>1, <1>2, <1>3, MarkedKeeps DEF records, InProcess

\* The facts about the evaluation that goes on in #process, for its next point.
LEMMA NextPoint ==
  ASSUME CalendarInv, NEW e \in Evaluators, NEW t \in Templates, NEW w \in Instants,
         InProcess(e, t, w), Stays(e), ev'[e].window = w, ev'[e].resume = ev[e].resume,
         ev'[e].pending = ev[e].pending, ev'[e].pc \in Processing,
         UNCHANGED <<records, checkpoint>>, ProcessFacts(e)',
         \A v \in Instants : occ[t][v].status # "none" => occ'[t][v].status # "none"
  PROVE  EvaluationFacts(e)'
<1>1. ev'[e].pending = {} /\ ev'[e].template = t /\ t # None
  BY CalendarAssumption DEF CalendarInv, EvaluationFacts, PendingFacts, Processing, InProcess,
     Stays, Holds
<1>a. PICK n \in Instants : n = ev[e].now
  BY DEF CalendarInv, CalendarTypeOK, Evaluation
<1>2. ev'[e].resume = "checkpoint" => SeenTo(e)'
  BY <1>a, SeenStays DEF CalendarInv, EvaluationFacts, ScanFacts, InProcess, records, Processing
<1>. QED
  BY <1>1, <1>2 DEF EvaluationFacts, HolderPoints, PendingFacts, ScanFacts, Processing

\* #process asks for the job of a predecessor, or goes on to submit.
LEMMA CheckPriorKeeps ==
  ASSUME CalendarInv, NEW e \in Evaluators, CheckPrior(e) PROVE CalendarInv'
<1>1. ev[e].pc = "priors" /\ ev[e].priors # {} /\ UNCHANGED <<records, checkpoint, job>>
  BY DEF CheckPrior, At
<1>2. PICK t \in Templates, w \in Instants : InProcess(e, t, w)
  BY <1>1, ProcessHolds DEF Processing
<1>3. PICK prior \in Instants : prior = Min(ev[e].priors)
  BY <1>1, <1>2, EarliestOf DEF InProcess
<1>4. CASE Settle(e, "REVIEW_REQUIRED")
  BY <1>1, <1>2, <1>4, SettleKeeps, NoneCreated DEF records
<1>5. CASE /\ occ[t][prior].status = "SUBMITTED"
           /\ ev' = [ev EXCEPT ![e].pc = "lookup", ![e].seen = job[t][prior]]
           /\ UNCHANGED <<occ, lock>>
  <2>1. PICK seen \in {"none", "live", "ended"} : seen = job[t][prior]
    BY DEF CalendarInv, CalendarTypeOK
  <2>2. /\ Stays(e) /\ ev'[e].window = w /\ ev'[e].resume = ev[e].resume
        /\ ev'[e].pending = ev[e].pending /\ ev'[e].priors = ev[e].priors
        /\ ev'[e].pc = "lookup" /\ ev'[e].seen = seen
    BY <1>2, <1>5, <2>1, AskMoves DEF CalendarInv, InProcess
  <2>3. prior # w
    BY <1>2, <1>5 DEF InProcess, OpenStatuses
  <2>4. seen = "live" => occ[t][w].status = "DUE"
    BY <1>2, <2>1, <2>3 DEF CalendarInv, TemplateFacts, SoleJob, Over, InProcess, OpenStatuses
  <2>5. seen = "ended" => Over(t, prior)
    BY <2>1 DEF Over
  <2>6. \A v \in Instants : v # w /\ v \notin ev[e].priors => Over(t, v)
    BY <1>1, <1>2 DEF CalendarInv, EvaluationFacts, ProcessFacts, InProcess, Holds
  <2>7. ProcessFacts(e)'
    BY <1>1, <1>2, <1>3, <1>5, <2>2, <2>4, <2>5, <2>6
       DEF ProcessFacts, Stays, InProcess, Holds, Over, Processing
  <2>8. EvaluationFacts(e)'
    BY <1>1, <1>2, <1>5, <2>2, <2>7, NextPoint DEF Processing
  <2>. QED
    BY <1>1, <1>2, <1>5, <2>2, <2>8, GoesOn
<1>. QED
  BY <1>2, <1>3, <1>4, <1>5 DEF CheckPrior, Status, InProcess, Holds

\* The answer of getJob is acted on.
LEMMA LookupAnsweredKeeps ==
  ASSUME CalendarInv, NEW e \in Evaluators, LookupAnswered(e) PROVE CalendarInv'
<1>1. ev[e].pc = "lookup" /\ UNCHANGED <<records, checkpoint, job>>
  BY DEF LookupAnswered, At
<1>2. PICK t \in Templates, w \in Instants : InProcess(e, t, w)
  BY <1>1, ProcessHolds DEF Processing
<1>3. ProcessFacts(e) /\ ev[e].priors # {}
  BY <1>1 DEF CalendarInv, EvaluationFacts, ProcessFacts
<1>4. CASE Settle(e, "REVIEW_REQUIRED")
  BY <1>1, <1>2, <1>4, SettleKeeps, NoneCreated DEF records
<1>5. CASE ev[e].seen = "live" /\ Settle(e, "SKIPPED")
  <2>1. job[t][w] = "none"
    BY <1>1, <1>2, <1>3, <1>5 DEF ProcessFacts, InProcess, Holds, CalendarInv, TemplateFacts,
                                  Truthful
  <2>. QED
    BY <1>1, <1>2, <1>5, <2>1, SettleKeeps, NoneCreated DEF records
<1>6. CASE /\ ev[e].seen = "ended"
           /\ ev' = [ev EXCEPT ![e].pc     = "priors",
                               ![e].priors = @ \ {Min(@)},
                               ![e].seen   = "none"]
           /\ UNCHANGED <<occ, lock>>
  <2>1. PICK prior \in Instants : prior = Min(ev[e].priors)
    BY <1>2, <1>3, EarliestOf DEF InProcess
  <2>2. PICK priors \in SUBSET Instants : priors = ev[e].priors \ {prior}
    BY <1>2 DEF InProcess
  <2>3. ev' = [ev EXCEPT ![e].pc = "priors", ![e].priors = priors, ![e].seen = "none"]
    BY <1>6, <2>1, <2>2
  <2>4. /\ Stays(e) /\ ev'[e].window = w /\ ev'[e].resume = ev[e].resume
        /\ ev'[e].pending = ev[e].pending /\ ev'[e].priors = priors /\ ev'[e].pc = "priors"
    BY <1>2, <2>3, DropMoves DEF CalendarInv, InProcess
  <2>5. Over(t, prior)
    BY <1>1, <1>2, <1>3, <1>6, <2>1 DEF ProcessFacts, InProcess, Holds
  <2>6. \A v \in Instants : v # w /\ v \notin priors => Over(t, v)
    BY <1>1, <1>2, <1>3, <2>2, <2>5 DEF ProcessFacts, InProcess, Holds
  <2>7. ProcessFacts(e)'
    BY <1>1, <1>2, <1>6, <2>4, <2>6
       DEF ProcessFacts, Stays, InProcess, Holds, Over, Processing
  <2>8. EvaluationFacts(e)'
    BY <1>1, <1>2, <1>6, <2>4, <2>7, NextPoint DEF Processing
  <2>. QED
    BY <1>1, <1>2, <1>6, <2>4, <2>8, GoesOn
<1>. QED
  BY <1>4, <1>5, <1>6 DEF LookupAnswered

\* accept is called, and may create the job.
LEMMA SubmitKeeps ==
  ASSUME CalendarInv, NEW e \in Evaluators, Submit(e) PROVE CalendarInv'
<1>1. ev[e].pc = "priors" /\ ev[e].priors = {} /\ UNCHANGED <<records, checkpoint, job>>
  BY DEF Submit, At
<1>2. PICK t \in Templates, w \in Instants : InProcess(e, t, w)
  BY <1>1, ProcessHolds DEF Processing
<1>3. CASE Settle(e, "REVIEW_REQUIRED")
  BY <1>1, <1>2, <1>3, SettleKeeps, NoneCreated DEF records
<1>4. CASE /\ ~(Tries(e) >= MaxAttempts)
           /\ Update(e, "SUBMISSION_PENDING", Tries(e) + 1, [ev EXCEPT ![e].pc = "accept"])
  <2>1. PICK n \in 0..MaxAttempts : n = Tries(e) + 1
    BY <1>2, <1>4, CalendarAssumption DEF Tries, InProcess, Holds
  <2>2. PICK next : next = [ev EXCEPT ![e].pc = "accept"]
    OBVIOUS
  <2>3. PICK status \in Statuses : status = "SUBMISSION_PENDING"
    BY DEF Statuses, OpenStatuses
  <2>4. Marks(t, w, status) /\ ((ev' = next /\ lock' = lock) \/ Abort(e))
    <3>1. Update(e, status, n, next)
      BY <1>4, <2>1, <2>2, <2>3
    <3>. QED
      BY <1>2, <3>1, UpdateMarks
  <2>5. \A v \in Instants \ {w} : Over(t, v)
    BY <1>1, <1>2 DEF CalendarInv, EvaluationFacts, ProcessFacts, InProcess, Holds
  <2>6. ASSUME ev' = next PROVE Stays(e) /\ EvaluationFacts(e)'
    <3>1. /\ Stays(e) /\ ev'[e].window = w /\ ev'[e].resume = ev[e].resume
          /\ ev'[e].pending = ev[e].pending /\ ev'[e].pc = "accept"
      BY <1>2, <2>2, <2>6, GotoMoves DEF Goto, Points, CalendarInv, InProcess, SameSearch
    <3>2. occ'[t][w].status = "SUBMISSION_PENDING"
      BY <2>3, <2>4 DEF Marks
    <3>3. ProcessFacts(e)'
      BY <1>2, <3>1, <3>2 DEF ProcessFacts, Stays, InProcess, Holds, OpenStatuses
    <3>4. \A v \in Instants : occ[t][v].status # "none" => occ'[t][v].status # "none"
      BY <2>4, MarksKeep
    <3>. QED
      BY <1>1, <1>2, <3>1, <3>3, <3>4, NextPoint DEF Processing
  <2>7. MayCreate(t, w) /\ job'[t][w] = job[t][w]
    BY <1>1, NoneCreated
  <2>. QED
    BY <1>1, <1>2, <2>3, <2>4, <2>5, <2>6, <2>7, MarkedKeeps DEF records, InProcess
<1>. QED
  BY <1>3, <1>4 DEF Submit

\* At "accept" the submission is the open one and no other job is unfinished.
LEMMA AtAccept ==
  ASSUME CalendarInv, NEW e \in Evaluators, At(e, "accept"), NEW t \in Templates,
         NEW w \in Instants, InProcess(e, t, w)
  PROVE  /\ occ[t][w].status = "SUBMISSION_PENDING"
         /\ \A v \in Instants \ {w} : Over(t, v)
  BY DEF At, CalendarInv, EvaluationFacts, ProcessFacts, InProcess, Holds, TemplateFacts, SoleJob

\* An update of the store inside the try around accept.
LEMMA SettleInTryKeeps ==
  ASSUME CalendarInv, NEW e \in Evaluators, At(e, "accept"), NEW t \in Templates,
         NEW w \in Instants, InProcess(e, t, w),
         NEW status \in {"SUBMITTED", "REVIEW_REQUIRED"}, SettleInTry(e, status),
         MayCreate(t, w), UNCHANGED records, UNCHANGED checkpoint,
         status = "SUBMITTED" => job'[t][w] # "none"
  PROVE  CalendarInv'
<1>1. PICK n \in 0..MaxAttempts : n = Tries(e)
  BY DEF Tries, InProcess, Holds
<1>2. PICK p \in {"retry", "checkpoint"} : p = ev[e].resume
  BY DEF CalendarInv, CalendarTypeOK, Evaluation
<1>3. Updatable(e, w) /\ w = ev[e].window
  BY DEF Updatable, Status, InProcess, Holds
<1>4. SetOccurrence(e, w, status, n) /\ ((Goto(e, p) /\ lock' = lock) \/ Abort(e))
  BY <1>1, <1>2, <1>3 DEF SettleInTry, Goto
<1>5. status \in Statuses /\ status \in (Unsettled \cup {"SUBMITTED"}) \ {"DUE"}
      /\ status \notin {"SKIPPED", "DUE", "SUBMISSION_PENDING"}
  BY DEF Statuses, Unsettled
<1>6. Marks(t, w, status)
  BY <1>4, <1>5, OccurrenceSet DEF InProcess
<1>7. ASSUME Goto(e, p) PROVE Stays(e) /\ EvaluationFacts(e)'
  <2>1. Stays(e) /\ ev'[e].pc = p /\ ev'[e].pending = ev[e].pending
    BY <1>7, GotoMoves DEF Points, CalendarInv
  <2>2. \A v \in Instants : occ[t][v].status # "none" => occ'[t][v].status # "none"
    BY <1>5, <1>6, MarksKeep
  <2>. QED
    BY <1>2, <2>1, <2>2, Returns DEF records, InProcess
<1>8. occ[t][w].status = "SUBMISSION_PENDING"
  BY AtAccept
<1>. QED
  BY <1>4, <1>5, <1>6, <1>7, <1>8, MarkedKeeps DEF records, InProcess

\* accept answered with the job.
LEMMA AcceptedKeeps ==
  ASSUME CalendarInv, NEW e \in Evaluators, Accepted(e) PROVE CalendarInv'
<1>1. At(e, "accept") /\ CreateJob(e) /\ SettleInTry(e, "SUBMITTED")
      /\ UNCHANGED records /\ UNCHANGED checkpoint
  BY DEF Accepted
<1>2. PICK t \in Templates, w \in Instants : InProcess(e, t, w)
  BY <1>1, ProcessHolds DEF Processing, At
<1>3. MayCreate(t, w) /\ job'[t][w] # "none"
  BY <1>1, <1>2, OneCreated
<1>. QED
  BY <1>1, <1>2, <1>3, SettleInTryKeeps

\* accept refused the intent.
LEMMA RefusedKeeps ==
  ASSUME CalendarInv, NEW e \in Evaluators, Refused(e) PROVE CalendarInv'
<1>1. At(e, "accept") /\ SettleInTry(e, "REVIEW_REQUIRED")
      /\ UNCHANGED records /\ UNCHANGED checkpoint /\ UNCHANGED job
  BY DEF Refused
<1>2. PICK t \in Templates, w \in Instants : InProcess(e, t, w)
  BY <1>1, ProcessHolds DEF Processing, At
<1>3. MayCreate(t, w)
  BY <1>1, NoneCreated
<1>. QED
  BY <1>1, <1>2, <1>3, SettleInTryKeeps

\* accept gave no usable answer: the occurrence is retried or reviewed.
LEMMA AnswerLostKeeps ==
  ASSUME CalendarInv, NEW e \in Evaluators, AnswerLost(e) PROVE CalendarInv'
<1>1. At(e, "accept") /\ (CreateJob(e) \/ UNCHANGED job)
      /\ UNCHANGED records /\ UNCHANGED checkpoint
  BY DEF AnswerLost
<1>2. PICK t \in Templates, w \in Instants : InProcess(e, t, w)
  BY <1>1, ProcessHolds DEF Processing, At
<1>3. MayCreate(t, w)
  BY <1>1, <1>2, NoneCreated, OneCreated
<1>4. /\ occ[t][w].status = "SUBMISSION_PENDING"
      /\ \A v \in Instants \ {w} : Over(t, v)
  BY <1>1, <1>2, AtAccept
<1>5. CASE GiveUp(e)
  BY <1>1, <1>2, <1>3, <1>4, <1>5, SettleKeeps DEF GiveUp
<1>6. CASE Goto(e, ev[e].resume) /\ UNCHANGED <<occ, lock>>
  <2>1. PICK status \in Statuses : status = "SUBMISSION_PENDING"
    BY DEF Statuses, OpenStatuses
  <2>2. Marks(t, w, status) /\ status \in (Unsettled \cup {"SUBMITTED"}) \ {"DUE"}
    BY <1>4, <1>6, <2>1 DEF Marks, CalendarInv, CalendarTypeOK, Unsettled, OpenStatuses
  <2>3. PICK p \in {"retry", "checkpoint"} : p = ev[e].resume
    BY DEF CalendarInv, CalendarTypeOK, Evaluation
  <2>4. Stays(e) /\ ev'[e].pc = p /\ ev'[e].pending = ev[e].pending
    BY <1>6, <2>3, GotoMoves DEF Points, CalendarInv
  <2>5. EvaluationFacts(e)'
    BY <1>1, <1>2, <1>6, <2>3, <2>4, Returns DEF records, InProcess
  <2>. QED
    BY <1>1, <1>2, <1>3, <1>4, <1>6, <2>1, <2>2, <2>4, <2>5, MarkedKeeps DEF records, InProcess
<1>. QED
  BY <1>5, <1>6 DEF AnswerLost

-----------------------------------------------------------------------------
(* The steps outside #process.                                              *)

\* Time goes on and one template, that nobody holds, is edited.
LEMMA EditKeeps ==
  ASSUME CalendarInv, NEW t \in Templates, lock[t] = None,
         NEW r \in Template, r.status # "ABSENT", r.schedule \in Schedules,
         templates' = [templates EXCEPT ![t] = r], time' \in time..MaxTime,
         UNCHANGED <<occ, lock, checkpoint, job, ev>>
  PROVE  CalendarInv'
<1>1. CalendarTypeOK /\ None \notin Evaluators /\ None \notin Templates /\ MaxTime \in Nat
  BY CalendarAssumption DEF CalendarInv
<1>2. time \in Instants /\ time' \in Instants /\ time <= time'
  BY <1>1 DEF CalendarTypeOK, Instants
<1>3. CalendarTypeOK'
  <2>1. /\ templates' \in [Templates -> Template]
        /\ checkpoint' \in [Templates -> Never..time']
    BY <1>1, <1>2 DEF CalendarTypeOK, Instants, Never
  <2>2. \A x \in Evaluators : ev[x].now \in Int /\ ev[x].now <= time'
    BY <1>1, <1>2 DEF CalendarTypeOK, Instants, Evaluation
  <2>3. \A u \in Templates, w \in Instants : occ[u][w].status # "none" => w <= time'
    BY <1>1, <1>2 DEF CalendarTypeOK, Instants
  <2>. QED
    BY <1>1, <1>2, <2>1, <2>2, <2>3 DEF CalendarTypeOK
<1>4. ASSUME NEW x \in Evaluators PROVE EvaluationFacts(x)'
  <2>1. ev[x].template # t
    BY <1>1 DEF CalendarTypeOK
  <2>3. \A u \in Templates \ {t} : Unmoved(u)
    BY <1>1 DEF Unmoved, Over, CalendarTypeOK
  <2>. QED
    BY <1>1, <2>1, <2>3, FactsStay DEF CalendarInv
<1>5. ASSUME NEW u \in Templates PROVE HeldTemplates(u)' /\ TemplateFacts(u)'
  <2>1. TemplateFacts(u)'
    BY TemplateStays DEF CalendarInv
  <2>2. HeldTemplates(u)'
    BY <1>1 DEF CalendarInv, HeldTemplates, CalendarTypeOK
  <2>. QED
    BY <2>1, <2>2
<1>. QED
  BY <1>3, <1>4, <1>5 DEF CalendarInv

\* createTemplate.
LEMMA CreateTemplateKeeps ==
  ASSUME CalendarInv, NEW t \in Templates, CreateTemplate(t)
  PROVE  CalendarInv'
<1>1. PICK schedule \in Schedules, policy \in Policies :
        templates' = [templates EXCEPT ![t] =
          [status |-> "ACTIVE", revision |-> 1, schedule |-> schedule, policy |-> policy]]
  BY DEF CreateTemplate
<1>2. PICK r : r = [status |-> "ACTIVE", revision |-> 1, schedule |-> schedule, policy |-> policy]
  OBVIOUS
<1>3. r \in Template /\ r.status # "ABSENT" /\ r.schedule \in Schedules
  BY <1>2, CalendarAssumption DEF Template
<1>. QED
  BY <1>1, <1>2, <1>3, EditKeeps DEF CreateTemplate

\* updateTemplate, which the store refuses while the template is locked.
LEMMA ChangeTemplateKeeps ==
  ASSUME CalendarInv, NEW t \in Templates, ChangeTemplate(t) PROVE CalendarInv'
<1>1. PICK status \in {"ACTIVE", "PAUSED", "RETIRED"}, schedule \in Schedules,
           policy \in Policies :
        templates' = [templates EXCEPT ![t] =
          [ status |-> status, revision |-> templates[t].revision + 1,
            schedule |-> schedule, policy |-> policy ]]
  BY DEF ChangeTemplate
<1>2. PICK n : n = templates[t].revision + 1
  OBVIOUS
<1>3. n \in 0..MaxRevision
  BY <1>2, CalendarAssumption DEF ChangeTemplate, CalendarInv, CalendarTypeOK, Template
<1>4. PICK r : r = [status |-> status, revision |-> n, schedule |-> schedule, policy |-> policy]
  OBVIOUS
<1>5. r \in Template /\ r.status # "ABSENT" /\ r.schedule \in Schedules
  BY <1>3, <1>4 DEF Template
<1>. QED
  BY <1>1, <1>2, <1>4, <1>5, EditKeeps DEF ChangeTemplate, Editable

\* An evaluation that holds nothing goes on holding nothing.
LEMMA FreeKeeps ==
  ASSUME CalendarInv, NEW e \in Evaluators, ev[e].template = None, Holdless(e),
         ev'[e].now \in Instants, ev'[e].now <= time', time' \in time..MaxTime,
         UNCHANGED <<templates, occ, lock, checkpoint, job>>
  PROVE  CalendarInv'
<1>1. CalendarTypeOK /\ None \notin Evaluators /\ None \notin Templates /\ MaxTime \in Nat
  BY CalendarAssumption DEF CalendarInv
<1>2. time \in Instants /\ time' \in Instants /\ time <= time'
  BY <1>1 DEF CalendarTypeOK, Instants
<1>3. ev' \in [Evaluators -> Evaluation] /\ Others(e) /\ ev'[e].template = None
  BY DEF Holdless
<1>4. CalendarTypeOK'
  <2>1. checkpoint' \in [Templates -> Never..time']
    BY <1>1, <1>2 DEF CalendarTypeOK, Instants, Never
  <2>2. \A x \in Evaluators : ev'[x].now <= time'
    <3>1. \A x \in Evaluators : ev[x].now \in Int /\ ev[x].now <= time'
      BY <1>1, <1>2 DEF CalendarTypeOK, Instants, Evaluation
    <3>. QED
      BY <1>3, <3>1 DEF Others
  <2>3. \A u \in Templates, w \in Instants : occ[u][w].status # "none" => w <= time'
    BY <1>1, <1>2 DEF CalendarTypeOK, Instants
  <2>4. \A u \in Templates, x \in Evaluators : lock[u] = x <=> ev'[x].template = u
    <3>1. \A u \in Templates : lock[u] # e
      BY <1>1 DEF CalendarTypeOK
    <3>. QED
      BY <1>1, <1>3, <3>1 DEF CalendarTypeOK, Others
  <2>. QED
    BY <1>1, <1>2, <1>3, <2>1, <2>2, <2>3, <2>4 DEF CalendarTypeOK
<1>5. ASSUME NEW x \in Evaluators \ {e} PROVE EvaluationFacts(x)'
  <2>1. \A u \in Templates : Unmoved(u)
    BY DEF Unmoved, Over
  <2>. QED
    BY <1>1, <1>3, <2>1, FactsStay DEF CalendarInv, Others
<1>6. EvaluationFacts(e)'
  BY DEF Holdless, EvaluationFacts, HolderPoints, ProcessFacts, PendingFacts, ScanFacts, Processing
<1>7. ASSUME NEW u \in Templates PROVE HeldTemplates(u)' /\ TemplateFacts(u)'
  <2>1. TemplateFacts(u)'
    BY TemplateStays DEF CalendarInv
  <2>2. HeldTemplates(u)'
    BY DEF CalendarInv, HeldTemplates
  <2>. QED
    BY <2>1, <2>2
<1>. QED
  BY <1>4, <1>5, <1>6, <1>7 DEF CalendarInv

\* evaluateDueOccurrences begins: the clock is read, the templates listed.
LEMMA BeginKeeps ==
  ASSUME CalendarInv, NEW e \in Evaluators, Begin(e) PROVE CalendarInv'
<1>1. /\ ev[e].pc = "idle" /\ time' \in time..MaxTime
      /\ UNCHANGED <<templates, occ, lock, checkpoint, job>>
  BY DEF Begin, At
<1>2. ev[e].template = None
  BY <1>1 DEF CalendarInv, EvaluationFacts, HolderPoints
<1>3. PICK todo \in SUBSET Templates : todo = {t \in Templates : templates[t].status = "ACTIVE"}
  OBVIOUS
<1>4. PICK now \in Instants : now = time' /\ time <= now
  BY <1>1, CalendarAssumption DEF CalendarInv, CalendarTypeOK, Instants
<1>5. ev' = [ev EXCEPT ![e] = Remaining(now, todo)]
  BY <1>3, <1>4 DEF Begin
<1>6. Holdless(e) /\ ev'[e].now \in {0, now}
  BY <1>5, RemainingMoves DEF CalendarInv
<1>7. ev'[e].now \in Instants /\ ev'[e].now <= time'
  BY <1>4, <1>6, CalendarAssumption DEF Instants
<1>. QED
  BY <1>1, <1>2, <1>6, <1>7, FreeKeeps

\* The loop takes the next template and its lock.
LEMMA TakeTemplateKeeps ==
  ASSUME CalendarInv, NEW e \in Evaluators, TakeTemplate(e) PROVE CalendarInv'
<1>1. ev[e].pc = "next" /\ UNCHANGED <<records, occ, checkpoint, job>>
  BY DEF TakeTemplate, At
<1>2. ev[e].template = None /\ CalendarTypeOK
  BY <1>1 DEF CalendarInv, EvaluationFacts, HolderPoints
<1>3. PICK now \in Instants, old \in SUBSET Templates :
        now = ev[e].now /\ old = ev[e].todo /\ now <= time
  BY <1>2 DEF CalendarTypeOK, Evaluation
<1>4. PICK t \in Templates :
        IF Takable(t)
        THEN /\ lock' = [lock EXCEPT ![t] = e]
             /\ ev' = [ev EXCEPT ![e].pc       = "retry",
                                 ![e].todo     = @ \ {t},
                                 ![e].template = t,
                                 ![e].pending  = With(t, OpenStatuses)]
        ELSE /\ ev' = [ev EXCEPT ![e] = Remaining(@.now, @.todo \ {t})]
             /\ UNCHANGED lock
  BY <1>2 DEF TakeTemplate, CalendarTypeOK, Evaluation
<1>5. PICK todo \in SUBSET Templates : todo = old \ {t}
  OBVIOUS
<1>6. CASE ~Takable(t)
  <2>1. ev' = [ev EXCEPT ![e] = Remaining(now, todo)] /\ UNCHANGED lock
    BY <1>2, <1>3, <1>4, <1>5, <1>6 DEF CalendarTypeOK
  <2>2. Holdless(e) /\ ev'[e].now \in {0, now}
    BY <1>2, <2>1, RemainingMoves
  <2>3. time' \in time..MaxTime /\ time' = time
    BY <1>1, <1>2, CalendarAssumption DEF records, CalendarTypeOK, Instants
  <2>4. ev'[e].now \in Instants /\ ev'[e].now <= time'
    BY <1>2, <1>3, <2>2, <2>3, CalendarAssumption DEF Instants, CalendarTypeOK
  <2>. QED
    BY <1>1, <1>2, <2>1, <2>2, <2>3, <2>4, FreeKeeps DEF records
<1>7. CASE Takable(t)
  <2>1. PICK pending \in SUBSET Instants : pending = With(t, OpenStatuses)
    BY DEF With
  <2>2. ev' = [ev EXCEPT ![e].pc = "retry", ![e].todo = todo, ![e].template = t,
                         ![e].pending = pending]
    BY <1>2, <1>3, <1>4, <1>5, <1>7, <2>1 DEF CalendarTypeOK
  <2>3. /\ ev' \in [Evaluators -> Evaluation] /\ Others(e)
        /\ ev'[e].pc = "retry" /\ ev'[e].template = t /\ ev'[e].pending = pending
        /\ ev'[e].now = ev[e].now
    BY <1>2, <2>2, TakeMoves, ZenonT(60)
  <2>4. lock[t] = None /\ templates[t].status = "ACTIVE" /\ lock' = [lock EXCEPT ![t] = e]
    BY <1>4, <1>7 DEF Takable
  <2>5. None \notin Evaluators /\ None \notin Templates
    BY CalendarAssumption
  <2>6. \A u \in Templates, x \in Evaluators : lock'[u] = x <=> ev'[x].template = u
    BY <1>2, <2>3, <2>4, <2>5 DEF CalendarTypeOK, Others
  <2>7. CalendarTypeOK'
    <3>1. \A x \in Evaluators : ev'[x].now <= time
      BY <1>2, <2>3 DEF CalendarTypeOK, Others
    <3>. QED
      BY <1>1, <1>2, <2>3, <2>4, <2>6, <3>1 DEF CalendarTypeOK, records
  <2>8. ASSUME NEW x \in Evaluators \ {e} PROVE EvaluationFacts(x)'
    <3>1. \A u \in Templates : Unmoved(u)
      BY <1>1 DEF Unmoved, Over, records
    <3>. QED
      BY <1>2, <2>3, <3>1, FactsStay DEF CalendarInv, Others
  <2>9. EvaluationFacts(e)'
    BY <1>1, <2>1, <2>3, <2>5
       DEF EvaluationFacts, HolderPoints, ProcessFacts, PendingFacts, ScanFacts, Processing, With
  <2>10. ASSUME NEW u \in Templates PROVE HeldTemplates(u)' /\ TemplateFacts(u)'
    <3>1. TemplateFacts(u)'
      BY <1>1, TemplateStays DEF CalendarInv
    <3>2. HeldTemplates(u)'
      BY <1>1, <1>2, <2>4 DEF CalendarInv, HeldTemplates, records, CalendarTypeOK
    <3>. QED
      BY <3>1, <3>2
  <2>. QED
    BY <2>7, <2>8, <2>9, <2>10 DEF CalendarInv
<1>. QED
  BY <1>6, <1>7

\* Relay ends a job of an occurrence.
LEMMA JobEndsKeeps ==
  ASSUME CalendarInv, NEW t \in Templates, NEW w \in Instants, JobEnds(t, w)
  PROVE  CalendarInv'
<1>1. /\ CalendarTypeOK /\ job[t][w] = "live" /\ UNCHANGED <<records, occ, lock, checkpoint, ev>>
      /\ job' \in [Templates -> [Instants -> {"none", "live", "ended"}]]
      /\ job'[t][w] = "ended"
      /\ \A u \in Templates, v \in Instants : u # t \/ v # w => job'[u][v] = job[u][v]
  BY DEF JobEnds, CalendarInv, CalendarTypeOK
<1>2. CalendarTypeOK'
  BY <1>1 DEF CalendarTypeOK, records
<1>3. ASSUME NEW x \in Evaluators PROVE EvaluationFacts(x)'
  <2>1. ASSUME NEW u \in Templates PROVE Unmoved(u)
    <3>1. ASSUME NEW v \in Instants, Over(u, v) PROVE Over(u, v)'
      BY <1>1, <3>1 DEF Over
    <3>. QED
      BY <1>1, <3>1 DEF Unmoved, records
  <2>. QED
    BY <1>1, <2>1, FactsStay DEF CalendarInv
<1>4. ASSUME NEW u \in Templates PROVE HeldTemplates(u)' /\ TemplateFacts(u)'
  <2>1. \A v \in Instants : /\ job'[u][v] = "live" => job[u][v] = "live"
                            /\ job'[u][v] = "none" <=> job[u][v] = "none"
    BY <1>1
  <2>2. TemplateFacts(u)
    BY DEF CalendarInv
  <2>3. OneUnsettled(u)' /\ SoleJob(u)'
    BY <1>1, <2>1, <2>2 DEF TemplateFacts, OneUnsettled, SoleJob, Over
  <2>4. SoleLive(u)' /\ Truthful(u)'
    BY <1>1, <2>1, <2>2 DEF TemplateFacts, SoleLive, Truthful
  <2>5. HeldTemplates(u)'
    BY <1>1 DEF CalendarInv, HeldTemplates, records
  <2>. QED
    BY <2>3, <2>4, <2>5 DEF TemplateFacts
<1>. QED
  BY <1>2, <1>3, <1>4 DEF CalendarInv

\* Nothing is stored.
LEMMA Quiet ==
  ASSUME CalendarInv, NEW t \in Templates, UNCHANGED <<records, occ, checkpoint, job>>
  PROVE  OnlyAt(t) /\ TemplateFacts(t)'
<1>1. TemplateFacts(t)'
  BY TemplateStays DEF CalendarInv
<1>. QED
  BY <1>1 DEF OnlyAt, records, CalendarInv, CalendarTypeOK

\* At its first point #process has all predecessors before it that may have a job.
LEMMA ProcessStarts ==
  ASSUME CalendarInv, NEW e \in Evaluators, NEW t \in Templates, Holds(e, t),
         NEW w \in Instants, Stays(e), ev'[e].pc = "priors", ev'[e].window = w,
         NEW priors, priors = Predecessors(e, w), ev'[e].priors = priors,
         occ'[t][w].status \in OpenStatuses, UNCHANGED job
  PROVE  ProcessFacts(e)'
<1>1. ASSUME NEW v \in Instants, v # w, v \notin ev'[e].priors PROVE Over(t, v)'
  <2>1. occ[t][v].status \in {"SKIPPED", "none"}
    BY <1>1 DEF Predecessors, With, CalendarInv, CalendarTypeOK, Occurrence, Holds
  <2>2. job[t][v] = "none"
    BY <2>1 DEF CalendarInv, TemplateFacts, Truthful
  <2>. QED
    BY <2>2 DEF Over
<1>. QED
  BY <1>1 DEF ProcessFacts, Stays, Holds

\* The loop over the open occurrences.
LEMMA RetryPendingKeeps ==
  ASSUME CalendarInv, NEW e \in Evaluators, RetryPending(e) PROVE CalendarInv'
<1>1. ev[e].pc = "retry" /\ UNCHANGED <<records, occ, lock, checkpoint, job>>
  BY DEF RetryPending, At
<1>2. PICK t \in Templates : Holds(e, t) /\ t # None
  BY <1>1, HolderFacts, CalendarAssumption DEF At
<1>3. OnlyAt(t) /\ TemplateFacts(t)'
  BY <1>1, Quiet
<1>4. CASE ev[e].pending = {} /\ Goto(e, "scan")
  <2>1. Stays(e) /\ ev'[e].pc = "scan" /\ ev'[e].pending = {}
    BY <1>4, GotoMoves DEF CalendarInv, Points
  <2>2. EvaluationFacts(e)'
    BY <1>2, <2>1 DEF EvaluationFacts, HolderPoints, ProcessFacts, PendingFacts, ScanFacts,
                      Processing, Stays, Holds
  <2>. QED
    BY <1>1, <1>2, <1>3, <2>1, <2>2, HolderStep
<1>5. CASE /\ ev[e].pending # {}
           /\ ev' = [Process(e, Min(ev[e].pending), "retry")
                       EXCEPT ![e].pending = @ \ {Min(ev[e].pending)}]
  <2>1. PICK old \in SUBSET Instants : old = ev[e].pending
    BY DEF CalendarInv, CalendarTypeOK, Evaluation
  <2>2. PICK w \in old : w = Min(old)
    BY <1>5, <2>1, EarliestOf
  <2>3. old \subseteq With(t, OpenStatuses)
    BY <1>2, <1>5, <2>1 DEF CalendarInv, EvaluationFacts, PendingFacts, Holds
  <2>4. w \in Instants /\ occ[t][w].status \in OpenStatuses
    BY <2>2, <2>3 DEF With
  <2>5. old \ {w} = {}
    BY <2>2, <2>3, <2>4 DEF With, CalendarInv, TemplateFacts, OneUnsettled, Unsettled
  <2>6. PICK pending \in SUBSET Instants : pending = {}
    OBVIOUS
  <2>7. PICK priors : priors = Predecessors(e, w)
    OBVIOUS
  <2>9. ProcessCalled(e, w, "retry", pending)
    <3>a. PICK f : f = Process(e, w, "retry")
      OBVIOUS
    <3>1. f[e].pending = old
      BY <2>1, <3>a DEF Process, CalendarInv, CalendarTypeOK, Evaluation
    <3>. QED
      BY <1>5, <2>1, <2>2, <2>5, <2>6, <3>a, <3>1 DEF ProcessCalled
  <2>10. /\ Stays(e) /\ ev'[e].pc = "priors" /\ ev'[e].window = w /\ ev'[e].resume = "retry"
         /\ ev'[e].priors = priors /\ ev'[e].pending = pending
    BY <1>2, <2>4, <2>7, <2>9, ProcessMoves DEF CalendarInv, Holds
  <2>11. ProcessFacts(e)'
    BY <1>1, <1>2, <2>4, <2>7, <2>10, ProcessStarts
  <2>12. EvaluationFacts(e)'
    BY <1>2, <2>6, <2>10, <2>11
       DEF EvaluationFacts, HolderPoints, PendingFacts, ScanFacts, Stays, Holds
  <2>. QED
    BY <1>1, <1>2, <1>3, <2>10, <2>12, HolderStep
<1>. QED
  BY <1>4, <1>5 DEF RetryPending

\* The evaluation lets go of the template.
LEMMA LeaveMoves ==
  ASSUME CalendarInv, NEW e \in Evaluators, Leave(e)
  PROVE  Holdless(e) /\ lock' = Unlocked(e) /\ ev'[e].now <= time
<1>1. PICK now \in Instants, todo \in SUBSET Templates :
        now = ev[e].now /\ todo = ev[e].todo /\ now <= time
  BY DEF CalendarInv, CalendarTypeOK, Evaluation
<1>2. ev' = [ev EXCEPT ![e] = Remaining(now, todo)]
  BY <1>1 DEF Leave, CalendarInv, CalendarTypeOK
<1>3. Holdless(e) /\ ev'[e].now \in {0, now}
  BY <1>2, RemainingMoves DEF CalendarInv
<1>4. 0 <= time
  BY CalendarAssumption DEF CalendarInv, CalendarTypeOK, Instants
<1>. QED
  BY <1>1, <1>3, <1>4 DEF Leave

\* An evidence append that throws ends the evaluation.
LEMMA AbortMoves ==
  ASSUME CalendarInv, NEW e \in Evaluators, Abort(e)
  PROVE  Holdless(e) /\ lock' = Unlocked(e) /\ ev'[e].now <= time
<1>1. Holdless(e) /\ ev'[e].now = 0
  BY IdleMoves DEF Abort, CalendarInv
<1>2. 0 <= time
  BY CalendarAssumption DEF CalendarInv, CalendarTypeOK, Instants
<1>. QED
  BY <1>1, <1>2 DEF Abort

\* The evaluation has seen to the windows and is at the checkpoint.
LEMMA AtCheckpoint ==
  ASSUME CalendarInv, NEW e \in Evaluators, NEW t \in Templates, Holds(e, t),
         templates[t].schedule \in Schedules, ev[e].pc = "scan", Goto(e, "checkpoint"),
         NEW n \in Instants, n = ev[e].now,
         SeenTo(e) \/ occ'[t][LatestWindow(t, n)].status # "none",
         UNCHANGED <<records, checkpoint>>,
         \A v \in Instants : occ[t][v].status # "none" => occ'[t][v].status # "none"
  PROVE  Stays(e) /\ EvaluationFacts(e)'
<1>1. Stays(e) /\ ev'[e].pc = "checkpoint" /\ ev'[e].pending = ev[e].pending
  BY GotoMoves DEF CalendarInv, Points
<1>2. ev[e].pending = {} /\ t # None
  BY CalendarAssumption DEF CalendarInv, EvaluationFacts, PendingFacts
<1>3. SeenTo(e)'
  BY <1>1, SeenStays DEF records
<1>. QED
  BY <1>1, <1>2, <1>3 DEF EvaluationFacts, HolderPoints, PendingFacts, ProcessFacts, ScanFacts,
                          Processing, Stays, Holds

\* A new occurrence is the only one that is unsettled.
LEMMA ClaimedStays ==
  ASSUME CalendarInv, NEW t \in Templates, Scannable(t), NEW w \in Instants,
         occ[t][w].status = "none", NEW status \in {"DUE", "REVIEW_REQUIRED"},
         Marks(t, w, status), UNCHANGED job
  PROVE  TemplateFacts(t)'
<1>1. \A v \in Instants : occ[t][v].status \notin Unsettled
  BY DEF Scannable, With, Unsettled
<1>2. TemplateFacts(t)
  BY DEF CalendarInv
<1>3. OneUnsettled(t)' /\ SoleJob(t)'
  BY <1>1 DEF OneUnsettled, SoleJob, Marks, Unsettled, OpenStatuses
<1>4. SoleLive(t)' /\ Truthful(t)'
  BY <1>2 DEF TemplateFacts, SoleLive, Truthful, Marks
<1>. QED
  BY <1>3, <1>4 DEF TemplateFacts

\* The window that is due is claimed.
LEMMA ClaimKeeps ==
  ASSUME CalendarInv, NEW e \in Evaluators, NEW t \in Templates, Holds(e, t),
         templates[t].schedule \in Schedules, ev[e].pc = "scan", Scannable(t),
         NEW n \in Instants, n = ev[e].now, Missed(t, n) # 0,
         NEW status \in {"DUE", "REVIEW_REQUIRED"},
         NEW w, w = LatestWindow(t, n), ClaimWindow(e, t, w, status),
         UNCHANGED <<records, checkpoint, job>>
  PROVE  CalendarInv'
<1>1. w \in Instants /\ w <= n /\ n <= time
  BY LatestIsDue DEF CalendarInv, CalendarTypeOK
<1>2. CASE occ[t][w].status # "none"
  <2>1. Goto(e, "checkpoint") /\ UNCHANGED <<occ, lock>>
    BY <1>2 DEF ClaimWindow
  <2>2. Stays(e) /\ EvaluationFacts(e)'
    BY <1>2, <2>1, AtCheckpoint
  <2>3. OnlyAt(t) /\ TemplateFacts(t)'
    BY <2>1, Quiet
  <2>. QED
    BY <2>1, <2>2, <2>3, HolderStep
<1>3. CASE occ[t][w].status = "none"
  <2>1. PICK next : next = IF status = "DUE" THEN Process(e, w, "checkpoint")
                           ELSE [ev EXCEPT ![e].pc = "checkpoint"]
    OBVIOUS
  <2>2. SetOccurrence(e, w, status, 0) /\ Continue(e, next)
    BY <1>3, <2>1 DEF ClaimWindow
  <2>3. status \in Statuses /\ 0 \in 0..MaxAttempts
    BY CalendarAssumption DEF Statuses, OpenStatuses
  <2>4. Marks(t, w, status)
    BY <1>1, <2>2, <2>3, OccurrenceSet
  <2>5. \A v \in Instants : occ[t][v].status # "none" => occ'[t][v].status # "none"
    BY <1>1, <2>3, <2>4, MarksKeep
  <2>6. TemplateFacts(t)'
    BY <1>1, <1>3, <2>4, ClaimedStays
  <2>7. OnlyAt(t)
    <3>1. \A v \in Instants : occ'[t][v].status # "none" => v <= time
      <4>1. \A v \in Instants : occ[t][v].status # "none" => v <= time
        BY DEF CalendarInv, CalendarTypeOK
      <4>2. w <= time
        BY <1>1, CalendarAssumption DEF CalendarInv, CalendarTypeOK, Instants
      <4>. QED
        BY <2>4, <4>1, <4>2 DEF Marks
    <3>. QED
      BY <2>4, <3>1 DEF OnlyAt, Marks, CalendarInv, CalendarTypeOK, records
  <2>8. CASE Abort(e)
    BY <2>6, <2>7, <2>8, AbortMoves, HolderStep
  <2>9. CASE ev' = next /\ UNCHANGED lock /\ status = "REVIEW_REQUIRED"
    <3>1. Goto(e, "checkpoint")
      BY <2>1, <2>9 DEF Goto
    <3>2. occ'[t][w].status # "none"
      BY <2>4 DEF Marks
    <3>3. Stays(e) /\ EvaluationFacts(e)'
      BY <2>5, <3>1, <3>2, AtCheckpoint
    <3>. QED
      BY <2>6, <2>7, <2>9, <3>3, HolderStep
  <2>10. CASE ev' = next /\ UNCHANGED lock /\ status = "DUE"
    <3>1. PICK priors : priors = Predecessors(e, w)
      OBVIOUS
    <3>2. PICK pending \in SUBSET Instants : pending = ev[e].pending
      BY DEF CalendarInv, CalendarTypeOK, Evaluation
    <3>3. ProcessCalled(e, w, "checkpoint", pending)
      BY <2>1, <2>10, <3>2 DEF ProcessCalled
    <3>4. /\ Stays(e) /\ ev'[e].pc = "priors" /\ ev'[e].window = w
          /\ ev'[e].resume = "checkpoint"
          /\ ev'[e].priors = priors /\ ev'[e].pending = pending
      BY <1>1, <3>1, <3>3, ProcessMoves DEF CalendarInv
    <3>5. occ'[t][w].status = "DUE"
      BY <2>4, <2>10 DEF Marks
    <3>6. ProcessFacts(e)'
      BY <1>1, <3>1, <3>4, <3>5, ProcessStarts DEF OpenStatuses
    <3>7. SeenTo(e)'
      BY <2>5, <3>4, <3>5, SeenStays DEF records
    <3>8. pending = {} /\ t # None
      BY <3>2, CalendarAssumption DEF CalendarInv, EvaluationFacts, PendingFacts
    <3>9. EvaluationFacts(e)'
      BY <3>4, <3>6, <3>7, <3>8
         DEF EvaluationFacts, HolderPoints, PendingFacts, ScanFacts, Stays, Holds
    <3>. QED
      BY <2>6, <2>7, <2>10, <3>4, <3>9, HolderStep
  <2>. QED
    BY <2>2, <2>8, <2>9, <2>10 DEF Continue
<1>. QED
  BY <1>2, <1>3

\* The scan for due windows claims the latest, or goes on.
LEMMA ScanKeeps ==
  ASSUME CalendarInv, NEW e \in Evaluators, Scan(e) PROVE CalendarInv'
<1>1. ev[e].pc = "scan" /\ UNCHANGED <<records, checkpoint, job>>
  BY DEF Scan, At
<1>2. PICK t \in Templates : Holds(e, t) /\ templates[t].schedule \in Schedules
  BY <1>1, HolderFacts DEF At
<1>3. PICK n \in Instants : n = ev[e].now
  BY DEF CalendarInv, CalendarTypeOK, Evaluation
<1>4. PICK missed, latest :
        missed \in Nat /\ missed = Missed(t, n) /\ latest = LatestWindow(t, n)
  BY <1>2, LatestIsDue DEF CalendarInv
<1>5. CASE Leave(e) /\ UNCHANGED occ
  BY <1>1, <1>2, <1>5, Quiet, LeaveMoves, HolderStep
<1>6. CASE Scannable(t) /\ missed > ReviewAfter /\ ClaimWindow(e, t, latest, "REVIEW_REQUIRED")
  <2>1. missed # 0
    BY <1>6, CalendarAssumption
  <2>. QED
    BY <1>1, <1>2, <1>3, <1>4, <1>6, <2>1, ClaimKeeps
<1>7. CASE Scannable(t) /\ missed \in 1..ReviewAfter /\ ClaimWindow(e, t, latest, "DUE")
  <2>1. missed # 0
    BY <1>7
  <2>. QED
    BY <1>1, <1>2, <1>3, <1>4, <1>7, <2>1, ClaimKeeps
<1>8. CASE /\ missed \in 1..ReviewAfter /\ ~RunsOnce(t, missed) /\ UNCHANGED occ
           /\ Continue(e, [ev EXCEPT ![e].pc = "checkpoint"])
  <2>1. templates[t].policy = "SKIP" /\ missed > 1
    BY <1>8 DEF RunsOnce, CalendarInv, CalendarTypeOK, Template, Policies
  <2>2. SeenTo(e)
    BY <1>2, <1>3, <1>4, <2>1 DEF SeenTo, Holds
  <2>3. OnlyAt(t) /\ TemplateFacts(t)'
    BY <1>1, <1>8, Quiet
  <2>4. CASE Abort(e)
    BY <1>2, <2>3, <2>4, AbortMoves, HolderStep
  <2>5. CASE ev' = [ev EXCEPT ![e].pc = "checkpoint"] /\ UNCHANGED lock
    <3>1. Stays(e) /\ EvaluationFacts(e)'
      BY <1>1, <1>2, <1>3, <1>8, <2>2, <2>5, AtCheckpoint DEF Goto
    <3>. QED
      BY <1>2, <2>3, <2>5, <3>1, HolderStep
  <2>. QED
    BY <1>8, <2>4, <2>5 DEF Continue
<1>9. CASE missed = 0 /\ Goto(e, "checkpoint") /\ UNCHANGED <<occ, lock>>
  <2>1. SeenTo(e)
    BY <1>2, <1>3, <1>4, <1>9 DEF SeenTo, Holds
  <2>2. Stays(e) /\ EvaluationFacts(e)'
    BY <1>1, <1>2, <1>3, <1>9, <2>1, AtCheckpoint
  <2>. QED
    BY <1>1, <1>2, <1>9, <2>2, Quiet, HolderStep
<1>. QED
  BY <1>2, <1>3, <1>4, <1>5, <1>6, <1>7, <1>8, <1>9 DEF Scan, Holds

\* The checkpoint is written and the template released.
LEMMA WriteCheckpointKeeps ==
  ASSUME CalendarInv, NEW e \in Evaluators, WriteCheckpoint(e) PROVE CalendarInv'
<1>1. ev[e].pc = "checkpoint" /\ Leave(e) /\ UNCHANGED <<records, occ, job>>
  BY DEF WriteCheckpoint, At
<1>2. PICK t \in Templates : Holds(e, t)
  BY <1>1, HolderFacts DEF At
<1>3. PICK n \in Instants, c \in Never..time : n = ev[e].now /\ c = checkpoint[t] /\ n <= time
  BY DEF CalendarInv, CalendarTypeOK, Evaluation
<1>4. checkpoint' = [checkpoint EXCEPT ![t] = Max({c, n})]
  BY <1>2, <1>3 DEF WriteCheckpoint, Advanced, Holds
<1>5. Max({c, n}) \in Never..time
  <2>1. time \in Nat
    BY CalendarAssumption DEF Instants, CalendarInv, CalendarTypeOK
  <2>2. n \in Int /\ c \in Int /\ n \in Never..time
    BY <1>3, <2>1, CalendarAssumption DEF Instants, Never
  <2>3. Max({c, n}) = IF c >= n THEN c ELSE n
    BY <2>2, LargerOfTwo
  <2>. QED
    BY <1>3, <2>2, <2>3
<1>6. OnlyAt(t)
  BY <1>1, <1>4, <1>5 DEF OnlyAt, records, CalendarInv, CalendarTypeOK
<1>7. TemplateFacts(t)'
  BY <1>1, TemplateStays DEF CalendarInv
<1>. QED
  BY <1>1, <1>2, <1>6, <1>7, LeaveMoves, HolderStep

-----------------------------------------------------------------------------
(* The specification keeps the invariant.                                   *)

\* The initial states satisfy the invariant.
LEMMA CalendarInitInv ==
  ASSUME CalendarInit PROVE CalendarInv
<1>1. time = 0 /\ 0 \in Instants /\ MaxTime \in Nat
  BY CalendarAssumption DEF CalendarInit, Instants
<1>2. None \notin Evaluators /\ None \notin Templates
  BY CalendarAssumption
<1>3. CalendarTypeOK
  <2>1. NoTemplate \in Template /\ NoOccurrence \in Occurrence
    BY CalendarAssumption DEF NoTemplate, Template, NoSchedule, Policies, NoOccurrence, Occurrence
  <2>2. Idle \in Evaluation /\ Idle.now = 0 /\ Idle.template = None
    BY <1>1 DEF Idle, Evaluation, Points
  <2>3. templates \in [Templates -> Template]
    BY <2>1 DEF CalendarInit
  <2>4. occ \in [Templates -> [Instants -> Occurrence]]
    BY <2>1 DEF CalendarInit
  <2>5. job \in [Templates -> [Instants -> {"none", "live", "ended"}]]
    BY DEF CalendarInit
  <2>6. lock \in [Templates -> Evaluators \cup {None}]
    BY DEF CalendarInit
  <2>7. checkpoint \in [Templates -> Never..time]
    BY <1>1 DEF CalendarInit, Never
  <2>8. ev \in [Evaluators -> Evaluation] /\ \A e \in Evaluators : ev[e].now <= time
    BY <1>1, <2>2 DEF CalendarInit
  <2>9. \A t \in Templates, w \in Instants : occ[t][w].status = "none"
    BY DEF CalendarInit, NoOccurrence
  <2>10. \A t \in Templates, e \in Evaluators : lock[t] = e <=> ev[e].template = t
    BY <1>2, <2>2 DEF CalendarInit
  <2>. QED
    BY <1>1, <2>3, <2>4, <2>5, <2>6, <2>7, <2>8, <2>9, <2>10 DEF CalendarTypeOK
<1>4. ASSUME NEW e \in Evaluators PROVE EvaluationFacts(e)
  <2>1. ev[e].pc = "idle" /\ ev[e].template = None /\ ev[e].pending = {}
    BY DEF CalendarInit, Idle
  <2>. QED
    BY <2>1 DEF EvaluationFacts, HolderPoints, ProcessFacts, PendingFacts, ScanFacts, Processing
<1>5. ASSUME NEW t \in Templates PROVE HeldTemplates(t) /\ TemplateFacts(t)
  <2>1. /\ templates[t].status = "ABSENT" /\ lock[t] = None
        /\ \A w \in Instants : occ[t][w].status = "none" /\ job[t][w] = "none"
    BY DEF CalendarInit, NoTemplate, NoOccurrence
  <2>. QED
    BY <2>1 DEF HeldTemplates, TemplateFacts, OneUnsettled, SoleJob, SoleLive, Truthful, Over,
                Unsettled, OpenStatuses
<1>. QED
  BY <1>3, <1>4, <1>5 DEF CalendarInv

\* Every step preserves the invariant: one case per action.
LEMMA CalendarStepInv ==
  ASSUME CalendarInv, [CalendarNext]_calendarVars PROVE CalendarInv'
<1>1. CASE UNCHANGED calendarVars
  <2>1. /\ time' = time /\ templates' = templates /\ occ' = occ /\ lock' = lock
        /\ checkpoint' = checkpoint /\ job' = job /\ ev' = ev
    BY <1>1 DEF calendarVars
  <2>2. CalendarTypeOK'
    BY <2>1 DEF CalendarInv, CalendarTypeOK
  <2>3. ASSUME NEW x \in Evaluators PROVE EvaluationFacts(x)'
    <3>1. \A t \in Templates : Unmoved(t)
      BY <2>1 DEF Unmoved, Over
    <3>. QED
      BY <2>1, <3>1, FactsStay DEF CalendarInv
  <2>4. ASSUME NEW t \in Templates PROVE HeldTemplates(t)' /\ TemplateFacts(t)'
    <3>1. TemplateFacts(t)'
      BY <2>1, TemplateStays DEF CalendarInv
    <3>2. HeldTemplates(t)'
      BY <2>1 DEF CalendarInv, HeldTemplates
    <3>. QED
      BY <3>1, <3>2
  <2>. QED
    BY <2>2, <2>3, <2>4 DEF CalendarInv
<1>2. CASE \E t \in Templates : CreateTemplate(t) \/ ChangeTemplate(t)
  BY <1>2, CreateTemplateKeeps, ChangeTemplateKeeps
<1>3. CASE \E t \in Templates, w \in Instants : JobEnds(t, w)
  BY <1>3, JobEndsKeeps
<1>4. ASSUME NEW e \in Evaluators, Begin(e) \/ Step(e) PROVE CalendarInv'
  BY <1>4, BeginKeeps, TakeTemplateKeeps, RetryPendingKeeps, CheckPriorKeeps,
     LookupAnsweredKeeps, SubmitKeeps, AcceptedKeeps, RefusedKeeps, AnswerLostKeeps, ScanKeeps,
     WriteCheckpointKeeps DEF Step
<1>. QED
  BY <1>1, <1>2, <1>3, <1>4 DEF CalendarNext

\* The invariant holds throughout.
LEMMA CalendarInvAlways == CalendarSpec => []CalendarInv
  BY CalendarInitInv, CalendarStepInv, PTL DEF CalendarSpec

\* Whatever evaluations and edits interleave, the records stay well formed, no
\* stamp is ahead of the trusted time, and a template is locked by the one
\* evaluation that holds it.
THEOREM CalendarTypeCorrect == CalendarSpec => []CalendarTypeOK
<1>1. CalendarInv => CalendarTypeOK
  BY DEF CalendarInv
<1>. QED
  BY <1>1, CalendarInvAlways, PTL

\* However submissions are lost, retried, refused or parked, and whichever
\* evaluations run at once, a template never has two unfinished jobs.
THEOREM NoTwoJobs == CalendarSpec => []NoOverlap
<1>1. CalendarInv => NoOverlap
  BY DEF CalendarInv, TemplateFacts, SoleLive, NoOverlap
<1>. QED
  BY <1>1, CalendarInvAlways, PTL

\* A SUBMITTED occurrence has its job, a SKIPPED or DUE one has none.
THEOREM OutcomesAreTrue == CalendarSpec => []OutcomeTrue
<1>1. CalendarInv => OutcomeTrue
  BY DEF CalendarInv, TemplateFacts, Truthful, OutcomeTrue
<1>. QED
  BY <1>1, CalendarInvAlways, PTL

-----------------------------------------------------------------------------
(* What a step writes: which occurrence, which job, which checkpoint.       *)

\* #process writes its own occurrence, which is open, and creates its job.
ProcessWrites(e, t, w) ==
  /\ InProcess(e, t, w) /\ UNCHANGED checkpoint
  /\ \A u \in Templates \ {t} : occ'[u] = occ[u] /\ job'[u] = job[u]
  /\ \A v \in Instants \ {w} : occ'[t][v] = occ[t][v]

\* The scan claims the latest window that is due, if all the others are settled.
ScanWrites(e, t) ==
  /\ Holds(e, t) /\ Scannable(t) /\ UNCHANGED <<checkpoint, job>>
  /\ \A u \in Templates \ {t} : occ'[u] = occ[u]
  /\ \A v \in Instants : v <= checkpoint[t] \/ time < v => occ'[t][v] = occ[t][v]

\* The end of an evaluation of a template moves its checkpoint to the instant that
\* was evaluated, and the windows before it have been seen to.
CheckpointWrites(e, t) ==
  /\ Holds(e, t) /\ templates[t].schedule \in Schedules /\ SeenTo(e)
  /\ UNCHANGED <<occ, job>>
  /\ checkpoint' = [checkpoint EXCEPT ![t] = Max({@, ev[e].now})]

\* What an update of an occurrence writes.
LEMMA SettingWrites ==
  ASSUME CalendarInv, NEW e \in Evaluators, NEW t \in Templates, Holds(e, t),
         NEW w \in Instants, NEW status, NEW n,
         UNCHANGED occ \/ SetOccurrence(e, w, status, n)
  PROVE  /\ \A u \in Templates \ {t} : occ'[u] = occ[u]
         /\ \A v \in Instants \ {w} : occ'[t][v] = occ[t][v]
  BY DEF SetOccurrence, CalendarInv, CalendarTypeOK, Holds

\* What a submission writes.
LEMMA CreatingWrites ==
  ASSUME CalendarInv, NEW e \in Evaluators, NEW t \in Templates, Holds(e, t),
         UNCHANGED job \/ CreateJob(e)
  PROVE  \A u \in Templates \ {t} : job'[u] = job[u]
  BY DEF CreateJob, CalendarInv, CalendarTypeOK, Holds

\* The steps of #process write their own occurrence only.
LEMMA ProcessSteps ==
  ASSUME CalendarInv, NEW e \in Evaluators,
         \/ CheckPrior(e) \/ LookupAnswered(e) \/ Submit(e)
         \/ Accepted(e) \/ Refused(e) \/ AnswerLost(e)
  PROVE  \E t \in Templates, w \in Instants : ProcessWrites(e, t, w)
<1>1. ev[e].pc \in Processing /\ UNCHANGED checkpoint
  BY DEF CheckPrior, LookupAnswered, Submit, Accepted, Refused, AnswerLost, At, Processing
<1>2. PICK t \in Templates, w \in Instants : InProcess(e, t, w)
  BY <1>1, ProcessHolds
<1>3. Holds(e, t) /\ w = ev[e].window
  BY <1>2 DEF InProcess
<1>4. UNCHANGED job \/ CreateJob(e)
  BY DEF CheckPrior, LookupAnswered, Submit, Accepted, Refused, AnswerLost
<1>5. UNCHANGED occ \/ \E status, n : SetOccurrence(e, w, status, n)
  <2>1. \A status, n, next :
          Update(e, status, n, next) => UNCHANGED occ \/ SetOccurrence(e, w, status, n)
    BY <1>3 DEF Update
  <2>2. \A status : Settle(e, status) =>
          UNCHANGED occ \/ \E s, n : SetOccurrence(e, w, s, n)
    BY <1>3 DEF Settle, Update
  <2>3. \A status : SettleInTry(e, status) =>
          UNCHANGED occ \/ \E s, n : SetOccurrence(e, w, s, n)
    BY <1>3 DEF SettleInTry
  <2>4. CASE CheckPrior(e) \/ LookupAnswered(e) \/ AnswerLost(e)
    BY <2>2, <2>4 DEF CheckPrior, LookupAnswered, AnswerLost, GiveUp
  <2>5. CASE Submit(e)
    <3>1. CASE Settle(e, "REVIEW_REQUIRED")
      BY <2>2, <3>1
    <3>2. CASE Update(e, "SUBMISSION_PENDING", Tries(e) + 1, [ev EXCEPT ![e].pc = "accept"])
      BY <1>3, <3>2 DEF Update
    <3>. QED
      BY <2>5, <3>1, <3>2 DEF Submit
  <2>6. CASE Accepted(e) \/ Refused(e)
    BY <2>3, <2>6 DEF Accepted, Refused
  <2>. QED
    BY <2>4, <2>5, <2>6
<1>6. PICK status, n : UNCHANGED occ \/ SetOccurrence(e, w, status, n)
  BY <1>5
<1>7. /\ \A u \in Templates \ {t} : occ'[u] = occ[u] /\ job'[u] = job[u]
      /\ \A v \in Instants \ {w} : occ'[t][v] = occ[t][v]
  BY <1>3, <1>4, <1>6, SettingWrites, CreatingWrites
<1>. QED
  BY <1>1, <1>2, <1>7 DEF ProcessWrites

\* The scan writes a window after the checkpoint and at or before now.
LEMMA ScanStep ==
  ASSUME CalendarInv, NEW e \in Evaluators, Scan(e)
  PROVE  \/ UNCHANGED <<occ, checkpoint, job>>
         \/ \E t \in Templates : ScanWrites(e, t)
<1>1. ev[e].pc = "scan" /\ UNCHANGED <<checkpoint, job>>
  BY DEF Scan, At
<1>2. PICK t \in Templates : Holds(e, t) /\ templates[t].schedule \in Schedules
  BY <1>1, HolderFacts DEF At
<1>3. PICK n \in Instants : n = ev[e].now /\ n <= time
  BY DEF CalendarInv, CalendarTypeOK, Evaluation
<1>4. PICK missed, latest :
        missed \in Nat /\ missed = Missed(t, n) /\ latest = LatestWindow(t, n)
  BY <1>2, LatestIsDue DEF CalendarInv
<1>5. ASSUME Scannable(t), missed # 0, NEW status, ClaimWindow(e, t, latest, status)
      PROVE  ScanWrites(e, t)
  <2>1. latest \in Instants /\ checkpoint[t] < latest /\ latest <= n
    BY <1>2, <1>4, <1>5, LatestIsDue DEF CalendarInv
  <2>2. UNCHANGED occ \/ SetOccurrence(e, latest, status, 0)
    BY <1>5 DEF ClaimWindow
  <2>3. /\ \A u \in Templates \ {t} : occ'[u] = occ[u]
        /\ \A v \in Instants \ {latest} : occ'[t][v] = occ[t][v]
    BY <1>2, <2>1, <2>2, SettingWrites
  <2>4. /\ latest \in Int /\ n \in Int /\ time \in Int /\ checkpoint[t] \in Int
        /\ \A v \in Instants : v \in Int
    BY <2>1, CalendarAssumption DEF Instants, Never, CalendarInv, CalendarTypeOK
  <2>5. ~(latest <= checkpoint[t] \/ time < latest)
    BY <1>3, <2>1, <2>4
  <2>. QED
    BY <1>1, <1>2, <1>5, <2>3, <2>5 DEF ScanWrites
<1>6. missed > ReviewAfter => missed # 0
  BY CalendarAssumption
<1>7. UNCHANGED occ \/ ScanWrites(e, t)
  BY <1>2, <1>3, <1>4, <1>5, <1>6 DEF Scan, Holds
<1>. QED
  BY <1>1, <1>7

\* Only the end of the scan moves the checkpoint.
LEMMA CheckpointStep ==
  ASSUME CalendarInv, NEW e \in Evaluators, WriteCheckpoint(e)
  PROVE  \E t \in Templates : CheckpointWrites(e, t)
<1>1. ev[e].pc = "checkpoint" /\ UNCHANGED <<occ, job>>
  BY DEF WriteCheckpoint, At
<1>2. PICK t \in Templates : Holds(e, t) /\ templates[t].schedule \in Schedules
  BY <1>1, HolderFacts DEF At
<1>3. SeenTo(e)
  BY <1>1 DEF CalendarInv, EvaluationFacts, ScanFacts
<1>4. checkpoint' = [checkpoint EXCEPT ![t] = Max({@, ev[e].now})]
  BY <1>2 DEF WriteCheckpoint, Advanced, Holds, CalendarInv, CalendarTypeOK
<1>. QED
  BY <1>1, <1>2, <1>3, <1>4 DEF CheckpointWrites

\* Every step, by what it writes.
LEMMA StepWrites ==
  ASSUME CalendarInv, [CalendarNext]_calendarVars
  PROVE  \/ /\ UNCHANGED <<occ, checkpoint>>
            /\ \A t \in Templates, w \in Instants : job[t][w] = "none" => job'[t][w] = "none"
         \/ \E e \in Evaluators, t \in Templates, w \in Instants : ProcessWrites(e, t, w)
         \/ \E e \in Evaluators, t \in Templates : ScanWrites(e, t) \/ CheckpointWrites(e, t)
<1>1. CASE UNCHANGED calendarVars
  BY <1>1 DEF calendarVars
<1>2. CASE \E t \in Templates : CreateTemplate(t) \/ ChangeTemplate(t)
  BY <1>2 DEF CreateTemplate, ChangeTemplate
<1>3. CASE \E t \in Templates, w \in Instants : JobEnds(t, w)
  BY <1>3 DEF JobEnds, CalendarInv, CalendarTypeOK
<1>4. ASSUME NEW e \in Evaluators, Begin(e) \/ TakeTemplate(e) \/ RetryPending(e)
      PROVE  UNCHANGED <<occ, checkpoint, job>>
  BY <1>4 DEF Begin, TakeTemplate, RetryPending
<1>. QED
  BY <1>1, <1>2, <1>3, <1>4, ProcessSteps, ScanStep, CheckpointStep DEF CalendarNext, Step

ParksNow ==
  \A t \in Templates : With(t, {"REVIEW_REQUIRED"}) # {} =>
    /\ occ'[t] = occ[t]
    /\ \A w \in Instants : job[t][w] = "none" => job'[t][w] = "none"

\* Every step respects ReviewParks.
LEMMA ParksStep ==
  ASSUME CalendarInv, [CalendarNext]_calendarVars PROVE ParksNow
<1> SUFFICES ASSUME NEW t \in Templates, With(t, {"REVIEW_REQUIRED"}) # {}
             PROVE  /\ occ'[t] = occ[t]
                    /\ \A w \in Instants : job[t][w] = "none" => job'[t][w] = "none"
  BY DEF ParksNow
<1>1. PICK r \in Instants : occ[t][r].status = "REVIEW_REQUIRED"
  BY DEF With
<1>2. ASSUME NEW e \in Evaluators, NEW u \in Templates, NEW w \in Instants,
             ProcessWrites(e, u, w)
      PROVE  occ'[t] = occ[t] /\ job'[t] = job[t]
  <2>1. occ[u][w].status \in OpenStatuses
    BY <1>2 DEF ProcessWrites, InProcess
  <2>2. u # t
    BY <1>1, <2>1 DEF CalendarInv, TemplateFacts, OneUnsettled, Unsettled, OpenStatuses
  <2>. QED
    BY <1>2, <2>2 DEF ProcessWrites
<1>3. ASSUME NEW e \in Evaluators, NEW u \in Templates, ScanWrites(e, u)
      PROVE  occ'[t] = occ[t] /\ job'[t] = job[t]
  <2>1. u # t
    BY <1>1, <1>3 DEF ScanWrites, Scannable, With
  <2>. QED
    BY <1>3, <2>1 DEF ScanWrites
<1>. QED
  BY <1>2, <1>3, StepWrites DEF CheckpointWrites

\* Once an occurrence of a template waits for review, no evaluation claims or
\* changes an occurrence of it any more, or creates a job.
THEOREM ReviewIsFinal == CalendarSpec => ReviewParks
<1>1. CalendarInv /\ [CalendarNext]_calendarVars => [ParksNow]_calendarVars
  BY ParksStep
<1>2. CalendarSpec => [][ParksNow]_calendarVars
  BY <1>1, CalendarInvAlways, PTL DEF CalendarSpec
<1>. QED
  BY <1>2 DEF ReviewParks, ParksNow

TakenNow ==
  \A t \in Templates :
    /\ checkpoint'[t] >= checkpoint[t]
    /\ \A w \in Instants :
         occ[t][w].status = "none" /\ occ'[t][w].status # "none"
         => checkpoint[t] < w /\ w <= time
    /\ LET due == WindowsIn(templates[t].schedule, checkpoint[t], checkpoint'[t]) IN
         checkpoint'[t] # checkpoint[t] /\ due # {} =>
           \/ occ[t][Max(due)].status # "none"
           \/ Cardinality(due) > 1 /\ templates[t].policy = "SKIP"

\* A checkpoint moves forward over windows that were seen to.
LEMMA CheckpointTakes ==
  ASSUME CalendarInv, NEW e \in Evaluators, NEW t \in Templates, CheckpointWrites(e, t),
         NEW due, due = WindowsIn(templates[t].schedule, checkpoint[t], checkpoint'[t])
  PROVE  /\ checkpoint'[t] >= checkpoint[t]
         /\ checkpoint'[t] # checkpoint[t] /\ due # {} =>
              \/ occ[t][Max(due)].status # "none"
              \/ Cardinality(due) > 1 /\ templates[t].policy = "SKIP"
<1>1. PICK n \in Instants, c \in Int, s \in Schedules :
        n = ev[e].now /\ c = checkpoint[t] /\ s = templates[t].schedule
  BY CalendarAssumption
     DEF CheckpointWrites, CalendarInv, CalendarTypeOK, Evaluation, Instants, Never
<1>2. n \in Int
  BY CalendarAssumption DEF Instants
<1>3. checkpoint'[t] = Max({c, n})
  BY <1>1 DEF CheckpointWrites, CalendarInv, CalendarTypeOK
<1>4. checkpoint'[t] = IF c >= n THEN c ELSE n
  BY <1>2, <1>3, LargerOfTwo
<1>5. ASSUME checkpoint'[t] # c, due # {}
      PROVE  \/ occ[t][Max(due)].status # "none"
             \/ Cardinality(due) > 1 /\ templates[t].policy = "SKIP"
  <2>1. due = WindowsIn(s, checkpoint[t], n)
    BY <1>1, <1>4, <1>5
  <2>2. CalendarTypeOK /\ s = templates[t].schedule /\ due # {}
    BY <1>1, <1>5 DEF CalendarInv
  <2>3. /\ Missed(t, n) # 0 /\ Max(due) = LatestWindow(t, n)
        /\ Missed(t, n) > 1 => Cardinality(due) > 1
    BY <2>1, <2>2, LatestOfDue
  <2>4. \/ Missed(t, n) = 0
        \/ occ[t][LatestWindow(t, n)].status # "none"
        \/ Missed(t, n) > 1 /\ templates[t].policy = "SKIP"
    BY <1>1 DEF CheckpointWrites, SeenTo, Holds
  <2>. QED
    BY <2>3, <2>4
<1>. QED
  BY <1>1, <1>2, <1>4, <1>5

\* Every step respects WindowsTakenOnce.
LEMMA TakenStep ==
  ASSUME CalendarInv, [CalendarNext]_calendarVars PROVE TakenNow
<1> SUFFICES ASSUME NEW t \in Templates
             PROVE  /\ checkpoint'[t] >= checkpoint[t]
                    /\ \A w \in Instants :
                         occ[t][w].status = "none" /\ occ'[t][w].status # "none"
                         => checkpoint[t] < w /\ w <= time
                    /\ LET due == WindowsIn(templates[t].schedule, checkpoint[t], checkpoint'[t])
                       IN checkpoint'[t] # checkpoint[t] /\ due # {} =>
                            \/ occ[t][Max(due)].status # "none"
                            \/ Cardinality(due) > 1 /\ templates[t].policy = "SKIP"
  BY DEF TakenNow
<1>1. /\ checkpoint[t] \in Int /\ time \in Int /\ \A w \in Instants : w \in Int
  BY CalendarAssumption DEF CalendarInv, CalendarTypeOK, Instants, Never
<1>2. CASE UNCHANGED <<occ, checkpoint>>
  BY <1>1, <1>2
<1>3. ASSUME NEW e \in Evaluators, NEW u \in Templates, NEW w \in Instants,
             ProcessWrites(e, u, w)
      PROVE  /\ checkpoint'[t] = checkpoint[t]
             /\ \A v \in Instants :
                  occ[t][v].status = "none" => occ'[t][v].status = "none"
  <2>1. occ[u][w].status # "none"
    BY <1>3 DEF ProcessWrites, InProcess, OpenStatuses
  <2>. QED
    BY <1>3, <2>1 DEF ProcessWrites
<1>4. ASSUME NEW e \in Evaluators, NEW u \in Templates, ScanWrites(e, u)
      PROVE  /\ checkpoint'[t] = checkpoint[t]
             /\ \A w \in Instants : (checkpoint[t] < w /\ w <= time) \/ occ'[t][w] = occ[t][w]
  <2>1. checkpoint'[t] = checkpoint[t]
    BY <1>4 DEF ScanWrites
  <2>2. \A w \in Instants : w <= checkpoint[t] \/ time < w => occ'[t][w] = occ[t][w]
    BY <1>4 DEF ScanWrites
  <2>. QED
    BY <1>1, <2>1, <2>2
<1>5. ASSUME NEW e \in Evaluators, NEW u \in Templates, CheckpointWrites(e, u)
      PROVE  occ' = occ /\ (u # t => checkpoint'[t] = checkpoint[t])
  BY <1>5 DEF CheckpointWrites, CalendarInv, CalendarTypeOK
<1>. QED
  BY <1>1, <1>2, <1>3, <1>4, <1>5, StepWrites, CheckpointTakes

\* The checkpoint of a template only moves forward, a window is only claimed
\* after it, and no window that became due is passed over.
THEOREM EveryWindowOnce == CalendarSpec => WindowsTakenOnce
<1>1. CalendarInv /\ [CalendarNext]_calendarVars => [TakenNow]_calendarVars
  BY TakenStep
<1>2. CalendarSpec => [][TakenNow]_calendarVars
  BY <1>1, CalendarInvAlways, PTL DEF CalendarSpec
<1>. QED
  BY <1>2 DEF WindowsTakenOnce, TakenNow
=============================================================================
