# Pixel HQ: TLA+ models and proofs

This directory specifies the stateful core of Pixel HQ in TLA+: what its
services keep, what each of their operations does, and what must hold whatever
the order of calls, the jumps of the clock and the failures of adapters. TLC
checks the models on small instances; TLAPS proves the properties that matter
most for every value of the constants. `PROJECT.json` lists components, runs,
mutants, findings, hazards and theorems, and maps every definition to the
source lines it stands for.

    tlc -workers 2 -config relay_store.cfg MCRelayStore.tla     # a run
    tlapm RelayStoreProofs.tla                                  # a proof module

Paths below are relative to the repository root (`src/` in `PROJECT.json`).

## 1. The system

Pixel HQ is a set of JavaScript services in one process. They call each other
directly; everything outside (stores, providers, workers, models) is an adapter
handed in when a service is built. There is no shared memory other than the
stores, and no real parallelism: one continuation runs at a time. What
interleaves are *calls*: each `await` lets any other call in progress run, and
the adapter contracts (`packages/adapter-sdk`) let every adapter call return a
Promise, so every call of an adapter is a point where others may run.

| component | state it keeps | operations that change it |
| --- | --- | --- |
| Job store (`adapters/simulator/src/relay-store-simulator-adapter.js`, `packages/contracts/src/job-v1.js`) | `#jobs`: state, revision, claims, decision, result; the namespace index | claimOrReturnExisting, applyTransition, recordGatewayDecision, claimWorkerInvocation, claimModelContextPreparation, releaseModelContextPreparation, claimModelInvocation, commitTerminalResult |
| Relay (`services/relay`) | `#activeReservations` (by job) | accept, execute, executeModelSummary |
| Tool Gateway (`services/tool-gateway`) | none | execute |
| Model Gateway (`services/model-gateway`) | none | invoke: refuse, or call the adapter of the route and judge its answer |
| Scheduler (`services/scheduler`) | `#traces` (issued evaluations), a trusted clock | evaluate, reserve, release, confirmExecutionStart |
| Scheduler store (`adapters/simulator/src/scheduler-store-simulator-adapter.js`) | `#reservations` | reserve, transition, current |
| Trusted clock (`packages/contracts/src/trusted-time-v1.js`) | the latest time reported | every reading |
| Memory (`services/memory`) | `#approvedPackages`, the record store | intake, buildContext, releaseApprovedPackage, boundRetention |
| Organizational State (`services/organizational-state`) | approvals, delegations, holds, duties, capacities and the company state, each under a revision | create, decide, grant, revoke, release, setDuty, setCapacity, setCompanyState; evaluateExecutionInputs reads |
| Incident (`services/incident`) | incidents by phase and revision, operation log | create, acknowledge, advancePhase, transferCommand, resolve, close, postIncidentReview; reconciliation of ambiguous commits |
| Calendar (`services/calendar`) | templates, occurrences, locks, checkpoints; events and company hours; a trusted time | createTemplate, updateTemplate, evaluateDueOccurrences; createEvent, changeEvent, setCompanyHours |
| Workforce and AgentOps (`services/workforce`) | agents' records, qualifications, evidence, attributions, evaluations, history of revisions, operation log | create and change of each, evaluateAgentOps; reconciliation of ambiguous commits |
| Policy, Access Gate, HTTP boundaries, device state, evidence, registry, Mission Control | none that the others share | pure decisions, parsing, projection, rendering |

### How they interact

A client submits an intent to Relay (`accept`), which claims an idempotency
namespace in the job store and moves the job to ACCEPTED. `execute` (a tool) or
`executeModelSummary` (a model) then runs it:

    evaluate -> reserve        Scheduler, stage 1: an evaluation, then a lease
    [claim context, build it]  model only: job store and Memory
    confirmExecutionStart      Scheduler, stage 2: everything checked again
    applyTransition RUNNING    job store: the one attempt that may go on
    record decision, claim     job store, by the Tool or the Model Gateway
    worker / model             the effect
    commitTerminalResult       job store: result and state in one step
    release                    reservation and approved packages

Every arrow is an await. Several attempts at one job, by several clients and of
both kinds, may be under way at once. The Calendar submits jobs through
`accept` with an idempotency key per occurrence. Organizational State supplies
the facts the Scheduler decides on: it reads its own records and, through
injected seams, the open incidents (Incident), the planned operating state
(Calendar) and the standing of the agent (Workforce), and reduces them to the
bounded inputs of `#decide`.

### What is hard, and what correct means

* **Exactly one effect.** Relay holds no lock over an attempt. That a worker or
  a model runs at most once for a job rests on guards in separate store calls.
* **Two-stage admission.** What stage 1 assessed may be stale at stage 2; stage
  2 itself captures facts before an await and decides after it.
* **Leases that expire lazily**, by a clock that may be set back.
* **Giving back.** Each of about a dozen ways out of an attempt has to undo
  what was taken up to there: the reservation, the context claim, the package.
* **Retries with unknown outcome**: resubmission (Relay), occurrences
  (Calendar), ambiguous commits (Incident, Workforce).
* **Revision guards**: every record written under the revision it was read at,
  by services of which several instances may share one store.
* **Facts of many origins reduced to one answer.** Stored state, incidents,
  closures, holds, approvals and seams that fail each come and go on their own;
  none of them may be lost in the reduction.
* **Judgement of untrusted answers.** Relay and the Model Gateway each decide
  whether a model's answer is a result, from code written twice.

Nothing is persisted by the code in this repository, so no crash or restart is
modelled. `PROJECT.json` lists each hazard at its line together with the
properties that would catch it going wrong.

## 2. The modules

| module | models | composes |
| --- | --- | --- |
| `JobLifecycle` | the abstract promise about a job | - |
| `RelayStore` | the job store, under any client | refines `JobLifecycle` |
| `Scheduler` | Scheduler, its store and its trusted clock, under any caller | - |
| `Memory` | which listed records enter a context package | - |
| `ModelGateway` | what invoke refuses, and how it judges the adapter | - |
| `Relay` | execute and executeModelSummary with everything they call | extends `RelayStore`, `Memory` and `ModelGateway`, instantiates `Scheduler` |
| `Calendar` | recurring templates, their occurrences and `evaluateDueOccurrences`, over the jobs of Relay | - |
| `CompanyCalendar` | events, company hours and the operating state derived from them | - |
| `OrgState` | every write of Organizational State, `evaluateExecutionInputs` and the Scheduler's `#decide` | extends `CompanyCalendar` |
| `OperationLog` | the abstract promise of an idempotent commit | - |
| `Incident` | incidents and their commits | refines `OperationLog` |
| `Workforce` | agents, qualifications, evidence, attribution, evaluation and their commits | refines `OperationLog` |
| `RelayStoreProofs`, `SchedulerProofs`, `CalendarProofs`, `IncidentProofs`, `WorkforceProofs`, `OrgStateProofs` | theorems | extend the modules they are about |
| `RelayProofs`, `RelayClaimsProofs` | theorems about Relay: what it inherits from the store and the Scheduler, then what its attempts hold | extend `Relay` and `RelayStoreProofs`, instantiate `SchedulerProofs` |
| `MC...` | values of the constants and symmetries for TLC | extend the modules they run |

### Conventions

* **One step is one synchronous block.** An `await` ends a step. A call to an
  adapter takes effect when it is made; its answer is acted on in the next step
  of the caller. The code from one await to the next is one action, including
  everything it calls.
* **Store calls** are two operators, `XxxOk` (accepted) and `XxxDo` (the
  change). A call that is not accepted changes nothing. `StoreSpec` makes any
  call in any order; `Relay` uses the same operators from the callers that
  exist. The proofs about `StoreSpec` therefore do not depend on Relay being right.
  A client of the store may also end a running job by `applyTransition`, with no
  result and no effect. Relay never does; `AnsweredSpec` is the store under
  clients that do not, and what needs this is stated of `AnsweredSpec` only.
* **One identity for what is created together.** An attempt creates at most one
  evaluation, reservation, execution, invocation and package, under fresh ids;
  in `Relay` the attempt's id stands for them all. In `Scheduler` evaluations and
  reservations are separate sets, and callers may combine them wrongly.
* **Time.** `last` is the latest time a trusted clock reported. An action that
  reads it takes the trusted time of *any* wall clock value, so the clock may
  jump both ways. One reading stands for the readings of a synchronous block;
  `release` reads several times, and the last one decides. Relay's Scheduler is
  the only clock the runs of Relay depend on.
* **Faults** are choices where the code handles them: a call that throws, a store
  that rejects, a provider that denies. `Faults` says which of them a run allows.
* **What #decide says** is a Boolean choice per call in `Scheduler` and `Relay`:
  WAIT, HOLD and DENY all end an attempt the same way, and the facts may change
  between any two calls. `OrgState` has the decision itself, over the facts.
* **Instances.** Organizational State, Incident and Workforce are injected with
  their store. One instance alone runs each operation in one synchronous
  stretch; the models let several instances share a store and make each put (and
  each read-back of an ambiguous put) a step, because an answer like AMBIGUOUS
  only makes sense of a store that is remote.
* **Requests that are refused** before anything is written change nothing and are
  no step, unless a property is about what they are told (Workforce).
* **Environments and authority references.** Every request is of the one
  environment that the service runs in, and names an authority that the record
  may have: the checks of `#decide` and of Organizational State's writes that only
  refuse other ones are left out. The models permit what passes them, and more.

### State and code

`RelayStore.jobs[j]` is an entry of `#jobs` with the fields guards read:
`currentState`, `revision`, `executionId`, `executionRequest`,
`gatewayDecision`, `invocationClaimed`, `modelContextClaimed`,
`modelInvocation`, `result`, the idempotency `namespace` and `fingerprint`.
`Scheduler.traces[e]` is an entry of `#traces` (evicted ones are marked so that
the history can be talked about), `rsv[r]` an entry of `#reservations`,
`starts[c]` the local variables of a `confirmExecutionStart` in progress, and
`last` the clock. In `Relay`, `at[a]` is the program counter and the locals of
one call of execute or executeModelSummary, `tracked` is `#activeReservations`,
`packages` is what Memory retains. The program points are:

| points | code in `relay-service.js` |
| --- | --- |
| evaluate, reserve | `#schedulerAdmit` |
| prepare, build, listing, abandon | executeModelSummary up to the confirmation, `buildContext` |
| fresh, confirm, confirming, refused | `#schedulerConfirm` |
| cleanup, cleanupAll | `#releaseModelAttempt` after its await |
| start, lost | the transition to RUNNING, won or lost |
| authorize, recorded, working | `ToolGateway.execute`, `#commitTerminal` |
| claim, unclaimed, invoke, working | the model invocation: `ModelGateway.invoke` up to the adapter's answer |
| answered, invalid | what Relay makes of the outcome |
| committed, uncommitted | after `commitTerminalResult` |

`InvokeStep` merges the job read and the package read of `ModelGateway.invoke`:
the package is only released together with the job becoming terminal or by a
cleanup at the same job, and both reads lead to the same answer.

`at[a].context` are the items of the package the attempt built: what
`ContextItems` of `Memory` selects from a listing of the memory store that is
not trusted to keep to the department or the environment. `OutcomeMatches` is
Relay's own check of what the Gateway answered; under the fault "outcome" the
Gateway answers anything, otherwise it answers what `ModelGateway` says.

In `Calendar`, `time` is the store's high water mark, `templates`, `occ` and
`checkpoint` are its records, `lock` is `#locks`, `job[t][w]` the Relay job
created under the key of an occurrence, and `ev[e]` the program counter and the
locals of one call of `evaluateDueOccurrences`:

| points | code in `calendar-service.js` |
| --- | --- |
| next | the loop over the templates that were ACTIVE when listed |
| retry | the loop over the open occurrences of the template |
| priors, lookup | `#process`: the predecessors, and the answer of `getJob` |
| accept | `#process`: the answer of `accept` |
| scan, checkpoint | the scan for due windows, and the write of the checkpoint |

Here the stretches between awaits are cut into several steps. That is exact:
what an evaluation reads and writes after it took a template is protected by the
template's lock (edits of a locked template are refused by the store, and only
the holder of the lock updates an occurrence), and the jobs it looks at only go
from none to live to ended. A `getJob` that answers something that is not the
job of the occurrence, or throws, is the fault "lookup"; `accept` without a
usable answer is "lost". The evidence append may throw after the store was
changed: inside the `try` around `accept` this is taken for an unknown outcome,
elsewhere it ends the evaluation through the `finally` that gives the lock back.

In `CompanyCalendar`, `events` and `hours` are the records, `calendarTime` the
store's high water mark. In `OrgState`, `store[id]` is the current record of an
id, `calls[s]` the write that an instance has prepared and not yet put,
`clock[s]` its trusted clock, `incident`, `workforce` and `down` the facts of
the other services and the seams that fail. `lapsed` is a history variable.
`Checks` lists the checks of `#decide` in their order with the reason each
names; the first that fails decides.

In `Incident`, `incidents` is `#incidents` and `ops` is `#operations`, in which
one operation id may have an entry for each of several incidents; in
`Workforce`, `store`, `history` and `ops` are `#records`, `#history` and
`#operations`, and `calls[s].request` stands for the fingerprint of the request.
In both, `calls[s]` is one operation in progress:

| points | code in `#commit` |
| --- | --- |
| asked (Workforce) | before `#replayOperation` |
| attempt | the first put |
| readback, recheck | the answer was AMBIGUOUS: `readOperation`, then `revisionUnchanged` |
| retry, reread | the same put again, and the second read-back |
| recorded, refused, unknown | the caller was told RECORDED, REJECTED, or RECONCILIATION_REQUIRED |

The refinement mappings give `OperationLog` the entries of the operation log as
`log`, and as `call` how far a call is, the key and the value it asked for, and
whether it wrote. The value is the record (Incident) or the request, which the
fingerprint stands for (Workforce). `attempt` is "asked", and the points after an
AMBIGUOUS answer are "doubtful". `LogSpec` says RECORDED only of the value asked
for, with one gap: a call in doubt under a key that others use as well may find
another's value. `NeverDeceived` is the promise without the gap; the services'
`ConflictRejects` states it, and the code does not keep it (finding 4).

An operation id that is fresh is represented by the service instance that uses
it, and is forgotten when its call has returned: nobody can ask for it again.

## 3. The runs

Every run is exhaustive for its constants. `CHECK_DEADLOCK FALSE` stands where
the system really stops: every job is terminal and the attempts, ids, revisions
or instants of the instance are used up.

| run | instance | distinct states | what it shows |
| --- | --- | --- | --- |
| `relay_store` | 2 jobs, 3 executions, 2 namespaces, 2 fingerprints, revisions up to 6 | 33 thousand | Whatever calls are made in whatever order, the store keeps results true, one effect per job, one job per namespace, terminal records untouched, revisions as version stamps; it implements `JobLifecycle`. |
| `scheduler` | 2 jobs, 2 resources, 2 evaluations, 2 reservations, 1 confirmation in progress, lease 2, time 4 | 888 thousand | Exclusive resources, use of an evaluation once, retention of issuances, and what a confirmed start rests on, under callers that combine ids wrongly and a clock that jumps. |
| `relay_faults` | 1 job of either content, 3 attempts of both kinds, 3 memory listings, all faults, any outcome of the Gateway, lease 1 | 1.7 million | Tool and model attempts race for one job and its leases end under them: one effect, no tool attempt gives back what another works under, packages are given back, and a summary completes a job only when it was earned. |
| `relay_capacity` | 2 jobs that need one resource, 2 attempts of both kinds, lease 1, starts and grants refused at will, fairness | 207 thousand | Two workers never run on one resource within the lease; when no lease ended, capacity returns; a refused start can be retried; a started job ends, unless the two kinds of attempt tore it apart. |
| `calendar` | 1 template, 2 evaluations, instants 0 to 2, 2 schedules, 2 revisions, 2 attempts, all faults, fairness | 742 thousand | No overlap, no window lost or run twice, review parks a template, occurrences do not stay open. |
| `incident` | 2 services, 2 incidents (one already reported), one shared operation id, 7 revisions, 1 transfer, 1 piece of evidence | 726 thousand | Commits with ambiguous answers are kept as `OperationLog` promises; records build on the latest; only what was recovered is closed. |
| `org_state` | 2 services, one record of each kind and two of capacity, 1 incident, 1 event, 2 ids and 2 weeks of company hours, 3 writes or changes of facts, time 1 | 879 thousand | Whatever is written, closed, broken or set back: what is found eligible is forbidden by nothing in force, nothing that lapsed comes back, and writes build on the latest record. |
| `workforce` | 2 services, 3 calls, one shared operation id, 2 agents, 2 qualifications, 2 pieces of evidence, 1 attribution, 1 evaluation, time 1 | 1.2 million | Commits with ambiguous answers and replays are kept as `OperationLog` promises; the history has no gap; nobody is blamed on its own word. |
| `scheduler_stale_grant`, `relay_wedge`, `relay_leak`, `incident_reuse` | as small as shows it | - | The four findings of section 6. |

Why these bounds are enough for the cases that matter:

* Two jobs are needed for resources and namespaces to be contended; three
  executions or attempts let one win, one lose and one come late. A third job
  adds no new relation: every guard speaks of one job, or of one job and the
  owner of its resource.
* Six revisions let a job take its longest path (claim the context, release it,
  claim it again, run, decide or invoke, end).
* Lease 2 and time 4 let a lease be taken, end, be taken again and end again,
  and let an issuance become two leases old, where eviction happens. In `Relay`
  lease 1 and time 1 let a lease end once at any point of an attempt.
* The Calendar's three instants give windows that are missed one at a time, by
  two, and by more than `ReviewAfter`; two revisions change the schedule once
  between evaluations; two attempts give a retry and the last one. The safety
  properties were also checked once with four instants (10.2 million states).

* The listings of `relay_faults` are one with nothing to use, one that makes a
  context within the input budget and one that makes a context beyond it, and
  hold records of another department, another environment and another lifecycle;
  the outcomes are the best one, the best one with each of its parts wrong, and
  every failure with each combination of route and placement.
* Seven revisions take an incident through its whole life (declared, contained,
  recovering, verified, resolved, closed, reviewed), with a transfer or an
  acknowledgement in place of a step at any point. A call may fall `MaxLag`
  revisions behind; one is enough, as the store refuses every stale revision
  alike.
* Two instances and one shared operation id let an id be reused for the same
  request, for another request, for another record, and while its first use is
  still ambiguous. Three calls of Workforce are evidence, attribution and
  evaluation, or two racing changes and a repetition. `MaxTransitions` is 1, so
  that the embedded history is cut; `MaxWindow` is 2, so that the window is full.
* Three changes of `OrgState` are, for example, an approval created, decided and
  a hold placed while either is on its way; every fact of another service counts
  as a change too. `MaxCauses` is 1, so that causes are cut.

Symmetry: of keys that are compared only (`relay_store`, attempts in
`relay_faults`, service instances in `incident`, `org_state` and
`workforce`); never in a run with a liveness property.

Each property has in `PROJECT.json` a mutant, a plausible bug in one definition
of the model (the operators commented "Mutant of" in the modules), with which
TLC finds the property violated.

## 4. Fairness

* `FairRelaySpec`: weak fairness of every step of an attempt in progress. An
  attempt waits for nothing but promises; JavaScript resumes it when they are
  settled, and the adapters are assumed to settle every promise, by an answer or
  by an exception. Nothing makes a client submit or retry anything.
* `FairCalendarSpec`: the same for the steps of an evaluation, and weak fairness
  of `Begin`: evaluations keep being asked for. The service has no timer, so
  this is an assumption about its host; without it a pending occurrence waits
  for ever. Nothing makes a job of Relay end, and nothing makes time go on.

Under fairness `RunsFinish` says that a job that runs becomes terminal or is
`Torn`, in runs without commit faults (the code leaves a job RUNNING when the store
rejects its terminal commit). A torn job was started by a tool attempt while a
model attempt held its context claim: the store then accepts no decision for it
and gives the claim back for ACCEPTED jobs only, so it stays RUNNING. In
this run it takes a lease that ends between the claim and the start of the other
attempt; finding 1 leads there as well.
`OccurrencesSettle` says that again and again no occurrence of an active template
is open.

## 5. The proofs

The theorems are checked by TLAPS for any number of jobs, attempts, resources,
templates, agents, incidents, service instances and ids, any leases and limits,
any of the faults, and any course of the clocks. The bounds of the models
(`MaxRevision`, `MaxTime`, `MaxLag`, `MaxChanges`, `MaxAsked`, ...) are
arbitrary constants in them. `PROJECT.json` lists the theorems; each
inductive invariant was checked by TLC on the runs before it was proved.

**Job store** (`RelayStoreProofs`). The inductive invariant is `StoreInv`:
`StoreTypeOK`, `ExecutionInv` and `NamespaceOwned`. `ExecutionInv` has four
parts, of which the last two are checked by the run: `Untouched` (a job that has
not run yet has no decision, no model invocation and no execution; one that has
run has an execution), `DecisionOfExecution` (a decision was made on the request
of the execution that runs), `EffectExclusive` and `TerminalTruth`. The latter
two are not inductive alone: that an invocation belongs to the execution of the
job needs `Untouched` when the job starts to run, and that a claimed worker
belongs to it needs `DecisionOfExecution`, because the claim compares its caller
with the request of the decision only. `LifecycleStep` shows that every step
maps to a step of `JobLifecycle` or a stutter, which with the initial states
gives `StoreImplementsLifecycle`; a bare terminal transition maps to `Close`
(`FinishCloses`). Without such transitions every terminal job has its result
(`Answered`), and the same lemma gives `AnsweredStoreImplementsLifecycle`, in which a
COMPLETED job had its effect.

**Scheduler** (`SchedulerProofs`). `SchedInv` adds to `SchedTypeOK`,
`OneOwnerPerResource` and `IssuanceBacksOne` what ties the three kinds of
records together: `Issued` (only issued evaluations carry data), `Backed` (a
reservation was made from a used, eligible issuance for the same job and
resource, and its lease ends at most two leases after the issue), `Forgotten` (a
used issuance is held, or was evicted more than two leases after its issue, so
that no live reservation rests on it) and `Captured` (the reservation a
confirmation in progress has read still has the owner, resource, lease and
issuance it had). Every step is quiet, issues an evaluation, or makes a
reservation; only the last needs the argument about owners.

**Relay** (`RelayProofs`). Every step of Relay is a call that the store and the
Scheduler accept from any client: `RelayIsStoreClient` and
`RelayIsSchedulerClient` say that `RelaySpec` implements `AnsweredSpec` and
`SchedSpec`, so what was proved of those holds under Relay
(`RelayImplementsLifecycle`, `RelayAnswersJobs`, `RelayKeepsTerminal`,
`RelayStartsTraceable`). That
a fresh execution id is fresh is the one obligation Relay has towards the
store, and needs `RelayInv`: an attempt past the transition to RUNNING is the
execution its job has on record, nobody else ever is (`OwnExecution`), and what
is claimed for that execution is claimed for that attempt (`Invoked`).
`SingleEffect` follows.

**What attempts hold** (`RelayClaimsProofs`). Packages and tracked reservations
are released for a *job*, by whichever attempt gets there; so the invariants are
about pairs of attempts.

* `PackageInv`: a context claim has one holder, whoever starts a job on the
  model path is that holder, and a package is kept only under a claim. The job of
  a package is completed by the holder, which releases the packages of the job:
  `PackagesAreReleased`.
* `TrackInv`: who loses the race for a job tracks its own reservation in place of
  the winner's, so a loser never releases what the running attempt holds. It
  gives `WorkKeepsItsReservation` and, with the Scheduler's one owner per
  resource, `WorkIsExclusive`. Both properties speak of states up to which only
  tool attempts were made (`ToolsOnly`, a condition on the state). A refused model
  attempt releases what is tracked for its job without having tried to start it,
  and they are then false.
* `ClaimsAreHeld`: a context claim on a job that has not started has an attempt
  that goes on with it. `RejectedStartsAreRetriable` follows. Hypothesis:
  `buildContext` yields packages (no fault "memory"; finding 1 is what happens
  otherwise). Every other fault is allowed, which is more than the run
  `relay_capacity` has.
* `CapacityInv`: who reserved owns the resource until the start and is tracked
  afterwards; only one attempt at a job can be past the reservation, so what is
  tracked is what the last start holds. `CapacityIsReturned` follows. Hypothesis
  `Steady`: no lease can end, and packages, claims and terminal commits do not
  fail (findings 1 to 3, and a claim of the store that is refused returns without
  releasing). Throwing gateways, refused confirmations, denials and untrusted
  outcomes are allowed.
* `SummaryInv`: the package of an attempt is what `buildContext` made for its job
  and stays so, and whoever Relay let complete a job passed, on that package, the
  decisions it takes again. `HonestAnswersMatch` is the other direction, for any
  invocation, routes and adapters. `SummaryIsEarned` has one hypothesis,
  `ContextsFit`: a package has at most `MaxItems` records in scope within
  `MaxChars`. `ContextItems` computes that by folding over a sorted listing; what
  a fold computes is induction over data and out of reach here. TLC evaluates
  `ContextsFit` for the constants of every run of `MCRelay`.

**Calendar** (`CalendarProofs`). `CalendarInv` says that a template has at most
one occurrence that is not settled, that only the holder of its lock moves it
on, and, for each point of an evaluation, what it has established: all
predecessors' jobs are over when it is about to submit (`ProcessFacts`), and
every due window before the one it scans has been seen to (`ScanFacts`). A job
that is over stays over, and no other occurrence of the template can be
submitted while the lock is held, so what was established before an await is
still true after it; this gives `NoTwoJobs`. `EveryWindowOnce` needs the lemmas
on schedules: an instant lies between two windows by floor division, for any
anchor and interval.

**Incident and Workforce** (`IncidentProofs`, `WorkforceProofs`). In both, a
call in progress holds the record it made, and if the stored record is still at
the revision before it, it is the one the new record was made from
(`MadeFromLatest`, `Revises`). So what was checked when the record was made
holds when it is written: a lawful move of an incident (`ClosedAreRecovered`,
`ChangesBuildOnLatest`), a status that may follow the last one, evidence that is
there (`HistoryIsUnbroken`, `BlameHasGrounds`). The embedded history of an agent
is the end of the full one for any limit. `IncidentsKeepCommits` and
`WorkforceKeepsCommits` map each step to a step of `OperationLog` or a stutter:
a call that wrote has its own entry in the log until it returns, however often it
has to look, so what it finds is what it wrote. Under a fresh id nothing else can
be found: only the instance that has the id writes under it, and no call of
another one starts before it has returned (`OwnEntries` in `IncidentInv`, a part of
`CallOK` in Workforce). What is left is an id that callers share and a call in
doubt, the gap of `LogSpec`.

**Organizational State** (`OrgStateProofs`). In `OrgInv`, a write on its way
was made from the record that is there or from an older revision; in the first
case it follows it and in the second the store refuses it (`WritesFollow`).
What an instance saw lapse is not newer than its trusted clock
(`LapsedIsFinal`). `EligibilityIsSafe` goes through the ways in which a job may be
forbidden and finds for each the check of `#decide` that fails; the lemmas on the
worst of a set of company states carry it through the reduction of incidents,
the planned state and the stored one.

What the proofs assume of the constants are the named assumptions of the
modules, which TLC evaluates on the values of every run. Those that carry weight:
ids that stand for null are no ids; a lease is positive and a requirement names
one resource; kinds of records have disjoint ids; routes have a placement, and
what adapters and other services report has passed its validator
(`ModelGatewayAssumption`, `FactsAssumption`, `ReportsAssumption`,
`RequestsAssumption`). In Relay the store's bound on revisions is off
(`MaxRevision` is 0), as attempts bound them already.

Only model-checked, for good: `RunsFinish` and `OccurrencesSettle`, since liveness
under fairness and ENABLED are out of this prover's reach; and what the folds of
`Memory` compute (`ContextsFit`), as is every induction over data. The four
findings are counterexamples and need no proof.

## 6. What was found

1. `relay_wedge`: a model attempt whose `buildContext` fails keeps the context
   claim (`relay-service.js:845`), after which the job can never finish.
2. `relay_leak`: a tool attempt whose terminal commit is rejected returns without
   giving its reservation back (`relay-service.js:644`).
3. `scheduler_stale_grant`: `confirmExecutionStart` compares the lease with the
   time before its await and confirms a start on a lease that has ended
   (`scheduler-service.js:586`).
4. `incident_reuse`: after an AMBIGUOUS put, Incident's `#commit` reads the operation
   id back and compares only the incident (`incident-service.js:187` and `201`). When
   the id had recorded another change of the incident, the caller is told RECORDED of
   a change that was never written, although "conflicting reuse of an operation ID
   rejects" and "ambiguity never infers success" (`incident-store-simulator-adapter.js`,
   lines 46 and 102; `tests/security/incident-store.test.js:72`). Workforce reads back
   without the fingerprint (`workforce-service.js:331` and `340`) and compares nothing.
   It looks the id up with its fingerprint beforehand (`258`), so there another
   instance has to record under the id between the look-up and the put. TLC finds
   `ConflictRejects` of `Workforce` violated in that way too; as it is the same gap, no
   run of its own is kept for it.

Limits of what is shown:

* `WorkKeepsReservation` is checked for tool attempts. With model attempts the
  delayed cleanup of an earlier attempt may release by job id what a later one
  tracks (the hazard at `relay-service.js:354`).
* `CapacityReturned` is checked for jobs none of whose leases ended, proved where no
  lease can end, and both without faults of Memory, of the claims or of the terminal commit: with them it is
  false, by findings 1 and 2, and because an attempt confirmed after its lease
  (finding 3) overwrites the entry of another, whose reservation then stays until
  its lease ends. `RejectedStartRetriable` only fails by finding 1, and is proved
  with every other fault.
* Relay cannot know whether a Model Gateway that claims success called a model.
  `SummaryEarned` says what Relay can see: the execution is eligible, the
  package was its own and not empty, and the output keeps to the route's budget.
* `CommitsKept` allows what finding 4 shows, and nothing else: RECORDED of another's
  value is possible only in doubt and under an id that callers share.
* The store alone does not make a COMPLETED job one that had its effect: any
  client may close a running job by `applyTransition`. That Relay's jobs had it is
  a property of Relay (`RelayImplementsLifecycle`).
* `RunsFinish` leaves out torn jobs (section 4): nothing in the repository says what
  they are owed.
* `OrgState` takes the facts of Incident and Workforce as free and judges jobs
  at one moment: facts may change after stage 2 and before the work begins.
  Timestamps such as `decided_at` are left out where no check reads them.
* An evidence append that throws after a commit is modelled in `Calendar`, where
  the code goes on from it; in Incident, Organizational State and Workforce it
  only loses the answer, as an ambiguous answer does.
* The trusted clocks of Workforce's instances agree in its model; clocks that
  jump are in `Scheduler`, `Calendar` and `OrgState`.
* That exclusive work is exclusive beyond a lease is not promised by the code
  and not checked: a worker that outlives its lease is not stopped.

Seen while modelling, and neither confirmed nor denied by a doc or a test:

* `setDuty` and `setCapacity` with an existing id may give the record to another
  agent or resource, after which the first one has none.
* A company state that is set again at the same level replaces its cause
  references, and one stored without causes can only be lowered after it was
  stated again with some: a new cause is all that lowering it takes.
* Containment work may be bound to any open incident, also one of SEV-3, and is
  then eligible under the company state that another incident caused. It also
  runs on a holiday, as an incident's state outranks the calendar's.
* The capability and the scope of a delegation are never compared with the job's.
* Without company hours, or with more than 64 active events, the Calendar's facts
  are unavailable and all work waits.
* The newest duty or capacity is the one of the highest revision: a later fact
  under another id starts at revision 1
  (`adapters/simulator/src/org-state-store-simulator-adapter.js:105`).
* `REVIEW_RUNTIME`, `REVIEW_CONTEXT` and `REVIEW_TOOL` are never recommended: the
  evidence whose causes would recommend them is excluded before
  (`services/workforce/src/workforce-service.js:1012`). A mandatory policy
  failure leaves the evaluation when 20 later pieces of evidence exist.
* A qualification counts before its `effective_at`.
* `accept` may leave a created job that nobody moved to ACCEPTED; the Calendar's
  retry finds it and takes it for submitted.

### Not modelled

`PROJECT.json` gives the reason for each component. HTTP boundaries, Mission
Control and the registry parse, render and tabulate: they keep no state the
others share. The Access Gate and the remaining policies are decisions without
state, and so is the projection of device readings. Trace completeness is a pure
check of a finished log whose order is that of the steps modelled. Memory intake
adds a record under a fresh id, and the records that exist are free in the
models; `boundRetention` releases nothing with the job store of this repository,
which never forgets a job. Read-only lists and summaries are left out throughout.

## 7. Plan

The models are complete as far as the code keeps state, and every invariant and
action property that a passing run checks is stated by a theorem. What may follow:

1. `WorkKeepsReservation` and `ExclusiveWork` with model attempts, under the
   hypothesis that no confirmation is refused: then no cleanup of an earlier
   attempt meets what a later one tracks.
2. `ContextsFit` without the folds: a definition of the selection that says of each
   record why it was taken or passed over, and the step from it to the bounds.
3. Action properties of Relay that no run checks yet: a lease confirmed before it
   ends is the one the work runs under.
