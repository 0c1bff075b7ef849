---------------------------- MODULE JobLifecycle ----------------------------
(***************************************************************************)
(* What is promised about a job, with no mechanism in it: the job goes once *)
(* through SUBMITTED, ACCEPTED, RUNNING and one terminal state; while it is *)
(* RUNNING at most one effect, a worker call or a model call, is ever       *)
(* started for it; it has a result of success only if one was; a terminal   *)
(* job is never touched again.                                              *)
(*                                                                          *)
(* The store lets a client also close a running job without any result;     *)
(* LifeSpec allows that.  AnsweredSpec is the promise of a service that     *)
(* never does: there every terminal job is answered, and a COMPLETED one    *)
(* had its effect.  RelayStore implements LifeSpec (LifecycleRefined there) *)
(* and Relay AnsweredSpec (AnsweredLifecycle).                              *)
(***************************************************************************)
CONSTANT Jobs

VARIABLES
  phase,    \* phase[j]: where job j is in its life
  effect,   \* effect[j]: the kind of work that was started for j, if any
  verdict   \* verdict[j]: what the result of j says, if it has one

lifeVars == <<phase, effect, verdict>>

Phases   == {"ABSENT", "SUBMITTED", "ACCEPTED", "RUNNING", "COMPLETED", "FAILED"}
Effects  == {"none", "worker", "model"}
Verdicts == {"none", "success", "failure"}

LifeInit ==
  /\ phase   = [j \in Jobs |-> "ABSENT"]
  /\ effect  = [j \in Jobs |-> "none"]
  /\ verdict = [j \in Jobs |-> "none"]

Move(j, from, to) ==
  /\ phase[j] = from
  /\ phase' = [phase EXCEPT ![j] = to]

Submit(j) == Move(j, "ABSENT", "SUBMITTED") /\ UNCHANGED <<effect, verdict>>
Accept(j) == Move(j, "SUBMITTED", "ACCEPTED") /\ UNCHANGED <<effect, verdict>>
Start(j)  == Move(j, "ACCEPTED", "RUNNING") /\ UNCHANGED <<effect, verdict>>

Invoke(j) ==
  /\ phase[j] = "RUNNING"
  /\ effect[j] = "none"
  /\ \E kind \in {"worker", "model"} : effect' = [effect EXCEPT ![j] = kind]
  /\ UNCHANGED <<phase, verdict>>

Complete(j) ==
  /\ effect[j] # "none"
  /\ Move(j, "RUNNING", "COMPLETED")
  /\ verdict' = [verdict EXCEPT ![j] = "success"]
  /\ UNCHANGED effect

Fail(j) ==
  /\ Move(j, "RUNNING", "FAILED")
  /\ verdict' = [verdict EXCEPT ![j] = "failure"]
  /\ UNCHANGED effect

\* The job is closed by a bare transition: no result will ever say more.
Close(j) ==
  /\ \E to \in {"COMPLETED", "FAILED"} : Move(j, "RUNNING", to)
  /\ UNCHANGED <<effect, verdict>>

AnsweredNext ==
  \E j \in Jobs :
    Submit(j) \/ Accept(j) \/ Start(j) \/ Invoke(j) \/ Complete(j) \/ Fail(j)

LifeNext == AnsweredNext \/ \E j \in Jobs : Close(j)

LifeSpec     == LifeInit /\ [][LifeNext]_lifeVars
AnsweredSpec == LifeInit /\ [][AnsweredNext]_lifeVars
=============================================================================
