----------------------------- MODULE OperationLog -----------------------------
(***************************************************************************)
(* What the services with idempotent commits promise their callers.  A      *)
(* caller asks for a value to be recorded under an operation key.  A key is *)
(* recorded once and never overwritten; a caller writes its own value, and  *)
(* at most once; it is told "refused" only when it wrote nothing, "unknown" *)
(* (reconciliation required) whenever the service cannot say, and           *)
(* "recorded" of the value it asked for.                                    *)
(*                                                                          *)
(* The last promise has a gap.  A caller whose write was answered           *)
(* ambiguously is in doubt, and a service that then finds a record under    *)
(* the key takes it for this caller's.  Under a key that others use as well *)
(* it may be another's.  LogSpec has the gap; NeverDeceived is without it.  *)
(*                                                                          *)
(* A fresh key stands for an operation identifier that no other call will   *)
(* ever use: it can be forgotten when its call is over.                     *)
(***************************************************************************)
CONSTANTS Callers, Keys, FreshKeys, None

VARIABLES
  log,   \* [Keys -> value recorded, or None]
  call   \* [Callers -> where the call is, its key and value, whether it wrote]

logVars == <<log, call>>

NoCall == [state |-> "none", key |-> None, value |-> None, wrote |-> FALSE]

Waiting(c) == call[c].state \in {"asked", "doubtful"}

LogInit ==
  /\ DOMAIN log = Keys
  /\ \A k \in FreshKeys : log[k] = None
  /\ call = [c \in Callers |-> NoCall]

\* The value is whatever the service made of the request.
Ask(c) ==
  /\ call[c] = NoCall
  /\ \E k \in Keys :
       call' = [call EXCEPT ![c] =
                  [state |-> "asked", key |-> k, value |-> call'[c].value, wrote |-> FALSE]]
  /\ call'[c].value # None
  /\ UNCHANGED log

Proceed(c, state, wrote) ==
  call' = [call EXCEPT ![c] =
             [state |-> state, key |-> @.key, value |-> @.value, wrote |-> wrote]]

\* What was asked for is forgotten.
Answer(c, state, wrote) ==
  call' = [call EXCEPT ![c] =
             [state |-> state, key |-> @.key, value |-> None, wrote |-> wrote]]

Write(c) ==
  LET k == call[c].key IN
  /\ Waiting(c) /\ ~call[c].wrote
  /\ log[k] = None
  /\ log' = [log EXCEPT ![k] = call[c].value]
  /\ Proceed(c, "doubtful", TRUE) \/ Answer(c, "recorded", TRUE)

\* Nothing was written, and the service does not know that.
Doubt(c) ==
  /\ call[c].state = "asked"
  /\ Proceed(c, "doubtful", call[c].wrote)
  /\ UNCHANGED log

\* Its own value, or any other: the gap.
Found(c) ==
  LET k == call[c].key IN
  \/ log[k] = call[c].value
  \/ call[c].state = "doubtful" /\ k \notin FreshKeys /\ log[k] # None

Tell(c) ==
  /\ Waiting(c)
  /\ \/ Found(c) /\ Answer(c, "recorded", call[c].wrote)
     \/ ~call[c].wrote /\ Answer(c, "refused", FALSE)
     \/ Answer(c, "unknown", call[c].wrote)
  /\ UNCHANGED log

Return(c) ==
  /\ call[c].state \in {"recorded", "refused", "unknown"}
  /\ call' = [call EXCEPT ![c] = NoCall]
  /\ log' = IF call[c].key \in FreshKeys THEN [log EXCEPT ![call[c].key] = None] ELSE log

\* A step is one of a call, and changes it.
LogNext ==
  \E c \in Callers :
    call'[c] # call[c] /\ (Ask(c) \/ Write(c) \/ Doubt(c) \/ Tell(c) \/ Return(c))

LogSpec == LogInit /\ [][LogNext]_logVars

\* The whole promise: a caller is told "recorded" only of a key under which the
\* store has the value that it asked for, not another one.
NeverDeceived ==
  [][\A c \in Callers :
       Waiting(c) /\ call'[c].state = "recorded" => log'[call[c].key] = call[c].value]_logVars
=============================================================================
