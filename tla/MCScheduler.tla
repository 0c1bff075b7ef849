----------------------------- MODULE MCScheduler -----------------------------
(* Scheduler for TLC: two exclusive resources with one requirement each.     *)
(* One lease is two ticks and time runs to 4, so that a lease runs out, an   *)
(* unused evaluation is evicted (after one lease) while a used one of the    *)
(* same age still backs a live reservation.                                  *)
EXTENDS Scheduler, TLC

CONSTANTS qx, qy, x, y

MCResourceOf == qx :> x @@ qy :> y

\* The two requirements may be swapped together with their resources.
SwapResources == qx :> qy @@ qy :> qx @@ x :> y @@ y :> x

Symmetry ==
  Permutations(Jobs) \cup Permutations(Evaluations)
    \cup Permutations(Reservations) \cup {SwapResources}
=============================================================================
