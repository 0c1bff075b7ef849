------------------------------ MODULE MCCalendar ------------------------------
(* Calendar for TLC: a schedule with a window at every instant, and one with *)
(* every other instant that starts later.                                    *)
EXTENDS Calendar, TLC

MCSchedules == {[anchor |-> 0, interval |-> 1], [anchor |-> 1, interval |-> 2]}

Symmetry == Permutations(Evaluators)
=============================================================================
