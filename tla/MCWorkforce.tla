---------------------------- MODULE MCWorkforce -----------------------------
(* Constants for model-checking Workforce.                                 *)
EXTENDS Workforce, TLC

CONSTANTS e1, e2, day, j1, p1, p2, t1, l1

StartsAt == [s \in Shift |-> 0]

EndsAt == [s \in Shift |-> 1]

LastDayWork == [j \in Job |-> LastDay]

Sessions == Permutations(Session)
=============================================================================
