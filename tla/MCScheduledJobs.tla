--------------------------- MODULE MCScheduledJobs ---------------------------
(* Intervals for checking ScheduledJobs with TLC: the two jobs fall due       *)
(* together and apart, and one rests longer than its interval after an error. *)
EXTENDS ScheduledJobs

CONSTANTS often, seldom

MCInterval == [j \in {often, seldom} |-> IF j = often THEN 2 ELSE 3]
=============================================================================
