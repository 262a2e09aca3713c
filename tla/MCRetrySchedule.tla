--------------------------- MODULE MCRetrySchedule ---------------------------
(* RetrySchedule on a small instance, for TLC.                             *)
EXTENDS RetrySchedule, TLC

Symmetry == Permutations(Notification) \cup Permutations(Scheduler)
=============================================================================
