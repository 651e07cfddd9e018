---------------------------- MODULE MCScheduler ----------------------------
(* A retry, two delayed tasks that are due at the same time, a group.       *)
EXTENDS Scheduler

CONSTANTS s1, r1, d1, d2, m1, m2

MCDelay == [t \in Timed |-> 1]
=============================================================================
