---------------------------- MODULE MCDashboard ----------------------------
(* Two tasks of one queue.  With somebody at the keys a second queue comes   *)
(* and goes in the table, and the tasks move between refreshes; with nobody   *)
(* at the keys they move during refreshes too.                              *)
EXTENDS Dashboard

CONSTANTS q1, q2, t1, t2

MCQueueOf == [t \in Tasks |-> q1]

Setting(keys, used, moves) ==
    [dead_threshold |-> 1, error_rate_threshold |-> 50, max_points |-> 1,
     keys |-> keys, queues |-> used, moves |-> moves, completed |-> 1]

MCSettings == {Setting(TRUE, {q1, q2}, 0), Setting(FALSE, {q1}, 2)}

Symmetry == Permutations(Tasks)
=============================================================================
