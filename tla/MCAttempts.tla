----------------------------- MODULE MCAttempts -----------------------------
(* Two tasks on two workers of one server with two middlewares.  One caller *)
(* asks for retries and for a priority beyond the scale, the other also for *)
(* what some check refuses.                                                *)
EXTENDS Attempts

CONSTANTS x, w1, w2, t1, t2

Config(size, range) == [max_payload_size |-> size, priority_range |-> range]
MCDefaultConfig == Config(2, <<0, 100>>)
MCConfigs == {MCDefaultConfig, Config(3, <<-10, 40>>)}

Request(size, priority, max_retry) ==
    [task_type |-> x, queue |-> "default", size |-> size, priority |-> priority,
     timeout |-> 30, delay |-> 0, cron |-> Empty, max_retry |-> max_retry]

Long == Request(2, -5, 3)
Short == Request(1, 50, 1)
Faulty ==
    {[Short EXCEPT !.queue = Empty, !.timeout = 0],
     [Short EXCEPT !.delay = MaxDelay + 1, !.cron = "word"]}
MCRequests == [t \in Tasks |-> IF t = t1 THEN {Long} ELSE {Short, Request(3, 10, 0)} \cup Faulty]
=============================================================================
