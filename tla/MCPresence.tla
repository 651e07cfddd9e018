----------------------------- MODULE MCPresence -----------------------------
(* Two workers, and a server whose heartbeat outlasts one missed tick, one  *)
(* whose TTL is rounded down to just more than interval and delay, one whose *)
(* TTL is shorter than its interval, and three that build refuses.          *)
EXTENDS Presence

CONSTANTS w1, w2

ServerConfig(interval, timeout, multiplier) ==
    [concurrency |-> 2, queues |-> 1, heartbeat_interval |-> interval,
     worker_timeout |-> timeout, multiplier |-> multiplier]

Good == ServerConfig(1, 2, <<2, 1>>)
Configs ==
    {Good, ServerConfig(1, 2, <<7, 4>>), ServerConfig(2, 1, <<1, 1>>),
     ServerConfig(0, 3, <<2, 1>>), [Good EXCEPT !.concurrency = 0], [Good EXCEPT !.queues = 0]}

(* Seven seconds of one worker's heartbeat, or refreshes in one second.      *)
MCHorizons ==
    {[configs |-> Configs, time |-> 7, crew |-> {w1}, total |-> 0, refreshes |-> 0, faults |-> 2],
     [configs |-> {Good}, time |-> 0, crew |-> {w1, w2}, total |-> 1, refreshes |-> 3, faults |-> 1]}
=============================================================================
