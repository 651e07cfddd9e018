------------------------------ MODULE Presence ------------------------------
(***************************************************************************)
(* How the rest of the system sees that a worker is there: the server       *)
(* configuration that ServerBuilder lets through, the heartbeat key that     *)
(* each worker sets every heartbeat_interval with a time to live, and the    *)
(* table of workers and the operation count the dashboard makes of           *)
(* list_workers.  Time is in seconds, as Redis counts it.                   *)
(*                                                                         *)
(* Registration, shutdown and stop_worker step by step, with restarts, are  *)
(* in Server; here the clock is what matters.                               *)
(***************************************************************************)
EXTENDS Integers, FiniteSets, FiniteSetsExt

CONSTANTS
    Workers,
    MaxLate,         \* a tick is handled at most so many seconds after it is due
    Horizons,        \* bounds: what may be handed to ServerBuilder, how long the
                     \* clock runs, which workers start, how many tasks each
                     \* processes, how often the dashboard refreshes, how many
                     \* commands fail or keys are deleted
    NoConfig, NoKey, NoTTL, NoMeta

ServerConfigs == UNION {h.configs : h \in Horizons}

IsServerConfig(c) ==
    {c.concurrency, c.queues, c.heartbeat_interval, c.worker_timeout,
     c.multiplier[1], c.multiplier[2]} \subseteq Nat /\ c.multiplier[2] > 0

ASSUME PresenceAssumption ==
    /\ IsFiniteSet(Workers)
    /\ \A c \in ServerConfigs : IsServerConfig(c)
    /\ \A h \in Horizons :
          {h.time, h.total, h.refreshes, h.faults} \subseteq Nat /\ h.crew \subseteq Workers
    /\ MaxLate \in Nat
    /\ NoConfig \notin ServerConfigs
    /\ NoKey \notin Nat /\ NoTTL \notin Nat /\ NoKey # NoTTL /\ NoMeta \notin Nat

VARIABLES
    horizon,      \* the bounds of this behaviour
    now,
    config,       \* the configuration of the server, once built
    shutdown,     \* its flag
    \* Redis: rediq:meta:workers, processed_total in rediq:meta:worker:{id},
    \* and when rediq:meta:heartbeat:{id} expires
    workers, meta, beat,
    \* a worker: where it is, whether its heartbeat task runs, when the next
    \* tick is due, whether it has set the key and not yet its expiry
    pc, beating, due, half,
    faults,       \* failed commands so far
    \* history: ticks that failed since the last one that did not, whether the
    \* key was left without expiry, whether it was deleted by stop_worker,
    \* when its heartbeat task stopped, tasks it processed
    missed, bare, stopped, ended, done,
    \* DashboardState: the table, total_processed; and the refresh: the ids
    \* still to be read, what was read
    table, total_processed, opc, ids, got, refreshes,
    \* history: all deltas the dashboard has shown, and the totals of the
    \* workers that fell out of its table
    counted, dropped

redisVars == <<workers, meta, beat>>
serverVars == <<config, shutdown>>
workerVars == <<pc, beating, due, half>>
histVars == <<missed, bare, stopped, ended, done>>
dashVars == <<table, total_processed, opc, ids, got, refreshes, counted, dropped>>
vars == <<horizon, now, serverVars, redisVars, workerVars, faults, histVars, dashVars>>

Nobody == [w \in {} |-> 0]

Total(f) == FoldSet(LAMBDA w, n : n + f[w], 0, DOMAIN f)

Init ==
    /\ horizon \in Horizons
    /\ now = 0 /\ config = NoConfig /\ shutdown = FALSE /\ faults = 0
    /\ workers = {} /\ meta = [w \in Workers |-> NoMeta] /\ beat = [w \in Workers |-> NoKey]
    /\ pc = [w \in Workers |-> "new"] /\ due = [w \in Workers |-> 0]
    /\ beating = [w \in Workers |-> FALSE] /\ half = [w \in Workers |-> FALSE]
    /\ missed = [w \in Workers |-> 0] /\ bare = [w \in Workers |-> FALSE]
    /\ stopped = [w \in Workers |-> FALSE] /\ ended = [w \in Workers |-> 0]
    /\ done = [w \in Workers |-> 0]
    /\ table = Nobody /\ total_processed = 0 /\ opc = "idle" /\ ids = {} /\ got = Nobody
    /\ refreshes = 0 /\ counted = 0 /\ dropped = 0

-----------------------------------------------------------------------------
(* ServerBuilder::build.  A multiplier of 1 or less only logs a warning, and *)
(* nobody compares the interval with the TTL.                               *)
Build(c) ==
    /\ config = NoConfig
    /\ c.concurrency > 0 /\ c.queues > 0 /\ c.heartbeat_interval > 0
    /\ config' = c
    /\ UNCHANGED <<horizon, now, shutdown, redisVars, workerVars, faults, histVars, dashVars>>

(* Server::run: a signal sets the flag of all its workers.                  *)
Shutdown ==
    /\ config # NoConfig /\ ~shutdown
    /\ shutdown' = TRUE
    /\ UNCHANGED <<horizon, now, config, redisVars, workerVars, faults, histVars, dashVars>>

(* `as u64` rounds down.                                                    *)
Ttl == (config.worker_timeout * config.multiplier[1]) \div config.multiplier[2]

Interval == config.heartbeat_interval

(* The heartbeat key of w exists.                                           *)
Key(w) == IF beat[w] = NoTTL THEN TRUE ELSE beat[w] # NoKey /\ beat[w] > now

Fault == faults < horizon.faults /\ faults' = faults + 1

-----------------------------------------------------------------------------
(* A worker.                                                               *)

(* register: SET metadata, SADD.  update_heartbeat follows, see Beat.       *)
Register(w) ==
    /\ config # NoConfig /\ pc[w] = "new" /\ w \in horizon.crew
    /\ meta' = [meta EXCEPT ![w] = 0]
    /\ workers' = workers \cup {w}
    /\ pc' = [pc EXCEPT ![w] = "registering"]
    /\ due' = [due EXCEPT ![w] = now]
    /\ UNCHANGED <<horizon, now, serverVars, beat, beating, half, faults, histVars, dashVars>>

(* register or the heartbeat task is at update_heartbeat_for.               *)
Beats(w) == pc[w] = "registering" \/ beating[w]

(* update_heartbeat_for: SET, which also takes away an expiry, ...          *)
SetBeat(w) ==
    /\ Beats(w) /\ due[w] <= now /\ ~half[w]
    /\ beat' = [beat EXCEPT ![w] = NoTTL]
    /\ half' = [half EXCEPT ![w] = TRUE]
    /\ stopped' = [stopped EXCEPT ![w] = FALSE]
    /\ UNCHANGED <<horizon, now, serverVars, workers, meta, pc, beating, due, faults, missed, bare, ended, done, dashVars>>

(* After the call in register the loop starts, and its first tick is due at *)
(* once; ticks that were missed are made up for.                            *)
NextDue(w) == IF pc[w] = "registering" THEN now ELSE due[w] + Interval

(* Mutant: the interval instead of the TTL.                                 *)
ExpireBeatShort(w) ==
    /\ half[w] /\ Beats(w)
    /\ beat' = [beat EXCEPT ![w] = IF @ = NoKey THEN NoKey ELSE now + Interval]
    /\ half' = [half EXCEPT ![w] = FALSE]
    /\ beating' = [beating EXCEPT ![w] = ~shutdown]
    /\ pc' = [pc EXCEPT ![w] = IF @ = "registering" THEN "live" ELSE @]
    /\ due' = [due EXCEPT ![w] = NextDue(w)]
    /\ missed' = [missed EXCEPT ![w] = 0] /\ bare' = [bare EXCEPT ![w] = FALSE]
    /\ ended' = [ended EXCEPT ![w] = IF shutdown THEN now ELSE @]
    /\ UNCHANGED <<horizon, now, serverVars, workers, meta, faults, stopped, done, dashVars>>

(* ... then EXPIRE, without effect on a key that is gone.  The loop looks   *)
(* at the flag before it waits for the next tick, so at most one tick comes *)
(* after the flag is set, however long the worker has to finish its task.   *)
ExpireBeat(w) ==
    /\ half[w] /\ Beats(w)
    /\ beat' = [beat EXCEPT ![w] = IF @ = NoKey THEN NoKey ELSE now + Ttl]
    /\ half' = [half EXCEPT ![w] = FALSE]
    /\ beating' = [beating EXCEPT ![w] = ~shutdown]
    /\ pc' = [pc EXCEPT ![w] = IF @ = "registering" THEN "live" ELSE @]
    /\ due' = [due EXCEPT ![w] = NextDue(w)]
    /\ missed' = [missed EXCEPT ![w] = 0] /\ bare' = [bare EXCEPT ![w] = FALSE]
    /\ ended' = [ended EXCEPT ![w] = IF shutdown THEN now ELSE @]
    /\ UNCHANGED <<horizon, now, serverVars, workers, meta, faults, stopped, done, dashVars>>

(* A tick whose SET or EXPIRE fails is logged.                              *)
BeatFails(w) ==
    /\ Fault
    /\ beating[w] /\ due[w] <= now
    /\ due' = [due EXCEPT ![w] = @ + Interval]
    /\ beating' = [beating EXCEPT ![w] = ~shutdown]
    /\ half' = [half EXCEPT ![w] = FALSE]
    /\ missed' = [missed EXCEPT ![w] = @ + 1]
    /\ bare' = [bare EXCEPT ![w] = @ \/ half[w]]
    /\ ended' = [ended EXCEPT ![w] = IF shutdown THEN now ELSE @]
    /\ UNCHANGED <<horizon, now, serverVars, redisVars, pc, stopped, done, dashVars>>

(* increment_processed.                                                    *)
Succeed(w) ==
    /\ pc[w] = "live" /\ meta[w] # NoMeta /\ done[w] < horizon.total
    /\ meta' = [meta EXCEPT ![w] = @ + 1]
    /\ done' = [done EXCEPT ![w] = @ + 1]
    /\ UNCHANGED <<horizon, now, serverVars, workers, beat, workerVars, faults, missed, bare, stopped, ended, dashVars>>

(* A handler or hook panics, which ends the tokio task of the worker: no     *)
(* unregister and no abort.  The heartbeat task is another one; it was      *)
(* detached with its handle and goes on as long as the process runs and the *)
(* flag is not set.                                                        *)
Panics(w) ==
    /\ Fault
    /\ pc[w] = "live"
    /\ pc' = [pc EXCEPT ![w] = "panicked"]
    /\ UNCHANGED <<horizon, now, serverVars, redisVars, beating, due, half, histVars, dashVars>>

(* The task loop sees the flag; unregister: SREM and two DELs (here one     *)
(* step), while the heartbeat task may still have its last tick ...         *)
Unregister(w) ==
    /\ shutdown /\ pc[w] = "live"
    /\ pc' = [pc EXCEPT ![w] = "leaving"]
    /\ workers' = workers \ {w}
    /\ meta' = [meta EXCEPT ![w] = NoMeta]
    /\ beat' = [beat EXCEPT ![w] = NoKey]
    /\ UNCHANGED <<horizon, now, serverVars, beating, due, half, faults, histVars, dashVars>>

(* Server::run has joined every worker.                                     *)
Joined == shutdown /\ \A w \in horizon.crew : pc[w] \in {"panicked", "ended"}

(* ... until abort, until the process exits after run, or until it dies.  A  *)
(* failed command in register ends the worker as well.                      *)
End(w) ==
    /\ \/ pc[w] = "leaving" /\ UNCHANGED faults
       \/ pc[w] = "panicked" /\ Joined /\ UNCHANGED faults
       \/ Fault /\ pc[w] \in {"live", "registering", "panicked"}
    /\ pc' = [pc EXCEPT ![w] = "ended"]
    /\ beating' = [beating EXCEPT ![w] = FALSE]
    /\ half' = [half EXCEPT ![w] = FALSE]
    /\ bare' = [bare EXCEPT ![w] = @ \/ half[w]]
    /\ ended' = [ended EXCEPT ![w] = IF beating[w] THEN now ELSE @]
    /\ UNCHANGED <<horizon, now, serverVars, redisVars, due, missed, stopped, done, dashVars>>

(* stop_worker: EXISTS and DEL.  The worker never looks.                    *)
StopWorker(w) ==
    /\ Fault
    /\ Key(w)
    /\ beat' = [beat EXCEPT ![w] = NoKey]
    /\ stopped' = [stopped EXCEPT ![w] = TRUE]
    /\ UNCHANGED <<horizon, now, serverVars, workers, meta, workerVars, missed, bare, ended, done, dashVars>>

-----------------------------------------------------------------------------
(* refresh_data of the dashboard, its half about workers.                  *)

(* list_workers: SMEMBERS, ...                                              *)
ListWorkers ==
    /\ opc = "idle" /\ refreshes < horizon.refreshes
    /\ opc' = "read" /\ refreshes' = refreshes + 1
    /\ ids' = workers /\ got' = Nobody
    /\ UNCHANGED <<horizon, now, serverVars, redisVars, workerVars, faults, histVars,
                   table, total_processed, counted, dropped>>

(* If that fails the table stays.                                          *)
ListFails ==
    /\ Fault
    /\ opc = "idle" /\ refreshes < horizon.refreshes
    /\ refreshes' = refreshes + 1
    /\ UNCHANGED <<horizon, now, serverVars, redisVars, workerVars, histVars,
                   table, total_processed, opc, ids, got, counted, dropped>>

(* ... and GET of each; one that is gone, or whose read fails, is left out. *)
GetWorker(w) ==
    /\ opc = "read" /\ w \in ids
    /\ ids' = ids \ {w}
    /\ \/ /\ meta[w] # NoMeta
          /\ got' = [v \in DOMAIN got \cup {w} |-> IF v = w THEN meta[w] ELSE got[v]]
          /\ UNCHANGED faults
       \/ meta[w] = NoMeta /\ UNCHANGED <<got, faults>>
       \/ Fault /\ UNCHANGED got
    /\ UNCHANGED <<horizon, now, serverVars, redisVars, workerVars, histVars,
                   table, total_processed, opc, refreshes, counted, dropped>>

Minus(a, b) == IF a > b THEN a - b ELSE 0   \* saturating_sub

(* Mutant: the total of the first refresh stays the one to compare with.    *)
EndRefreshFirst ==
    LET total == Total(got)
    IN  /\ opc = "read" /\ ids = {}
        /\ opc' = "idle"
        /\ table' = got /\ got' = Nobody
        /\ counted' = counted + Minus(total, total_processed)
        /\ total_processed' = IF refreshes = 1 THEN total ELSE total_processed
        /\ dropped' = dropped + Total([w \in DOMAIN table \ DOMAIN got |-> table[w]])
        /\ UNCHANGED <<horizon, now, serverVars, redisVars, workerVars, faults, histVars, ids, refreshes>>

(* The new table; the difference of the totals, divided by the time since   *)
(* the refresh before, is what is shown as ops per second.                  *)
EndRefresh ==
    LET total == Total(got)
    IN  /\ opc = "read" /\ ids = {}
        /\ opc' = "idle"
        /\ table' = got /\ got' = Nobody
        /\ counted' = counted + Minus(total, total_processed)
        /\ total_processed' = total
        /\ dropped' = dropped + Total([w \in DOMAIN table \ DOMAIN got |-> table[w]])
        /\ UNCHANGED <<horizon, now, serverVars, redisVars, workerVars, faults, histVars, ids, refreshes>>

-----------------------------------------------------------------------------
(* A second passes, once nobody has a tick that is later than MaxLate.      *)
Tick ==
    /\ now < horizon.time
    /\ \A w \in Workers : Beats(w) => now < due[w] + MaxLate
    /\ now' = now + 1
    /\ UNCHANGED <<horizon, serverVars, redisVars, workerVars, faults, histVars, dashVars>>

WorkerStep(w) ==
    \/ Register(w) \/ SetBeat(w) \/ ExpireBeat(w) \/ BeatFails(w)
    \/ Succeed(w) \/ Panics(w) \/ Unregister(w) \/ End(w)

Next ==
    \/ \E c \in horizon.configs : Build(c)
    \/ \E w \in Workers : WorkerStep(w) \/ StopWorker(w) \/ GetWorker(w)
    \/ ListWorkers \/ ListFails \/ EndRefresh
    \/ Shutdown \/ Tick

Spec == Init /\ [][Next]_vars

-----------------------------------------------------------------------------
(* The type of every variable.                                             *)
TypeOK ==
    /\ horizon \in Horizons
    /\ now \in Nat /\ config \in ServerConfigs \cup {NoConfig} /\ shutdown \in BOOLEAN /\ faults \in Nat
    /\ workers \subseteq Workers /\ meta \in [Workers -> Nat \cup {NoMeta}]
    /\ beat \in [Workers -> Nat \cup {NoKey, NoTTL}]
    /\ pc \in [Workers -> {"new", "registering", "live", "panicked", "leaving", "ended"}]
    /\ due \in [Workers -> Nat] /\ {beating, half} \subseteq [Workers -> BOOLEAN]
    /\ missed \in [Workers -> Nat] /\ bare \in [Workers -> BOOLEAN]
    /\ stopped \in [Workers -> BOOLEAN] /\ ended \in [Workers -> Nat]
    /\ done \in [Workers -> Nat]
    /\ opc \in {"idle", "read"} /\ ids \subseteq Workers
    /\ DOMAIN table \subseteq Workers /\ table \in [DOMAIN table -> Nat]
    /\ DOMAIN got \subseteq Workers /\ got \in [DOMAIN got -> Nat]
    /\ {total_processed, refreshes, counted, dropped} \subseteq Nat

(* The heartbeat key tells of the heartbeat task, not of the worker.  As     *)
(* long as the task runs, the key is there, even when a panic cut off the    *)
(* worker itself, if the TTL outlasts the ticks it missed, the next one and  *)
(* its delay, and unless stop_worker or the worker's own unregister deleted  *)
(* it.  Once the task has stopped, by the flag, abort or the end of the      *)
(* process, the key is gone within a TTL, even when the worker still has a   *)
(* task to finish; unless SET and EXPIRE were torn apart.                    *)
BeatMeansAlive ==
    \A w \in Workers :
        /\ /\ pc[w] \in {"live", "panicked"} /\ beating[w] /\ ~stopped[w]
           /\ Ttl > (missed[w] + 1) * Interval + MaxLate
           => Key(w)
        /\ pc[w] \notin {"new", "registering"} /\ ~beating[w] /\ Key(w)
           => bare[w] \/ now < ended[w] + Ttl

(* Summed up over its refreshes, the dashboard counts every task of the     *)
(* workers it shows, and none twice, except those of workers that were      *)
(* missing from its table for a while.                                      *)
OpsHonest ==
    /\ Total(table) <= counted
    /\ counted <= Total(done) + dropped
=============================================================================
