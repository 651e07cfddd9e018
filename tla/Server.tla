------------------------------- MODULE Server -------------------------------
(***************************************************************************)
(* A Rediq server process: it starts its workers, each with a heartbeat     *)
(* task, waits for Ctrl+C and shuts down gracefully; and the registry the   *)
(* workers keep in Redis, which list_workers and stop_worker of the         *)
(* inspector read and change.                                               *)
(*                                                                         *)
(* A worker's id is made of the server name and an index, so a process that *)
(* is started again has the ids of the one before.  One name is used by at  *)
(* most one process at a time.  The tasks themselves are in TaskQueue: here *)
(* a worker is busy, and its handler succeeds, fails or panics.             *)
(***************************************************************************)
EXTENDS Integers

CONSTANTS
    Servers,    \* server names
    Workers,    \* worker ids
    ServerOf,   \* the server each worker belongs to
    Metrics,    \* the servers with the metrics HTTP endpoint enabled
    MaxStarts,  \* bound: how often a server is started
    MaxCount,   \* bound: the processed_total at which tasks stop to succeed
    Env         \* what else may happen: see EnvEvents

(* "cmd_fail" is a Redis command that returns an error.                     *)
EnvEvents == {"crash", "panic", "cmd_fail", "expire", "stop_worker"}

ASSUME ServerAssumption ==
    /\ ServerOf \in [Workers -> Servers]
    /\ Metrics \subseteq Servers
    /\ MaxStarts \in Nat /\ MaxCount \in Nat
    /\ Env \subseteq EnvEvents

VARIABLES
    \* Redis
    workers,   \* Set rediq:meta:workers
    meta,      \* rediq:meta:worker:{id}: its processed_total, or Absent
    beat,      \* rediq:meta:heartbeat:{id}: absent, with or without a TTL
    \* the process
    spc, shutdown, sigint, starts,
    \* each worker and its heartbeat task: the command that comes next
    wpc, read, hpc,
    \* history: the workers whose run ended otherwise than by unregistering
    broken

redisVars == <<workers, meta, beat>>
serverVars == <<spc, shutdown, sigint, starts>>
workerVars == <<wpc, read, hpc>>
vars == <<redisVars, serverVars, workerVars, broken>>

Absent == -1

RegisterPcs == {"reg_meta", "reg_set", "reg_beat", "reg_ttl"}
LoopPcs == {"loop", "busy", "count_get", "count_put"}
UnregisterPcs == {"un_set", "un_meta", "un_beat"}
OverPcs == {"ended", "panicked"}

WorkersOf(s) == {w \in Workers : ServerOf[w] = s}
Stopping(w) == shutdown[ServerOf[w]]
Runs(s) == spc[s] \in {"up", "draining"}

GoTo(w, next) == wpc' = [wpc EXCEPT ![w] = next]

(* EXPIRE does nothing to a key that does not exist.                       *)
ExpireBeat(w) == beat' = [beat EXCEPT ![w] = IF @ = "none" THEN "none" ELSE "ttl"]

Init ==
    /\ workers = {} /\ meta = [w \in Workers |-> Absent] /\ beat = [w \in Workers |-> "none"]
    /\ spc = [s \in Servers |-> "down"] /\ shutdown = [s \in Servers |-> FALSE]
    /\ sigint = [s \in Servers |-> FALSE] /\ starts = [s \in Servers |-> 0]
    /\ wpc = [w \in Workers |-> "none"] /\ read = [w \in Workers |-> 0]
    /\ hpc = [w \in Workers |-> "off"]
    /\ broken = {}

-----------------------------------------------------------------------------
(* The process.                                                            *)

(* Server::run spawns every worker before it waits for Ctrl+C.              *)
StartServer(s) ==
    /\ ~Runs(s) /\ starts[s] < MaxStarts
    /\ spc' = [spc EXCEPT ![s] = "up"]
    /\ starts' = [starts EXCEPT ![s] = @ + 1]
    /\ wpc' = [w \in Workers |-> IF ServerOf[w] = s THEN "reg_meta" ELSE wpc[w]]
    /\ broken' = broken \ WorkersOf(s)
    /\ UNCHANGED <<redisVars, shutdown, sigint, read, hpc>>

Interrupt(s) ==
    /\ spc[s] = "up" /\ ~sigint[s]
    /\ sigint' = [sigint EXCEPT ![s] = TRUE]
    /\ UNCHANGED <<redisVars, spc, shutdown, starts, workerVars, broken>>

(* Mutant: nobody tells the workers.                                        *)
DrainQuietly(s) ==
    /\ spc[s] = "up" /\ sigint[s]
    /\ spc' = [spc EXCEPT ![s] = "draining"]
    /\ UNCHANGED <<redisVars, shutdown, sigint, starts, workerVars, broken>>

Drain(s) ==
    /\ spc[s] = "up" /\ sigint[s]
    /\ shutdown' = [shutdown EXCEPT ![s] = TRUE]
    /\ spc' = [spc EXCEPT ![s] = "draining"]
    /\ UNCHANGED <<redisVars, sigint, starts, workerVars, broken>>

(* The janitor has a Ctrl+C listener of its own, and the end of its loop    *)
(* sets the flag of the server too.                                         *)
JanitorExit(s) ==
    /\ Runs(s) /\ sigint[s] /\ ~shutdown[s]
    /\ shutdown' = [shutdown EXCEPT ![s] = TRUE]
    /\ UNCHANGED <<redisVars, spc, sigint, starts, workerVars, broken>>

(* The process is gone, and every task in it.                              *)
ProcessEnds(s, how) ==
    /\ spc' = [spc EXCEPT ![s] = how]
    /\ wpc' = [w \in Workers |-> IF ServerOf[w] = s THEN "none" ELSE wpc[w]]
    /\ hpc' = [w \in Workers |-> IF ServerOf[w] = s THEN "off" ELSE hpc[w]]
    /\ read' = [w \in Workers |-> IF ServerOf[w] = s THEN 0 ELSE read[w]]
    /\ shutdown' = [shutdown EXCEPT ![s] = FALSE]
    /\ sigint' = [sigint EXCEPT ![s] = FALSE]
    /\ UNCHANGED <<redisVars, starts>>

(* Mutant: run returns when the time limit is over.                         *)
ExitAtDeadline(s) ==
    /\ spc[s] = "draining"
    /\ ProcessEnds(s, "stopped")
    /\ UNCHANGED broken

(* Mutant: the program goes on after run, and the heartbeat task that a      *)
(* panicked worker did not abort with it.                                   *)
ExitDetached(s) ==
    /\ spc[s] = "draining"
    /\ s \notin Metrics
    /\ \A w \in WorkersOf(s) : wpc[w] \in OverPcs
    /\ spc' = [spc EXCEPT ![s] = "stopped"]
    /\ wpc' = [w \in Workers |-> IF ServerOf[w] = s THEN "none" ELSE wpc[w]]
    /\ shutdown' = [shutdown EXCEPT ![s] = FALSE]
    /\ sigint' = [sigint EXCEPT ![s] = FALSE]
    /\ UNCHANGED <<redisVars, starts, read, hpc, broken>>

(* graceful_shutdown joins every task of the JoinSet: the loop with the     *)
(* 30 s limit looks at the clock only between two of them, and the loop     *)
(* after it has no limit.  The metrics endpoint is one of the tasks and     *)
(* serves for ever.                                                         *)
Exit(s) ==
    /\ spc[s] = "draining"
    /\ s \notin Metrics
    /\ \A w \in WorkersOf(s) : wpc[w] \in OverPcs
    /\ ProcessEnds(s, "stopped")
    /\ UNCHANGED broken

Crash(s) ==
    /\ "crash" \in Env
    /\ Runs(s)
    /\ ProcessEnds(s, "down")
    /\ broken' = broken \cup WorkersOf(s)

-----------------------------------------------------------------------------
(* Worker::run: register, ...                                              *)
RegisterMeta(w) ==
    /\ wpc[w] = "reg_meta"
    /\ meta' = [meta EXCEPT ![w] = 0]
    /\ GoTo(w, "reg_set")
    /\ UNCHANGED <<workers, beat, serverVars, read, hpc, broken>>

RegisterSet(w) ==
    /\ wpc[w] = "reg_set"
    /\ workers' = workers \cup {w}
    /\ GoTo(w, "reg_beat")
    /\ UNCHANGED <<meta, beat, serverVars, read, hpc, broken>>

RegisterBeat(w) ==
    /\ wpc[w] = "reg_beat"
    /\ beat' = [beat EXCEPT ![w] = "forever"]
    /\ GoTo(w, "reg_ttl")
    /\ UNCHANGED <<workers, meta, serverVars, read, hpc, broken>>

(* With the registration complete the heartbeat task is spawned.            *)
RegisterTtl(w) ==
    /\ wpc[w] = "reg_ttl"
    /\ ExpireBeat(w)
    /\ GoTo(w, "loop")
    /\ hpc' = [hpc EXCEPT ![w] = "check"]
    /\ UNCHANGED <<workers, meta, serverVars, read, broken>>

(* Mutant: an error while registering is logged and the worker goes on.     *)
RegisterFailsSoft(w) ==
    /\ "cmd_fail" \in Env
    /\ wpc[w] \in RegisterPcs
    /\ GoTo(w, "loop")
    /\ hpc' = [hpc EXCEPT ![w] = "check"]
    /\ UNCHANGED <<redisVars, serverVars, read, broken>>

RegisterFails(w) ==
    /\ "cmd_fail" \in Env
    /\ wpc[w] \in RegisterPcs
    /\ GoTo(w, "ended")
    /\ broken' = broken \cup {w}
    /\ UNCHANGED <<redisVars, serverVars, read, hpc>>

(* ... the task loop, ...                                                  *)
Dequeue(w) ==
    /\ wpc[w] = "loop" /\ ~Stopping(w)
    /\ GoTo(w, "busy")
    /\ UNCHANGED <<redisVars, serverVars, read, hpc, broken>>

HandlerFails(w) ==
    /\ wpc[w] = "busy"
    /\ GoTo(w, "loop")
    /\ UNCHANGED <<redisVars, serverVars, read, hpc, broken>>

(* A panic in the handler ends the tokio task of the worker.  Dropping the  *)
(* JoinHandle of the heartbeat task does not end that one.                  *)
HandlerPanics(w) ==
    /\ "panic" \in Env
    /\ wpc[w] = "busy"
    /\ GoTo(w, "panicked")
    /\ broken' = broken \cup {w}
    /\ UNCHANGED <<redisVars, serverVars, read, hpc>>

HandlerSucceeds(w) ==
    /\ wpc[w] = "busy" /\ meta[w] < MaxCount
    /\ GoTo(w, "count_get")
    /\ UNCHANGED <<redisVars, serverVars, read, hpc, broken>>

(* increment_processed: GET, and SET of the metadata with one more.         *)
CountGet(w) ==
    /\ wpc[w] = "count_get"
    /\ IF meta[w] = Absent
       THEN GoTo(w, "loop") /\ UNCHANGED read
       ELSE GoTo(w, "count_put") /\ read' = [read EXCEPT ![w] = meta[w]]
    /\ UNCHANGED <<redisVars, serverVars, hpc, broken>>

(* Mutant: the metadata is kept by server instead of by worker.             *)
CountPutShared(w) ==
    /\ wpc[w] = "count_put"
    /\ meta' = [v \in Workers |-> IF ServerOf[v] = ServerOf[w] THEN read[w] + 1 ELSE meta[v]]
    /\ read' = [read EXCEPT ![w] = 0]
    /\ GoTo(w, "loop")
    /\ UNCHANGED <<workers, beat, serverVars, hpc, broken>>

CountPut(w) ==
    /\ wpc[w] = "count_put"
    /\ meta' = [meta EXCEPT ![w] = read[w] + 1]
    /\ read' = [read EXCEPT ![w] = 0]
    /\ GoTo(w, "loop")
    /\ UNCHANGED <<workers, beat, serverVars, hpc, broken>>

CountFails(w) ==
    /\ "cmd_fail" \in Env
    /\ wpc[w] \in {"count_get", "count_put"}
    /\ GoTo(w, "loop")
    /\ read' = [read EXCEPT ![w] = 0]
    /\ UNCHANGED <<redisVars, serverVars, hpc, broken>>

(* ... unregister, ...                                                     *)
LeaveLoop(w) ==
    /\ wpc[w] = "loop" /\ Stopping(w)
    /\ GoTo(w, "un_set")
    /\ UNCHANGED <<redisVars, serverVars, read, hpc, broken>>

(* Mutant: only the metadata goes.                                          *)
UnregisterKeepsSet(w) ==
    /\ wpc[w] = "un_set"
    /\ GoTo(w, "un_meta")
    /\ UNCHANGED <<redisVars, serverVars, read, hpc, broken>>

UnregisterSet(w) ==
    /\ wpc[w] = "un_set"
    /\ workers' = workers \ {w}
    /\ GoTo(w, "un_meta")
    /\ UNCHANGED <<meta, beat, serverVars, read, hpc, broken>>

UnregisterMeta(w) ==
    /\ wpc[w] = "un_meta"
    /\ meta' = [meta EXCEPT ![w] = Absent]
    /\ GoTo(w, "un_beat")
    /\ UNCHANGED <<workers, beat, serverVars, read, hpc, broken>>

UnregisterBeat(w) ==
    /\ wpc[w] = "un_beat"
    /\ beat' = [beat EXCEPT ![w] = "none"]
    /\ GoTo(w, "abort")
    /\ UNCHANGED <<workers, meta, serverVars, read, hpc, broken>>

(* An error in unregister is logged, and the rest of it is left out.        *)
UnregisterFails(w) ==
    /\ "cmd_fail" \in Env
    /\ wpc[w] \in UnregisterPcs
    /\ GoTo(w, "abort")
    /\ broken' = broken \cup {w}
    /\ UNCHANGED <<redisVars, serverVars, read, hpc>>

(* ... and heartbeat.abort(), wherever that task is.                        *)
Abort(w) ==
    /\ wpc[w] = "abort"
    /\ GoTo(w, "ended")
    /\ hpc' = [hpc EXCEPT ![w] = "off"]
    /\ UNCHANGED <<redisVars, serverVars, read, broken>>

-----------------------------------------------------------------------------
(* The heartbeat task: the flag, the tick and SET, EXPIRE.                 *)
BeatCheck(w) ==
    /\ hpc[w] = "check"
    /\ hpc' = [hpc EXCEPT ![w] = IF Stopping(w) THEN "off" ELSE "tick"]
    /\ UNCHANGED <<redisVars, serverVars, wpc, read, broken>>

BeatSet(w) ==
    /\ hpc[w] = "tick"
    /\ beat' = [beat EXCEPT ![w] = "forever"]
    /\ hpc' = [hpc EXCEPT ![w] = "ttl"]
    /\ UNCHANGED <<workers, meta, serverVars, wpc, read, broken>>

BeatTtl(w) ==
    /\ hpc[w] = "ttl"
    /\ ExpireBeat(w)
    /\ hpc' = [hpc EXCEPT ![w] = "check"]
    /\ UNCHANGED <<workers, meta, serverVars, wpc, read, broken>>

BeatFails(w) ==
    /\ "cmd_fail" \in Env
    /\ hpc[w] \in {"tick", "ttl"}
    /\ hpc' = [hpc EXCEPT ![w] = "check"]
    /\ UNCHANGED <<redisVars, serverVars, wpc, read, broken>>

(* The TTL of a heartbeat runs out.                                        *)
BeatExpires(w) ==
    /\ "expire" \in Env
    /\ beat[w] = "ttl"
    /\ beat' = [beat EXCEPT ![w] = "none"]
    /\ UNCHANGED <<workers, meta, serverVars, workerVars, broken>>

(* stop_worker: EXISTS and, when there is one, DEL of the heartbeat.        *)
StopWorker(w) ==
    /\ "stop_worker" \in Env
    /\ beat[w] # "none"
    /\ beat' = [beat EXCEPT ![w] = "none"]
    /\ UNCHANGED <<workers, meta, serverVars, workerVars, broken>>

-----------------------------------------------------------------------------
Register(w) == RegisterMeta(w) \/ RegisterSet(w) \/ RegisterBeat(w) \/ RegisterTtl(w) \/ RegisterFails(w)

Work(w) ==
    \/ Dequeue(w) \/ HandlerFails(w) \/ HandlerPanics(w) \/ HandlerSucceeds(w)
    \/ CountGet(w) \/ CountPut(w) \/ CountFails(w)

Unregister(w) ==
    \/ LeaveLoop(w) \/ UnregisterSet(w) \/ UnregisterMeta(w) \/ UnregisterBeat(w)
    \/ UnregisterFails(w) \/ Abort(w)

WorkerStep(w) == Register(w) \/ Work(w) \/ Unregister(w)

Heartbeat(w) == BeatCheck(w) \/ BeatSet(w) \/ BeatTtl(w) \/ BeatFails(w)

ProcessStep(s) == StartServer(s) \/ Interrupt(s) \/ Drain(s) \/ JanitorExit(s) \/ Exit(s) \/ Crash(s)

Next ==
    \/ \E s \in Servers : ProcessStep(s)
    \/ \E w \in Workers : WorkerStep(w) \/ Heartbeat(w) \/ BeatExpires(w) \/ StopWorker(w)

Spec == Init /\ [][Next]_vars

(* A worker and its heartbeat go on (a handler returns or runs into         *)
(* options.timeout), and run goes on after Ctrl+C.                          *)
Fairness ==
    /\ \A w \in Workers : WF_vars(WorkerStep(w)) /\ WF_vars(Heartbeat(w))
    /\ \A s \in Servers : WF_vars(Drain(s)) /\ WF_vars(Exit(s))

FairSpec == Spec /\ Fairness

-----------------------------------------------------------------------------
(* Types; and a process that does not run has no tasks.                    *)
TypeOK ==
    /\ workers \subseteq Workers
    /\ meta \in [Workers -> Nat \cup {Absent}]
    /\ beat \in [Workers -> {"none", "ttl", "forever"}]
    /\ spc \in [Servers -> {"down", "up", "draining", "stopped"}]
    /\ shutdown \in [Servers -> BOOLEAN] /\ sigint \in [Servers -> BOOLEAN]
    /\ starts \in [Servers -> 0 .. MaxStarts]
    /\ wpc \in [Workers -> {"none", "abort"} \cup RegisterPcs \cup LoopPcs \cup UnregisterPcs \cup OverPcs]
    /\ read \in [Workers -> Nat]
    /\ hpc \in [Workers -> {"off", "check", "tick", "ttl"}]
    /\ broken \subseteq Workers
    /\ \A w \in Workers : ~Runs(ServerOf[w]) => wpc[w] = "none" /\ hpc[w] = "off"

(* list_workers drops an id without metadata without a word: every id in    *)
(* the set has some, at every step of registering and unregistering, after  *)
(* errors, crashes and restarts.                                            *)
ListedIsDescribed == \A w \in workers : meta[w] # Absent

(* A worker that takes tasks is listed, so that the metadata                *)
(* increment_processed reads is there.                                     *)
LoopIsListed == \A w \in Workers : wpc[w] \in LoopPcs => w \in workers

(* When run has returned, every worker that was not cut off by a panic or   *)
(* by an error has left nothing of itself but, perhaps, a heartbeat.        *)
CleanExit ==
    \A w \in Workers :
        spc[ServerOf[w]] = "stopped" /\ w \notin broken => w \notin workers /\ meta[w] = Absent

(* The read-modify-write of processed_total loses no update, although       *)
(* nothing protects it: what a worker read is still there when it writes.   *)
CountIsFresh == \A w \in Workers : wpc[w] = "count_put" => read[w] = meta[w]

(* After Ctrl+C the process ends, whatever its workers are doing.           *)
ShutdownEnds == \A s \in Servers : sigint[s] ~> ~Runs(s)
=============================================================================
