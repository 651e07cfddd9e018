# Rediq in TLA+

Rediq is a task queue on Redis: clients push task ids into Redis containers,
worker loops of one or more server processes take them, run a handler and
acknowledge the result, and a scheduler moves delayed tasks and retries back
into the queue. No process talks to another one directly. Redis is the only
shared state, every Redis command and every Lua script is atomic, and everything
between two commands can interleave or be cut off. That is what these modules
model: **a step is one Redis command or one script**, and the Rust code between
two commands is part of the step before or after it.

## 1. Inventory

Paths are relative to `src/rediq/src`.

| Component | State | Operations | Depends on |
|---|---|---|---|
| client (`client/builder.rs`) | none of its own | `enqueue`, `enqueue_delayed`, `enqueue_priority`, `enqueue_batch`, `enqueue_cron`, `pause_queue`, `resume_queue`, `flush_queue`, `cancel_task`, `cancel_task_with_unique`, `retry_task` | Redis |
| worker (`server/worker.rs`) | its copy of the task it holds, a `running` flag, `worker:{id}` and `heartbeat:{id}` | `task_loop` (dequeue, load, process, acknowledge), heartbeat, `register`, `unregister` | Redis, mux, middleware |
| task dependencies (`storage/dependencies.rs`) | `pending_deps:{id}`, `task_deps:{id}` | linking in `enqueue`, `check_dependents`, `fail_dependents` | client, worker |
| Redis commands, scripts (`storage/redis/mod.rs`, `storage/keys.rs`) | every key | single commands; scripts `pdequeue`, dedup, `move_expired_tasks` | |
| task (`task/mod.rs`, `task/builder.rs`) | status, `retry_cnt`, options | `build`, `validate`, `can_retry`, `retry_delay` | configuration |
| scheduler (`server/scheduler.rs`) | none of its own | moves of `delayed` and `retry`, cron instances, aggregation of groups | Redis |
| server (`server/mod.rs`, `server/config.rs`) | worker join set, shutdown flag | start-up, `graceful_shutdown` | worker, scheduler, janitor |
| janitor (`server/janitor.rs`) | none | deletes task keys without TTL | Redis |
| inspector (`client/mod.rs`) | none | `list_queues`, `queue_stats`, `list_tasks`, `list_workers`, `get_task_progress` and other reads; `stop_worker` | Redis |
| aggregation (`aggregator/mod.rs`) | registered group handlers | merging a group into one task | scheduler |
| progress (`progress/mod.rs`, `task/progress_ext.rs`) | `progress:{id}`, the throttle of a context, a thread local | `report`, `task.progress()` | handler, worker, Redis |
| processor, middleware | routing table, hook chain | `process`, `before`, `after` | worker |
| command line and dashboard (`rediq-cli/src`) | the view, the tables of queues and workers, the marked row, the task list, the history and the alerts | keys, refresh | inspector, client |
| configuration and errors (`config.rs`, `error.rs`) | `GLOBAL_CONFIG` | `set_config`, `update_config`, getters | read by task, client |
| observability, macros | counters, none | none that other components read | |

How they interact: a client writes `task:{id}` and then pushes the id; a worker
pops the id, puts it on `active`, reads `task:{id}`, runs the handler with its
own copy of the task, and writes that copy back when it acknowledges it. A
failed attempt goes to `retry`, from where the scheduler pushes it back. The end
of a task triggers the loops over the tasks that depend on it, run by the worker
that acknowledged it. Administrators change the same containers at any time.

What is hard here:

- *Dequeue without a transaction.* `BLPOP`, `LPUSH active` and `HGET` are three
  commands: a worker may stop after any of them, and the queue may be paused or
  flushed between them.
- *Acknowledgement without a transaction.* `LREM active`, `HSET`, `ZADD retry`,
  then the dependents.
- *A copy held across the handler.* The task is read before the handler runs and
  written after it, whatever happened to the key meanwhile.
- *Administrative calls of six to nine commands* against tasks that move.
- *Two dependency loops and the linking loop of the client*, with no lock.
- *Retries* counted in the worker's copy and carried through the key.
- *Several servers*: several schedulers and workers on the same containers.
- *A thread local across awaits*: handlers suspend on one thread and go on on
  another, and several of them share each thread.
- *Counts read one by one* and a table that is replaced under a marked row, and
  alerts made of them.
- *A configuration that changes between two checks* that read it, and limits that
  every check reads for itself.
- *A chain of hooks around each attempt* that any hook may cut short, and one
  mutex around all handlers of a server.
- *A heartbeat of two commands on a clock*, with an interval and a time to live
  that nobody compares.

What makes each part correct:

- queue: a task is in one place at a time; it disappears only for a reason; the
  active list says who is being worked on; a paused queue stops; a unique key
  admits one task; attempts are counted exactly and bounded.
- dependencies: a dependent never runs early, is not forgotten, and does not run
  after a dependency that died.
- scheduler: a due task is moved once; a cron template makes one instance per
  tick and survives a crash.
- attempts: an accepted task met every limit; every `before` has its `after`; a
  retry waits as long as its number says; every accepted task comes to an end.
- workers: a stopped worker's registration goes away; a live one's stays; its
  heartbeat key is there while its heartbeat task runs and gone soon after that
  stopped.
- server: shutdown ends and does not cut off a task.
- progress: a handler reports for its own task; a processed task reads 100; what
  is left in Redis expires.
- dashboard: a key acts on the queue it is shown for; counts, operations per
  second and alerts mean something.

`PROJECT.json` lists the hazards one by one with the line where each one bites.

## 2. Modules

| Module | Models | Extends |
|---|---|---|
| `TaskQueue` | one queue: client calls, workers, the scheduler's moves, cancellation, `retry_task` | |
| `TaskLifecycle` | the abstract machine `TaskStatus` stands for | |
| `TaskDeps` | `depends_on`: linking, `check_dependents`, `fail_dependents` | `TaskQueue` |
| `Attempts` | what decides how often, when and with which hooks a task is tried: builder, `validate`, configuration, routing table, middlewares, mutex, backoff | |
| `Server` | a server process: its workers' registration, heartbeats and counters, and its shutdown | |
| `Presence` | how a worker is seen from outside: the server configuration, the heartbeat on a clock, the table of workers and the operation count of the dashboard | |
| `Scheduler` | the scheduler's loop: clock, scores, batch size, and the aggregation of groups | |
| `Progress` | progress reports of handlers: contexts, threads, throttle, the two commands of a report | |
| `Dashboard` | the dashboard's loop, keys, history and alerts, and the inspector's reads they are made of | |
| `TaskQueue_proofs`, `Attempts_proofs`, `Server_proofs`, `Presence_proofs`, `Scheduler_proofs`, `Progress_proofs`, `Dashboard_proofs` | theorems about these modules | these |
| `TaskDeps_proofs` | theorems about `TaskDeps`; the facts about lists come from | `TaskQueue_proofs` |
| `MCTaskQueue`, `MCTaskDeps`, `MCAttempts`, `MCServer`, `MCPresence`, `MCScheduler`, `MCProgress`, `MCDashboard` | instances for TLC | the above |

### TaskQueue

State. `queue`, `pqueue`, `delayed`, `retry`, `active`, `dead`, `dedup` and
`paused` are the Redis keys of the same names for one queue. `active` and `dead`
are lists of which only `LPUSH`, `LREM` and membership are used, so they are
kept as the number of entries of each id; `queue` keeps its order because
`BLPOP` and `LREM 1` depend on it. `data[t]` is the field `data` of
`task:{t}`, reduced to what the code branches on: absent (`Missing`), a string
key (`WrongType`, which `enqueue_batch` writes), or a task with this `retry_cnt`.
A worker is its position in `task_loop` (`pc`), the task it holds, the
`retry_cnt` of its copy and the status it is about to acknowledge. A submitting
call is `cpc`/`op`; a `cancel_task` or `retry_task` call is `apc`/`atask`.
`runs`, `fate` and `took` are history variables no guard reads; `fate[t]` is the
first reason why `t` stopped being the system's business. A call of
`cancel_task_with_unique` that freed a key ends in `freed`, so that
`UniqueKeyHonoured` can count: the calls of `enqueue` a key let through are at most
one more than the calls that freed it, whatever else became of its tasks. A crash
or a task that cannot be loaded frees no key.

| Action | Code |
|---|---|
| `Store`, `Dedup`, `ToQueue`, `ToPQueue`, `ToDelayed` | `enqueue` and its variants, `client/builder.rs` |
| `PDequeue` | the `pdequeue` script and `dequeue_task_any` |
| `CheckPause`, `BlPop`, `PushActive`, `Load` | `dequeue_task`, `load_task` |
| `BeforeFails`, `Start`, `Succeed`, `Fail` | `process_task`, with the mux mutex in `Start` |
| `AckRemove`, `AckStore`, `ScheduleRetry`, `NoDependents` | `ack_task`, `retry_task` of the worker |
| `Abandon` | a command that returns an error at that point, or a worker that dies and is replaced |
| `MoveDelayed`, `MoveRetry` | `move_expired_tasks_lua` |
| `SetPause`, `Flush`, `Expire` | `pause_queue`/`resume_queue`, `flush_queue`, the TTL of a task key |
| `StartCancel`, `CancelStep`, `CancelClean`, `CancelUnique` | `cancel_task`, `cancel_task_with_unique` |
| `StartRequeue` ... `RequeuePush` | `retry_task` of the client |

Abstractions. Time is not modelled: a member of `delayed` or `retry` may be due
at any moment, a handler may time out at any moment, a key may expire at any
moment. A handler is any outcome. Commands whose effect nothing modelled reads
(`EXPIRE`, the set of queue names, the `status` field, statistics) are folded
into the step beside them. The ids are fresh UUIDs, so each is submitted once.
`retry_task` needs an entry on `dead`, which in `TaskQueue` alone no step makes
(see the finding `dead_letter`); so `Next` does not offer `Requeue`, and
`TaskDeps`, where `fail_dependents` fills the list, does.

### TaskLifecycle

Stages `new`, `pending`, `delayed`, `retry`, `active`, and the ends `processed`,
`dead`, `dropped`; the handler starts only while a task is active, at most
`Limit` times. `TaskQueue` implements it under the mapping `StageOf`, which
derives the stage from the container or the worker that has the task
(`ImplementsLifecycle`).

### TaskDeps

Adds `pending_deps`, `task_deps`, the linking loop of `enqueue` (`StoreParked`,
`Link`) and the two loops a worker runs after an acknowledgement:
`ReadDependents` is their `SMEMBERS`; `RemovePending`, `CountPending`,
`ReadQueue`, `ReleaseDependent` are `SREM`, `SCARD`, `HGET queue`, `RPUSH` of
`check_dependents`; `ReadDependent`, `StoreDead`, `PushDead` are `HGET`, `HSET`,
`LPUSH` of `fail_dependents`; `CleanPending` and `DropDependents` are the `DEL`s.
`SkipDependent` is the push that fails and is only logged. A Redis set is
iterated in any order. `DepNext` replaces `NoDependents` by these loops.
`excused` is history: the dependents that no loop may reach any more, because
they were linked after the end of their dependency was handled or a loop was cut
off before them. `StrandedForCause` says that besides these only the expiry of
the task itself, or a dependency that was cancelled, flushed, lost with its
worker, could not be loaded or was itself killed by `fail_dependents` leaves a
task parked for ever.

### Attempts

What `TaskQueue` takes for granted about one task. A submitting call is a task's
`stage` from `new` over `size`, `range` and `built` to `waiting` or `refused`:
each look at the global configuration is a step of its own, because each takes
and releases the lock, and `SetConfig` may come between any two. `handlers`,
`fallback` and `serving` are the routing table, which belongs to whoever builds
the server until `run` takes it. A worker is its position in `process_task`: the
hook it is at, the mutex around the routing table (`lock`), the result. What a
caller may ask is a set of requests per task (`Requests`); sizes, priorities,
timeouts and delays are numbers, a cron expression is one of the shapes the code
tells apart, an empty string is `Empty`.

| Action | Code |
|---|---|
| `SetConfig` | `set_config`, `update_config` |
| `Handle`, `DefaultHandler`, `Remove`, `Clear`, `Serve` | `Mux`; `Server::run` |
| `Build`, `ValidateSize`, `ValidateOptions` | `TaskBuilder::build` and the calls of `Task::validate` |
| `Enqueue`, `EnqueuePriority` | the checks at the head of these calls |
| `BeforeOk`, `BeforeErr`, `Route`, `HandlerEnds`, `After` | `process_task`, `MiddlewareChain`, `Mux::process_with_context` |
| `Panics` | a panic of the handler or of a hook, which nothing below `tokio::spawn` catches |
| `AckProcessed`, `AckFailed`, `ScheduleRetry`, `MoveRetry` | the end of an attempt, `retry_delay`, the scheduler |

`limits` is history: the configurations that were in force during a call.
`gauge` is what a middleware would count that adds one in `before` and takes it
away in `after`, and `cut` by how much errors of other hooks and panics make it
drift: a failing `before` leaves `process_task` at once, so the hooks before it
never see their `after`; a failing `after` ends the chain; and a panic of the
handler or of a hook ends the worker (`gone`, which nobody starts again), so none of
the hooks the attempt is inside of sees its `after`. It also lets go of the mutex
and leaves the task on the active list (`stuck`). A hook may panic before or
after it counted.
`RetriesSpent` relates the counter, the stage and the intervals of a task;
`BackoffAsDocumented` is what the documentation says of the intervals (refuted,
see section 4).

### Server

The life of a server process around the task loop. `workers`, `meta` and `beat`
are the registry in Redis: the set of worker ids, the metadata of each (reduced
to `processed_total`) and its heartbeat key, of which the model knows whether it
has a TTL. `spc`, `shutdown` and `sigint` are the process; `wpc` is how far
`Worker::run` of each worker is, `hpc` the same for its heartbeat task. The ids
contain the server name: a process started again under a configured name has the
ids of the one before and meets what that one left in Redis. (The default name
holds a fresh UUID, which is the case of a server that starts once.)

| Action | Code |
|---|---|
| `StartServer`, `Interrupt`, `Drain`, `Exit` | `Server::run`, Ctrl+C, `graceful_shutdown` |
| `JanitorExit` | the janitor's own Ctrl+C listener, which sets the flag as well |
| `RegisterMeta` ... `RegisterTtl`, `RegisterFails` | `register`, `update_heartbeat`, and `?` in `run` |
| `Dequeue`, `HandlerFails`, `HandlerPanics`, `HandlerSucceeds` | one round of `task_loop` |
| `CountGet`, `CountPut`, `CountFails` | `increment_processed` |
| `LeaveLoop`, `UnregisterSet` ... `UnregisterBeat`, `UnregisterFails`, `Abort` | the end of `run` |
| `BeatCheck`, `BeatSet`, `BeatTtl`, `BeatFails` | the heartbeat task |
| `StopWorker`, `BeatExpires`, `Crash` | `stop_worker`, a TTL, the end of the process |

What a worker does with a task is in `TaskQueue`; here a handler succeeds, fails
or panics. A panic ends the worker but not its heartbeat, whose handle is only
dropped. One server name is used by one process at a time: with two,
`CountIsFresh` and `LoopIsListed` would not hold. With a metrics endpoint
(`Metrics`) `Exit` is never enabled, because the endpoint is in the joined set
and serves for ever; the instance has none.

### Presence

The clock of the heartbeat, in seconds. `config` is what `ServerBuilder` let
through; `Ttl` is `worker_timeout` times the multiplier, rounded down as the code
does. `beat[w]` is when the heartbeat key of a worker expires, if it exists and
has an expiry; `due[w]` is when its next tick is due, `half[w]` is between the
`SET`, which takes an expiry away, and the `EXPIRE`. A tick is handled at most
`MaxLate` after it is due: `Tick` waits for it. `missed`, `bare`, `stopped` and
`ended` are history: the ticks that failed in a row, a key left without expiry,
`stop_worker`, the time its heartbeat task stopped.

| Action | Code |
|---|---|
| `Build`, `Shutdown` | `ServerBuilder::build`, the flag |
| `Register`, `SetBeat`, `ExpireBeat`, `BeatFails` | `register`, the heartbeat task, `update_heartbeat_for` |
| `Succeed`, `Unregister`, `End`, `StopWorker` | `increment_processed`, the end of `run` and of the process, `stop_worker` |
| `Panics`, `Joined` | a panic in the worker's task; that `graceful_shutdown` has joined all workers |
| `ListWorkers`, `ListFails`, `GetWorker`, `EndRefresh` | `list_workers` and the dashboard's use of it |

The heartbeat task looks at the flag before it waits for the next tick, and the
worker goes on until its task is done: the key of a worker that drains for long
goes while it still works. And a worker whose task panicked is gone while its
detached heartbeat task goes on setting the key, until the flag is set or the
process ends (`End`, from `panicked`: the program leaves `main` after `run`, or the
process dies). So the key tells of the heartbeat task and not of the worker, and
`BeatMeansAlive` says what that is worth: the key is there as long as the task
runs, a panicked worker's too, and is gone within a TTL after the task stopped,
even of a worker that still drains. The behaviours are divided by `Horizons`, records of bounds of
which each behaviour takes one.

### Scheduler

What `TaskQueue` abstracts from in the moves, and aggregation. `zset` and
`score` are the members of `retry` and `delayed` and when they are due, `queue`
what has been pushed; `group` and `count` are the ZSet and the counter of one
group, `gone` its members whose data expired. Each scheduler has a position in
its loop (`pc`), its `tick_count` as far as the periods tell it apart, the `now`
it took, and, in an aggregation pass, the ids it read, the tasks it loaded, the
rest of its `for` loop and whether the aggregator made a task.

| Action | Code |
|---|---|
| `Submit`, `JoinGroup`, `CountMember` | `enqueue_delayed` or a worker's retry; `ZADD` and `HINCRBY` of a grouped task |
| `StartTick`, `MoveRetry`, `ReadClock`, `MoveDelayed`, `Sleep` | `Scheduler::run`, `check_retry_tasks`, `check_delayed_tasks`, the script |
| `Scan`, `LastPage` | `scan_match` and the loop over its pages |
| `ReadCount`, `ReadGroup`, `LoadMember`, `Aggregate`, `Refuse` | `HGET count`, `ZRANGE`, `HGET data`, the aggregator |
| `RemoveMember`, `ResetCount`, `StoreBatch`, `PushBatch` | `ZREM`, `HSET count 0`, `HSET`, `RPUSH` |
| `CommandFails`, `Crash` | an error, which ends the pass it is in; the end of the process |

A `Server` starts its scheduler without an aggregator; aggregation is what a
program that calls `Scheduler::with_aggregator` gets. An aggregator is any
outcome: a task, none, an error, or none registered. The cron pass is not an
action because it changes nothing: `check_cron_tasks` reads with `GET` what
`enqueue_cron` wrote with `HSET`, the error ends the pass, and `run` logs it.

### Progress

An attempt of a task has a `ProgressContext`. `process_task` puts it into a
thread local, reports 0, runs the handler, clears the thread local and reports
100 for a success. A tokio task may continue on another thread after every
await, so an action is what runs between two awaits, on any thread `th`: the
thread local (`local`) that `Begin` sets need not be the one the handler looks
at (`AskTask`) or `Finish` clears. `report` is how far each reporter is with its
`HSET` and `EXPIRE`; a worker reports itself (`own`) and through what its
handler spawned (`spawned`), which may outlive the handler. `hash` is
`progress:{id}`: its value and whether it has a TTL. `cloned` and `cut` are
history: the tasks something spawned reported for, and those with a report that
stopped halfway.

| Action | Code |
|---|---|
| `Begin`, `BeforeFails`, `StartHandler`, `Finish`, `Ack` | `process_task` around the handler, `worker.rs` |
| `AskTask`, `DropGuard` | `task.progress()`, `ProgressGuard` |
| `AskContext`, `HandlerReports` | `HandlerContext` |
| `SpawnedReports` | a clone of the context in a spawned task |
| `HandlerReturns`, `HandlerTimesOut` | the end of the handler; the timeout drops it wherever it waits |
| `SetCurrent`, `SetTtl`, `CommandFails` | `report_with_message` after the throttle |
| `HashGoes`, `Crash` | TTL or `cancel_task`; the end of the process |

The time of the throttle is not modelled: a report below 100 may be skipped at
any moment (the call then changes nothing), one of 100 never. Messages,
timestamps and the sum that `increment` adds to are left out.
`get_task_progress` is what a reader sees of the hash; `DoneIsFull` is stated
with it. Left out as well: a panic of a handler, which leaves the context in the
thread local as `BeforeFails` does and reports nothing any more; and the function
`get_progress_context` (`task/progress_ext.rs:129`), which is public and hands out
the context of the thread without comparing ids as `task.progress()` does, so what a
caller does with it is its own affair and `OwnReports` does not hold of it. In
`SpawnedReports` a clone starts its reports while the handler runs; one it starts
later is one started now whose commands come late.

### Dashboard

One loop: `Draw`, a key or none, `Check`, and when it is time a refresh.
`ListQueues` is `SMEMBERS`; `ReadCount` is one count of
`queue_stats`, five for each queue, those of different queues in any order
(`join_all`); `ReadFails` leaves a queue out of the new table; `EndRefresh`
replaces the table by the queues that answered (`Answered`), in the order
`SMEMBERS` gave them, which is any, and moves the marked row up if it has to. The keys of the
main view are `MoveRow`, `PauseOrResumeRow`, `FlushRow`, `ShowHelp`,
`EnterList`, and `Quit`; those of the task list `PreviousTask`, `NextTask`,
`ReloadList`, `LeaveList`. Meanwhile `MoveTask` moves a task from a container to
where some client, worker or scheduler may put it (which of them and when is in
`TaskQueue`) and may count it as completed, and `ListQueue` makes a queue known.

A refresh ends with a point in the history (`AddPoint`, `trend`) and with the
alerts its totals ask for (`Alerts`, `UpdateAlerts`); the refresh before the loop
(`periodic` is still `FALSE`) has no alerts. A refresh whose `SMEMBERS` fails
(`ListFails`) keeps the table, repeats its point and asks for the same alerts.

`shown`, `moved` and `target` are history: the marked queue on the screen, the
tasks that moved during the refresh, the queue a key acted on. So are `floor`
and `truth`: how many of the completed tasks of a queue the refresh is certain
to see, and the alerts that had to be up and could be up by where the tasks are.

Left out: status messages, and the table of workers, which is in `Presence`; a
key that does nothing is `NoKey`. So is the second page of the task list, which
exists in the state and which no key reaches. The five rings of the history are
filled alike; one of them is in the model.

## 3. Checks

The runs of the queue have two workers. Workers of one server exclude each other in the
handler; `MCTaskQueue` gives both to one server, `MCTaskDeps` gives each its own.
The workers are interchangeable (`ServerOf` relates every pair alike), so they
are a symmetry set where nothing temporal beyond a step property is checked.

| Run | Question |
|---|---|
| `queue` | two tasks of one unique key, in one of two mixes. *Faults*: submitted as regular, delayed or batched; pause, flush, expiry, failing hooks, failed commands and crashes. *Cancels*: a regular and a priority task, one call of `cancel_task` or `cancel_task_with_unique`, failed commands and crashes. One copy, an exact active list, no unexplained loss (a cancellation takes one entry and nothing else), exact counting, at most one task taken after a pause, one admission for a unique key and for each cancellation that freed it, the lifecycle implemented |
| `deps_fanout` | two dependents of one task, with `cancel_task` or `retry_task`, expiry, failed commands and crashes inside the loops. Nobody queued twice, nobody early, and nobody parked for ever without one of the known causes |
| `deps_diamond` | one dependent of two tasks that end concurrently, without failures of Redis. Released or dead in the end, not before; every plain task settles |
| `attempts` | two tasks built under one configuration, validated under another and tried by two workers of one server, with two middlewares; twice a hook fails, or a hook or handler panics. An accepted task met every limit at the moment its check read it, gauges say what runs, each failed attempt is counted and tried again once, every accepted task comes to an end unless both workers are gone |
| `server_lifecycle` | one server with two workers, started twice, with crashes, panics, failed commands, expiring heartbeats, `stop_worker`. Whoever is listed has metadata, whoever takes tasks is listed, an exit leaves no registration, no count is lost, shutdown ends |
| `presence` | six configurations of which three are refused, one worker's heartbeat for seven seconds with failed ticks, `stop_worker`, a panic, shutdown and death; and refreshes of the table of two workers. The key outlasts the ticks its heartbeat task may miss, and goes after the task stopped; the operation count counts each task once |
| `scheduler_loop` | one scheduler with an aggregator, a retry, two delayed tasks due together, two members of a group, one crash or failed command anywhere. Nothing early or twice, everything due is pushed in the end, members in one batch or for a reason in none |
| `progress` | two workers on two threads, a handler that spawns, time-outs, a retry, and one failed command, crash, expiry or cancellation. Nobody reports for another task, a processed task reads 100, no progress hash lacks a TTL for no reason |
| `dashboard_loop` | two queues that appear, cannot be read or change their order, with every key; and two tasks of one queue that move while it is counted. The marked row and task exist, a key acts on the marked queue, counts are off by no more than what moved, alerts say what the tasks say |
| `dead_letter`, `scan_hangs`, `retry_intervals` | statements of the documentation that the code does not keep: see section 4 |

Bounds, and why they are enough to be interesting: two tasks are what it takes
for order, priority and duplicates to matter; two workers for every race between
workers; `MaxRetry = 2` has a first and a last attempt with a retry between
them, and 1 the case where the first is the last. Three tasks are the smallest
diamond and the smallest fan-out. One administrative call is enough for its races with
workers; two concurrent `retry_task` calls are not covered (and would queue a
task twice, as the hazard list says). The state spaces are finite without
constraints: a task is submitted once, retried at most `MaxRetry` times, and the
history counters are bounded by what they count.

`queue` takes one of two mixes (`MCNext`), because TLC cannot finish both at once:
what is administered for the whole queue and what fails around a handler in one,
cancellation in the other, and failed commands and crashes in both. The second
task is urgent, so that the priority queue and the list are read in turn.

`attempts` asks for three attempts of one task, so that there is a retry after a
retry, and for one or none of the other; `MaxUpdates = 1` puts a change of the
configuration (a larger size, a smaller range) between any two checks,
`MaxCuts = 2` two errors or panics into any hooks and handlers of any attempts:
two, so that one task may be cut short in both workers, or one worker lost and the
other go on. Two hooks are what it takes for one to be cut off by the other. That
the interval stays at its cap is a theorem (`BackoffDoubles`). The run does not check for deadlock:
when both tasks have ended nothing is left to do.

`server_lifecycle` needs two workers for the join to wait for one after the
other ended, and two starts (`MaxStarts`) for a process to meet the remains of
the one before. `MaxCount = 1` lets each worker count one success per
registration; more of them repeat the same cycle.

`presence` takes one of two bounds. With a clock of seven seconds and two
failures one worker beats: under an interval of 1 s and a TTL of 4 s, which
outlasts a missed tick; under a TTL of 3.5 s, which is rounded down to just more
than interval and delay; and under a TTL shorter than the interval, of which
nothing is promised. Without a clock two workers process a task each while the
dashboard refreshes three times and one command fails: the least for a worker to
fall out of the table and come back. The run does not check for deadlock,
because the clock stops.

`scheduler_loop` shortens the periods (`DelayedEvery = 2`, `GroupEvery = 1`
instead of 5 and 2: there are still ticks with and without a delayed pass) and
the batch (`BatchSize = 1` with two tasks due instead of 100). `MaxTime = 1` has
tasks that are due, will be, and never are; `MaxSize = 1` with two members has
batches of one and of two, and a member that joins while the other is being
aggregated. `MaxFaults = 1` puts a crash or an error at every point.

`progress` has two workers and two threads, the least for a context to be met by
the wrong handler; `Full = 2` stands for 100, with one value between it and 0,
and `Full + 1` is the value that is refused. One worker's handlers spawn
(`Spawners`). `MaxTries` gives one task two attempts, `MaxFaults = 1` one
failure anywhere. The run does not check for deadlock: when all attempts are
used up the model stops, as the program has nothing more to do. Threads are
interchangeable, hence the symmetry.

`dashboard_loop` puts both tasks into one queue, so that counts of 0, 1 and 2
occur and the task list has a second line. It takes one of two `Settings`. With
somebody at the keys there is a second queue, which changes the table, and tasks
move only between refreshes; with nobody at the keys there is one queue, and both
tasks move freely during a refresh (`moves = 2`): a task counted twice, and one
not counted. Keys and counts meet in no property, which is why the two are
divided. The thresholds are 1 dead task and 50 %, so that two tasks are below
and above both; `max_points = 1` makes the history forget; `PageSize = 2`. The
tasks are interchangeable, hence the symmetry.

Fairness of `Attempts`: weak fairness of each worker, which loops until it panics,
runs handlers with a time limit and hooks, and of the scheduler's move of each
retry. What user code must do is part of this: a handler returns, panics or is
ended by its time limit (one that blocks its thread without an await is not), and
a hook, which has no time limit, returns or panics. After a panic the worker is
gone; `AttemptsEnd` promises nothing once all of them are. The mutex of tokio is handed over in the order of
the requests, which is more than weak fairness and not needed: the rivals of a
waiting worker run out of attempts.

Fairness of `Scheduler`: weak fairness of the loop of each scheduler, which
sleeps for a second and goes on; none of clients, of the clock, or of failures.

Fairness of `Server` (`Fairness`): weak fairness of each worker and each
heartbeat task, which tokio schedules and which end every wait (`BLPOP` and
handler have time limits), and of what `run` does after Ctrl+C. A handler may
panic here as well; one that never returns is not modelled. None of Ctrl+C,
crashes, failures or restarts.

Fairness (`DepFairness`): weak fairness of each submitting call, of the
scheduler's moves of each task, and of each worker. The code justifies it: a
client that began a call goes on, `task_loop` and `Scheduler::run` are endless
loops, and a handler returns or is ended by `options.timeout`. No fairness is
assumed of failures, expiry or administrators, and the two live runs have none
of them: with a crash, a panic or a lost command nothing brings an abandoned task back,
and the fates `abandoned` and `unloadable` record exactly that.

What the runs show of a property that fails when one thing in the code changes
is recorded as the mutants in `PROJECT.json`; the mutated operators stand beside
the originals and are used nowhere else.

## 4. Where code and documentation disagree

- `dead_letter`: a task that used its last attempt is not put on the dead list;
  only dependents of a dead task are.
- `scan_hangs`: `scan_match` starts over on every call, so with more keys in the
  database than one page the loop over the pages of groups does not end, and the
  scheduler it runs in moves nothing any more.
- `retry_intervals`: `retry_delay` adds one to a counter that the worker has already
  incremented, and caps the exponent at 6: retries wait 4 s, 8 s up to 64 s.
  `README.md:32` says 2 s, 4 s, 8 s, the comment at `task/mod.rs:202` at most 60
  seconds, and the unit test at `task/mod.rs:344` first 2 s: it calls the function
  with a counter of 0, as no worker does. `BackoffAsDocumented` is what they say;
  the theorem `BackoffDoubles` is what the code does.

Seen in the source and without a run:

- A paused queue still loses a task to each worker that waited for it: `EXISTS
  pause` and `BLPOP` are two commands (`server/worker.rs:275`), so a worker that saw
  no pause takes what comes next, against `docs/cli.md:107`, "Workers will not
  dequeue new tasks from paused queues". `PauseLeaksOne` states that it is one task
  for each worker and no more.
- A dependent that was declared dead is queued when another of its dependencies
  succeeds later, because `fail_dependents` deletes the set that
  `check_dependents` counts (`storage/dependencies.rs:91`, against
  `task/builder.rs:130`). `NeverEarly` states what is left of the promise.
- Two dependencies of one dependent that end on two workers at the same time:
  `SREM` and `SCARD` are two commands (`storage/dependencies.rs:88`), so both may
  find nothing pending, and both queue the dependent, which then runs twice. This
  is why `deps_diamond` does not list `SingleCopy`, as `deps_fanout` does, where
  a dependent has one dependency.
- A dependent linked after its dependency's end was handled, or whose dependency
  was itself killed by `fail_dependents`, waits for ever
  (`storage/dependencies.rs:72`). Both are causes in `StrandedForCause`.
- The default priority of 50 is refused when the configured range leaves it out,
  and `priority()` clamps to 0..100 whatever the range. `default_max_retry` and
  `default_timeout` are read by nobody.
- A failing `before` hook keeps the hooks before it from their `after` and leaves
  the task on the active list for ever (`cut` and the stage `stuck` of `Attempts`).
- A panic of a handler or hook ends its worker: nobody starts it again, its task
  stays on the active list, the hooks it is inside of get no `after`, and its
  registration and heartbeat stay (`Panics` of `Attempts` and `Presence`,
  `HandlerPanics` of `Server`). The registry lists such a
  worker like any other.
- `rediq purge --workers` calls a worker stale that has processed nothing for a
  while: it reads `last_heartbeat` of the metadata, which only `register` and
  `increment_processed` write (`rediq-cli/src/commands/purge.rs:50`, against
  `docs/cli.md:366`). `purge --queues` takes a queue with nothing but priority
  tasks for an empty one.
- The heartbeat ends with the shutdown flag while the worker may still drain; the
  multiplier and the interval are not compared with each other by
  `ServerBuilder`, so a live worker's key may come and go (the third
  configuration of `presence`).
- The dashboard's first refresh shows all tasks ever processed as operations of
  one interval; the comment that 60 points are 5 minutes at 500 ms is off by a
  factor of ten; a failed `HGET` of the completed tasks reads as none, so one
  retry is an error rate of 100 %.
- The no-op metrics have no labels, so a `record_*` call on them would panic;
  nothing in the library calls one.

- `cancel_task` finds a task on the active list, removes it and returns
  `Some("active")`, documented as "Task was cancelled" (`client/builder.rs:397`);
  the worker that holds it goes on, writes the hash again and may schedule a
  retry. `TaskQueue` has these steps; `docs/cli.md:177` says the command "Only
  works for tasks that are currently in the pending queue".
- `enqueue_batch` stores tasks with `SET` (`client/builder.rs:322`); the worker
  reads them with `HGET` and gives up, leaving the id on the active list for
  ever. In `TaskQueue` this is `WrongType` and the fate `unloadable`.
- `task.progress()` may return `None` inside a handler, or the context of an
  earlier attempt with its own throttle, because the thread local was set on the
  thread the worker ran on before an await; the documentation of the trait
  (`task/progress_ext.rs:49`) and `README.md:223` have no such case. The
  `HandlerContext` does not depend on it. A failing before hook leaves the
  context behind.
- A report that is throttled away is lost for `increment` as well, and a report
  without a message keeps the message of the one before it in the hash.
- `queue_stats` and `flush_queue` look at the plain list only, so tasks with a
  priority are neither counted nor flushed.
- A key typed while the dashboard refreshes is taken after the next draw, and
  acts on the row that is marked then. The task list never leaves its first
  page, because `total_available` is what the first page returned
  (`rediq-cli/src/dashboard.rs:790`).
- `stop_worker` deletes the worker's heartbeat, which no worker reads; the worker
  goes on, and the next tick restores the key (`client/mod.rs:178`, against
  `docs/cli.md:247`).
- Cron tasks never run: their template is a hash, and the scheduler `GET`s it
  (`server/scheduler.rs:206`).
- A group of `max_size` members may never be aggregated: members that join while
  a pass runs lose their place in `count` (`server/scheduler.rs:351`); a partial
  group waits for ever, the grace period is not looked at; and the scheduler of a
  `Server` has no aggregator at all (`server/mod.rs:203`), whatever
  `aggregator_config` says.
- The janitor's pattern has one colon too many and matches no key
  (`server/janitor.rs:123`); its loop over pages is the one of `scan_hangs`.
- With metrics enabled `run` does not return after Ctrl+C (`server/mod.rs:187`).
- `docs/configuration.md:542` gives the heartbeat a TTL of twice the heartbeat
  interval; the code one of twice the worker timeout, set by a second command
  that may not be reached.

## 5. Proofs

### TaskQueue

`TaskQueue_proofs` proves, for any sets of tasks, workers and administrators, any
priorities, unique keys and retry limit, and any choice of client calls and
failures:

| Theorem | Statement |
|---|---|
| `TypeCorrect` | `Spec => []TypeOK` |
| `OneCopy` | `Spec => []SingleCopy` |
| `RunsAreBounded` | `Spec => []RunsBounded` |
| `CounterIsExact` | `Spec => []CounterExact` |

The only assumption is `ConstantsAssumption`, the types of the constants.

The argument. `TypeOK` is not inductive: `PushActive` indexes `active` with the
task a worker holds, so one must know that a worker in the middle of a round
holds one. `TypeInv` adds that. `SingleCopy` is stated with a set of places; the
inductive form `CopyInv` says it container by container: the queue has no
repetition, the four containers are disjoint, what a worker holds is in none of
them, no two workers hold one task, and a task not yet made visible is nowhere -
the last one is what makes a client's push safe. Most steps only shrink this
(`CopyShrink`), or move a task from one place to another (`CopyMove`); the
worker's, scheduler's and client's moves are instances. `RunsBounded` needs to
know what the counter of a worker's copy means at each step: `CountInv` relates
`data`, `cnt` and `runs`: a task that waits has an attempt left and, while its
data is there, the right counter; a copy about to run counts the runs so far, a
running one is one behind, and a failed one has caught up before it is written
back. It uses `CopyInv`: two workers with one
task would count it twice.

What becomes of a task, from the same assumption and on top of these invariants:

| Theorem | Statement |
|---|---|
| `ActiveListIsExact` | `Spec => []ActiveListExact` |
| `NothingLost` | `Spec => []Conservation` |
| `PauseStops` | `Spec => []PauseLeaksOne` |
| `UniqueKeysHonoured` | `Spec => []UniqueKeyHonoured` |
| `ImplementsLife` | `Spec => ImplementsLifecycle` |

The first two are one argument, `LossInv`: neither is inductive, because an entry
on the active list is right only if the worker behind it still works on a task
that is not settled, and a task is not lost only if it is placed somewhere.
`TaskInv` says both of one task - `Accounted`: what is placed is visible and in
the system, what is not yet visible has no entry and no fate, what is visible
and live is placed; `ListedRight`: one entry at most, there while a worker is
between dequeue and acknowledgement, and later only as the mark of a task that
was abandoned, could not be loaded or was cancelled under a worker. `HandSettled`
says that a worker that released dependents has settled its task first. A step
touches one task, so each step is proved for that task and for the others it
leaves alone. `PauseInv`: a worker counts what it
takes only while the queue is paused, and one that waits in `BLPOP` has taken
nothing since. `UniqueInv` counts for each key (`KeyInv`): the calls that have got past the
dedup script with it are at most the cancellations that freed it, and one more only
while it is in the dedup set. `Dedup` adds a call and puts the key in, `CancelUnique`
takes it out and adds a cancellation, and no other step, a crash least of all,
touches either. The second half of `UniqueKeyHonoured` needs that a cancellation
comes to the key only after it found its task, and that fates are final; without
dependencies the dead list, where a processed task could be found as well, stays
empty.

`ImplementsLife` is the refinement: the initial states map to the initial state
of `TaskLifecycle`, and each step is a step of it or a stutter. A step moves at most
one task to another stage; only a flush ends many at once, and `TaskLifecycle` has a
step for that (`DropPending`). `StageInv` collects what the steps ask for: the invariants above place
a task in exactly one stage (`StageFacts`), `CountInv` bounds the handler's starts,
a worker that ends an attempt has started it (`Attempted`), and a task that is not
visible yet has no end. The rest is one lemma per kind of step: a worker that keeps
its task (`KeepsStages`), lets it go (`LetsGo`), a move between containers.

Every property of the runs of `TaskQueue` is a theorem, but for the refuted one.

### TaskDeps

`TaskDeps_proofs` proves, from `ConstantsAssumption` and `DependsOnAssumption`, for
any graph of dependencies (cycles too), any tasks, workers, administrators and
failures:

| Theorem | Statement |
|---|---|
| `DepTypesCorrect` | `DepSpec => []DepTypeOK` |
| `LinksWait` | `Admins = {}` and no `"expire"` in `Env`: `DepSpec => []LinkedIsPending` |
| `OneCopyOfDependents` | `Admins = {}` and no task with two dependencies: `DepSpec => []SingleCopy` |
| `NeverRunsEarly` | `Undisturbed`: `DepSpec => []NeverEarly` |
| `OnlyStrandedForCause` | `Undisturbed`: `DepSpec => []StrandedForCause` |

The invariants of `TaskQueue` do not carry over, because `DepNext` has steps and
program counters `Next` lacks; the facts about lists do. `DepTypes` adds to the
types that a worker has a dependent in its hand wherever a loop writes one.

`LinksWait` needs both assumptions, and the code is the reason: `retry_task` revives
a task whose dependents have stopped waiting for it, and `fail_dependents` wipes
what is pending of a dependent whose hash has expired without declaring it dead,
while other dependencies still list it. With neither, a task that has ended stays so (`CalmStep`). What is
pending shrinks in two ways. `SREM` takes out a task that has ended, and `LoopKnows`
has that of every loop. `DEL` takes out everything: after a release because nothing
was pending when `SCARD` answered, so that nobody live was bound to the dependent
then, and nobody is bound to a stored task later; after a failure because the
dependent is dead. A call that has stored a task but not linked it yet counts as
bound (`Bound`), or a link made late would refute the invariant.

The last three are about narrow graphs. `Undisturbed` says that there are no
administrators, and that a task others depend on has at most one dependency of its
own; a dependent may wait for any number of such tasks, and everything else may
fail, expire, pause or be flushed. The code is the reason for both parts. A task
with two dependencies can be queued twice, by the loops of two workers (see section
4); if others depend on it, it may be processed once and dead once, and
`fail_dependents` then wipes what its dependents still wait for. And a task that is
cancelled while it runs, or revived twice by `retry_task`, can end twice in the same
way. `deps_fanout` covers one administrative call, for the graph it has.

Three invariants, each on top of the one before. `NarrowInv`: a task with at most one
dependency is alone - queued once, in one container, or with one worker through the
loops after its end - is live while it is anywhere, and is nowhere before the one
loop that may push it has come to it (`Fresh`); the loops know the end of the task
they follow (`LoopOf`). `CopyInv` cannot be reused for this, since it knows nothing
of a push that a worker makes. `OrderInv`: what is no longer pending of a dependent
was processed, unless a dependency is dead; so a worker that counted none may
release it (`FoundReady`), and this stays so because fates are final. `ReachInv`: as
long as a dependent has neither a fate nor a place nor a cause, some loop comes to
it for each dependency still pending, and when none is, a worker has it in its hand
(`StillReached`). The proofs are by the forms a step of a worker can take
(`InRound`, `AtDependents`), because `DepNext` has too many steps to look at each
for each invariant.

Only model-checked: `DependentsResolved`, which is liveness, and `NeverEarly` and
`StrandedForCause` with an administrator.

### Attempts

`Attempts_proofs` proves, from `AttemptsAssumption` (the types of the constants,
finitely many workers), for any configurations, requests, routing tables,
middlewares and bounds:

| Theorem | Statement |
|---|---|
| `AcceptedWithinLimits` | `Spec => []AdmittedWithinLimits` |
| `GaugesStayExact` | `Spec => []GaugesExact` |
| `RetriesBackOff` | `Spec => []RetriesSpent` |
| `BackoffDoubles` | `Spec => []IntervalsDouble` |
| `AttemptTypes` | `Spec => []TypeOK` |

Each rests on an invariant of its own. `RoundInv` has the types but for the
gauges', and says that a worker in a round has a task no other worker has
(`Alone`). `AdmitInv` says, call by call and check by check, which limits the
checks behind a client have seen kept; the configuration may have changed since,
so it speaks of what was read and not of the configuration now. `GaugeInv` counts
the workers inside a middleware: one step changes one worker, so it adds that
worker to the set, takes it out or leaves the set alone, and the gauge moves with
it (`InsidersChange`, from the facts about the cardinality of finite sets). That a
gauge is never negative, which `TypeOK` needs, is a consequence. A panic takes its
worker out of every middleware it is inside of and adds one to `cut` of exactly
these. `BackoffInv`
says of each task that its intervals are `Interval(1)`, `Interval(2)` and so on, and
compares their number with the retry counter: they are equal while a task waits
or is tried, and the interval lags one behind from the acknowledgement of a
failure until the retry is scheduled, or for good when the task is dead. Powers of two are never unfolded: the clamp leaves five exponents, and
`DelayIsInterval` is arithmetic about each.

Only model-checked: `AttemptsEnd`, which is liveness.

### Server

`Server_proofs` proves, for any servers, workers, bounds and choice of events,
from `ServerAssumption` alone (the types of the constants):

| Theorem | Statement |
|---|---|
| `ServerTypes` | `Spec => []TypeOK` |
| `AlwaysDescribed` | `Spec => []ListedIsDescribed` |
| `AlwaysListed` | `Spec => []LoopIsListed` |
| `ExitIsClean` | `Spec => []CleanExit` |
| `CountStaysFresh` | `Spec => []CountIsFresh` |

`TypeOK` is inductive: its last conjunct says that tasks end with their process.
The others follow from `RegistryInv`, which says of each worker, step by step,
what its registration has behind it: metadata from `reg_set` on, the entry in
the set from `reg_beat` on, and on the way out first the entry gone, then the
metadata. `CleanExit` alone is not inductive because it says nothing before the
process has stopped, `ListedIsDescribed` because it does not know that an
unregistering worker has left the set when its metadata go. A step changes one
worker (`Only`), so each step is proved for that worker and lifted by
`OnlyPlaced`.

### Presence

`Presence_proofs` proves, from `PresenceAssumption`, for any workers, any
configurations and any bounds:

| Theorem | Statement |
|---|---|
| `BeatsWhileAlive` | `Spec => []BeatMeansAlive` |
| `OpsAreHonest` | `Spec => []OpsHonest` |
| `PresenceTypes` | `Spec => []TypeOK` |

`BeatMeansAlive` compares the key with the clock at one moment; the invariant
behind it says how the two are tied. `OnTime`: while a worker beats, the clock is
at most `MaxLate` past its due tick. `Lasts`: the key of a worker that beats
expires no earlier than a TTL after the last tick that did not fail, which is
`missed + 1` intervals before the due one. `Ends`: the key of a worker whose
heartbeat task has stopped expires within a TTL of that moment, or was left without
expiry. A panic changes neither: the heartbeat task is not the worker's. With `Built`,
which says that nobody beats before there is a configuration, the arithmetic of
one tick is all that is left.

`OpsHonest` is about sums over tables that a refresh replaces. `Books` ties the
three numbers together: the total the dashboard remembers is that of its table, and
what it has counted lies between this and this plus what dropped out of the table.
`Read` says of one worker that what was read of it never runs ahead of what it did
nor behind what the table shows. Sums are folds over recursive functions, so the
lemmas before it prove what is needed of them from scratch: the recursion of the
library has one solution on every finite set (`UnfoldsExists`, `UnfoldsOnce`, by a
smallest counterexample, since induction is out of reach), and sums can be split
and compared (`SumTakesOut`, `SumSplits`, `SumGrows`).

### Scheduler

`Scheduler_proofs` proves, from `SchedulerAssumption` (the types of the
constants, finite sets, periods above 0):

| Theorem | Statement |
|---|---|
| `SchedulerTypes` | `Spec => []TypeOK` |
| `NeverBeforeTime` | `Spec => []NotBeforeTime` |
| `MembersStayAccounted` | `Spec => []MembersAccounted` |
| `OneBatchEach` | `Spec => []OneBatch` |

The first three hold for any number of schedulers. `NotBeforeTime` needs to know
that the `now` a scheduler took is not ahead of the clock and that a task is
submitted once (`TimeInv`). `MembersAccounted` is inductive with the types.
`OneBatch` is about one scheduler (with two it is false), and `BatchInv` says
what that scheduler's pass relies on: until its first `ZREM` the ids it read are
in the group, because only it takes members out; afterwards those it removed are
in no batch and have no other fate, and nobody puts them back. A pass that ends,
however it ends, gives each of those one batch or one fate (`BatchEnds`).

### Progress

`Progress_proofs` proves, from `ProgressAssumption` (the types of the constants
and that the "none" values are none of theirs):

| Theorem | Statement |
|---|---|
| `ProgressTypes` | `Spec => []TypeOK` |
| `ReportsAreOwn` | `Spec => []OwnReports` |
| `NoHashForEver` | `Spec => []HashesExpire` |
| `DoneReadsFull` | `Spec => []DoneIsFull` |

`TypeOK` needs to know that a worker in a round has a task, and `OwnReports` that
a handle lives no longer than the handler: together they are `OwnInv`, which
says nothing about `local`, so no thread matters. `HashesExpire` is inductive
with it: whoever writes a hash is the excuse for it until its `EXPIRE`, and a
step that ends a report early leaves its task in `cut` (`StaysExcused`).
`DoneIsFull` needs three facts about the end of an attempt: workers have
different tasks that nobody else may begin (`Alone`), what was spawned reports
only for tasks in `cloned` (`SpawnsKnown`), and while a success is being
acknowledged 100 is on its way or has arrived (`LastIsFull`). A hash that
reads 100 then stays so, because nobody writes anything else (`StaysSettled`).

### Dashboard

`Dashboard_proofs` proves, from `DashboardAssumption` (the types of the constants,
finite sets, a page of at least one task), for any queues, tasks and settings:

| Theorem | Statement |
|---|---|
| `MarkedRowHolds` | `Spec => []MarkedRow` |
| `CountsAreNear` | `Spec => []CountsNearTruth` |
| `AlertsAreHonest` | `Spec => []AlertsHonest` |
| `DashboardTypes` | `Queues # {}`: `Spec => []TypeOK` |

(Without any queue no row could be marked, and the first one is.) `RowInv` adds to
`MarkedRow` where it could be lost: no target is left over when a key is taken, and
the row on the screen is still the marked one then. `AllNear` is `CountsNearTruth`
as an invariant; what happens to it when a task moves is arithmetic about one set
that loses the task and another that gains it (`StaysNear`), and when a count is
read, that the set read is the tasks that stayed and some that moved (`NearSet`).
`AlertsHonest` needs a third fact about a refresh in progress, that the completed
tasks read lie between those before it and those now (`FloorInv`). At its end
the totals are sums over the queues that answered; counted queue by queue, tasks
are counted once (`SumOfParts`), so each total is between the tasks that stayed and
those with the ones that moved (`TotalsNear`), and more failures with no more
completed tasks never lower the rate (`RateGrows`). `AlertInv` carries that verdict
through draws, keys and refreshes that fail. The lemmas about sums are those of
`Presence_proofs`; the two modules have different variables and cannot share them.

### What is left to TLC

Liveness under fairness (`DependentsResolved`, `AttemptsEnd`, `ShutdownEnds`,
`DueIsMoved`), since the proof system used does not reason about `ENABLED`; and
the two properties of `TaskDeps` in the presence of administrators. Every other
invariant of a passing run is a theorem.

## 6. Not modelled

- Cron (see section 4): nothing it does is reachable. A template is a hash, the
  scheduler reads it with `GET`, and the error ends the pass.
- The janitor's deletions: its `SCAN` asks for `rediq:task::*`, which no key
  matches. Its loop and its end are in `Server`.
- Several queues of one worker: `task_loop` tries one after the other, each with
  the commands `TaskQueue` has; a starving queue would be the question to ask.
- Connection pool, Redis Cluster and Sentinel: the code picks a client
  configuration and goes on; fail-over, in which acknowledged writes can be lost,
  is outside it.
- Two concurrent administrative calls about one task.
- Metrics, the HTTP endpoint, the drawing of the dashboard, the other commands of
  the command line, macros: output or single calls of what is modelled.
- The contents of payloads and the error types: pure functions without state.

Hazards that `PROJECT.json` lists without a property, because the code does go wrong
there and an instance that has them cannot list the property: the double push of a
dependent with two dependencies, two `retry_task` calls of one task, two processes
of one server name, two schedulers that aggregate one group, and the members whose
count is reset. A unique key that outlives its task shows nothing wrong by itself.

## 7. Plan

Modules: several queues of one worker in `TaskQueue`, as a set of containers per
queue and the round robin of `task_loop`; a second administrative call.

Runs: dependencies with a cancellation, live; two servers of one name.

Theorems, in this order:

1. the part of `NeverEarly` that a single `cancel_task` leaves true: a dependent of a
   task that nobody cancelled while it ran;
2. the same for `StrandedForCause`, whose causes already name cancellation;
3. `OneBatch` for several schedulers, restricted to groups only one of them read;
4. the safety half of each liveness property: that a task which has not ended has a
   step that leads on, as an invariant instead of by `ENABLED`.
