------------------------------ MODULE Attempts ------------------------------
(***************************************************************************)
(* What decides how often, when and with which hooks a task is tried: the   *)
(* TaskBuilder and validate with the global configuration they read, the    *)
(* routing table (Mux), the MiddlewareChain around each attempt, the mutex  *)
(* the workers of a server share, and the backoff of retries.               *)
(*                                                                         *)
(* The containers of Redis, crashes and failed commands are in TaskQueue:   *)
(* here a submitted task is simply waiting, and every command succeeds.     *)
(***************************************************************************)
EXTENDS Integers, FiniteSets, Sequences

CONSTANTS
    Tasks, Workers,
    Types,           \* task types a handler may be registered for
    Empty,           \* the empty string, the empty payload, no option
    Requests,        \* what the caller of each task may ask of its TaskBuilder
    Configs,         \* what set_config and update_config may leave
    DefaultConfig,
    Hooks,           \* middlewares in the chain
    MaxUpdates,      \* bound on the changes of the configuration
    MaxCuts,         \* bound on the attempts that an error of a hook or a panic cuts short
    NoTask, NoWorker

Crons == {Empty, "@always", "fields", "word"}

IsConfig(c) == c.max_payload_size \in Nat /\ c.priority_range \in Int \X Int

TaskRequests ==
    [task_type : Types \cup {Empty}, queue : {"default", Empty}, size : Nat,
     timeout : Nat, delay : Nat, max_retry : Nat, priority : Int, cron : Crons]

ASSUME AttemptsAssumption ==
    /\ IsFiniteSet(Workers)
    /\ \A t \in Tasks : Requests[t] \subseteq TaskRequests
    /\ DefaultConfig \in Configs /\ \A c \in Configs : IsConfig(c)
    /\ Hooks \in Nat /\ MaxUpdates \in Nat /\ MaxCuts \in Nat
    /\ NoTask \notin Tasks /\ NoWorker \notin Workers

VARIABLES
    \* process-wide: GLOBAL_CONFIG, and how often it was changed
    config, updates,
    \* Mux: the types with a handler, whether there is a default handler, and
    \* whether the server runs (it owns the table then)
    handlers, fallback, serving,
    \* a task: the call that makes it or where it is now, what was asked,
    \* retry_cnt as stored
    stage, req, cnt,
    \* a worker: its place in process_task, its task, the next hook, the result
    pc, hold, hook, out,
    \* the mutex around the Mux
    lock,
    \* history: configurations in force during the call, intervals of the retries
    limits, delays,
    \* history: what a middleware would count that adds one in before and takes
    \* it away in after; attempts in which another hook or a panic kept it from
    \* the latter
    gauge, cut, cuts

configVars == <<config, updates>>
muxVars == <<handlers, fallback, serving>>
taskVars == <<stage, req, cnt>>
workerVars == <<pc, hold, hook, out, lock>>
hookVars == <<gauge, cut, cuts>>
vars == <<configVars, muxVars, taskVars, workerVars, limits, delays, hookVars>>

Calling == {"size", "range", "built"}
Ended == {"processed", "dead", "stuck"}
Chain == 1 .. Hooks

Init ==
    /\ config = DefaultConfig /\ updates = 0
    /\ handlers = {} /\ fallback = FALSE /\ serving = FALSE
    /\ stage = [t \in Tasks |-> "new"] /\ req = [t \in Tasks |-> Empty]
    /\ cnt = [t \in Tasks |-> 0]
    /\ pc = [w \in Workers |-> "idle"] /\ hold = [w \in Workers |-> NoTask]
    /\ hook = [w \in Workers |-> 1] /\ out = [w \in Workers |-> "none"]
    /\ lock = NoWorker
    /\ limits = [t \in Tasks |-> {}] /\ delays = [t \in Tasks |-> <<>>]
    /\ gauge = [m \in Chain |-> 0] /\ cut = [m \in Chain |-> 0] /\ cuts = 0

-----------------------------------------------------------------------------
(* Configuration and routing table.                                        *)

(* set_config or update_config, from any thread at any time.                *)
SetConfig(c) ==
    /\ updates < MaxUpdates /\ c # config
    /\ config' = c /\ updates' = updates + 1
    /\ limits' = [t \in Tasks |-> limits[t] \cup (IF stage[t] \in Calling THEN {c} ELSE {})]
    /\ UNCHANGED <<muxVars, taskVars, workerVars, delays, hookVars>>

(* The table belongs to whoever builds the server; run takes it away.       *)
SetUp ==
    /\ ~serving
    /\ UNCHANGED <<configVars, taskVars, workerVars, limits, delays, hookVars>>

Handle(x) == SetUp /\ handlers' = handlers \cup {x} /\ UNCHANGED <<fallback, serving>>

DefaultHandler == SetUp /\ fallback' = TRUE /\ UNCHANGED <<handlers, serving>>

Remove(x) == SetUp /\ handlers' = handlers \ {x} /\ UNCHANGED <<fallback, serving>>

Clear == SetUp /\ handlers' = {} /\ fallback' = FALSE /\ UNCHANGED serving

Serve == SetUp /\ serving' = TRUE /\ UNCHANGED <<handlers, fallback>>

HasHandler(x) == x \in handlers \/ fallback

-----------------------------------------------------------------------------
(* Making a task.  Every look at the configuration is one of its own, with  *)
(* the lock released in between.                                           *)

(* i32::clamp in priority(): whatever the configured range is.              *)
Clamped(p) == IF p < 0 THEN 0 ELSE IF p > 100 THEN 100 ELSE p

Call(t, from, passes, next) ==
    /\ stage[t] = from
    /\ stage' = [stage EXCEPT ![t] = IF passes THEN next ELSE "refused"]
    /\ UNCHANGED <<configVars, muxVars, cnt, workerVars, delays, hookVars>>

FitsSize(r) == r.size > 0 /\ r.size <= config.max_payload_size

InRange(p, range) == range[1] <= p /\ p <= range[2]

(* build: its own checks of type and payload.                               *)
Build(t) ==
    \E r \in Requests[t] :
        /\ req' = [req EXCEPT ![t] = [r EXCEPT !.priority = Clamped(@)]]
        /\ Call(t, "new", r.task_type # Empty /\ FitsSize(r), "size")
        /\ limits' = [limits EXCEPT ![t] = {config}]

(* validate looks at type, queue and payload (again), ...                   *)
ValidateSize(t) ==
    /\ Call(t, "size", req[t].task_type # Empty /\ req[t].queue # Empty /\ FitsSize(req[t]), "range")
    /\ UNCHANGED <<req, limits>>

MaxDelay == 365 * 24 * 60 * 60

(* Mutant: the upper end of the range is not looked at.                     *)
ValidateOptionsBelow(t) ==
    /\ Call(t, "range",
            /\ config.priority_range[1] <= req[t].priority
            /\ req[t].timeout > 0
            /\ req[t].delay <= MaxDelay
            /\ req[t].cron # "word",
            "built")
    /\ UNCHANGED <<req, limits>>

(* ... then at the priority, the timeout, the delay (0 stands for none) and *)
(* the form of the cron expression: a word is none.                         *)
ValidateOptions(t) ==
    /\ Call(t, "range",
            /\ InRange(req[t].priority, config.priority_range)
            /\ req[t].timeout > 0
            /\ req[t].delay <= MaxDelay
            /\ req[t].cron # "word",
            "built")
    /\ UNCHANGED <<req, limits>>

(* enqueue checks nothing any more, ...                                     *)
Enqueue(t) == Call(t, "built", TRUE, "waiting") /\ UNCHANGED <<req, limits>>

(* ... enqueue_priority only the range.                                     *)
EnqueuePriority(t) ==
    /\ Call(t, "built", InRange(req[t].priority, config.priority_range), "waiting")
    /\ UNCHANGED <<req, limits>>

-----------------------------------------------------------------------------
(* process_task.                                                           *)

Within(w, from) == pc[w] = from /\ UNCHANGED <<configVars, muxVars, req, limits>>

GoTo(w, next) == pc' = [pc EXCEPT ![w] = next]

Leave(w, next) ==
    /\ GoTo(w, next)
    /\ hold' = [hold EXCEPT ![w] = NoTask]
    /\ out' = [out EXCEPT ![w] = "none"]

Idle(w) == Leave(w, "idle")

(* A handler of worker w runs, or a hook: the next one or, after it did what *)
(* it is for, the one before that.                                          *)
UserCode(w) ==
    \/ pc[w] = "handler"
    \/ pc[w] \in {"before", "after"} /\ Hooks > 0

To(t, s) == stage' = [stage EXCEPT ![t] = s]

Take(w) ==
    /\ serving
    /\ Within(w, "idle")
    /\ \E t \in Tasks : stage[t] = "waiting" /\ To(t, "held") /\ hold' = [hold EXCEPT ![w] = t]
    /\ GoTo(w, "before")
    /\ hook' = [hook EXCEPT ![w] = 1]
    /\ UNCHANGED <<cnt, out, lock, delays, hookVars>>

(* The next hook's before returns Ok.                                       *)
BeforeOk(w) ==
    /\ Within(w, "before") /\ hook[w] \in Chain
    /\ hook' = [hook EXCEPT ![w] = @ + 1]
    /\ gauge' = [gauge EXCEPT ![hook[w]] = @ + 1]
    /\ UNCHANGED <<stage, cnt, pc, hold, out, lock, delays, cut, cuts>>

(* Worker w is between the before and the after of hook m.                  *)
Inside(w, m) ==
    \/ pc[w] = "before" /\ m < hook[w]
    \/ pc[w] = "handler"
    \/ pc[w] = "after" /\ m >= hook[w]

CutOff(S) == [m \in Chain |-> IF m \in S THEN cut[m] + 1 ELSE cut[m]]

(* Its error leaves process_task at once: no handler, no after hook, no      *)
(* acknowledgement.  The task stays on the active list.                     *)
BeforeErr(w) ==
    /\ Within(w, "before") /\ hook[w] \in Chain /\ cuts < MaxCuts
    /\ cuts' = cuts + 1
    /\ cut' = CutOff(1 .. hook[w] - 1)
    /\ To(hold[w], "stuck")
    /\ Idle(w)
    /\ UNCHANGED <<cnt, hook, lock, delays, gauge>>

(* The mutex of the Mux, held while the handler runs.  Without a handler    *)
(* the result is there at once.                                            *)
Route(w) ==
    /\ Within(w, "before") /\ hook[w] \notin Chain
    /\ lock = NoWorker
    /\ IF HasHandler(req[hold[w]].task_type)
       THEN lock' = w /\ GoTo(w, "handler") /\ UNCHANGED <<hook, out>>
       ELSE /\ GoTo(w, "after")
            /\ hook' = [hook EXCEPT ![w] = 1]
            /\ out' = [out EXCEPT ![w] = "Err"]
            /\ UNCHANGED lock
    /\ UNCHANGED <<stage, cnt, hold, delays, hookVars>>

(* Mutant: the chain is not asked again after a hook of it was skipped.     *)
HandlerEndsHalf(w) ==
    /\ Within(w, "handler")
    /\ lock' = NoWorker
    /\ \E r \in {"Ok", "Err"} :
          /\ out' = [out EXCEPT ![w] = r]
          /\ hook' = [hook EXCEPT ![w] = IF r = "Err" THEN 2 ELSE 1]
    /\ GoTo(w, "after")
    /\ UNCHANGED <<stage, cnt, hold, delays, hookVars>>

(* Mutant: the error path keeps the lock.                                  *)
HandlerEndsLocked(w) ==
    /\ Within(w, "handler")
    /\ \E r \in {"Ok", "Err"} :
          /\ out' = [out EXCEPT ![w] = r]
          /\ lock' = IF r = "Ok" THEN NoWorker ELSE lock
    /\ hook' = [hook EXCEPT ![w] = 1]
    /\ GoTo(w, "after")
    /\ UNCHANGED <<stage, cnt, hold, delays, hookVars>>

(* The handler returns, or options.timeout is over, which is an error.      *)
HandlerEnds(w) ==
    /\ Within(w, "handler")
    /\ lock' = NoWorker
    /\ \E r \in {"Ok", "Err"} : out' = [out EXCEPT ![w] = r]
    /\ hook' = [hook EXCEPT ![w] = 1]
    /\ GoTo(w, "after")
    /\ UNCHANGED <<stage, cnt, hold, delays, hookVars>>

(* The handler or a hook panics.  Nothing in process_task catches it: the    *)
(* tokio task of the worker ends, which lets go of the lock, and no other    *)
(* after hook, acknowledgement or new worker follows.                        *)
Panics(w) ==
    /\ UserCode(w) /\ Within(w, pc[w]) /\ cuts < MaxCuts
    /\ cuts' = cuts + 1
    /\ cut' = CutOff({m \in Chain : Inside(w, m)})
    /\ To(hold[w], "stuck")
    /\ Leave(w, "gone")
    /\ lock' = IF lock = w THEN NoWorker ELSE lock
    /\ UNCHANGED <<cnt, hook, delays, gauge>>

(* The next hook's after.  Its error ends the chain and is ignored.         *)
After(w) ==
    /\ Within(w, "after") /\ hook[w] \in Chain
    /\ gauge' = [gauge EXCEPT ![hook[w]] = @ - 1]
    /\ \/ hook' = [hook EXCEPT ![w] = @ + 1] /\ UNCHANGED <<cut, cuts>>
       \/ /\ cuts < MaxCuts
          /\ cuts' = cuts + 1
          /\ cut' = CutOff(hook[w] + 1 .. Hooks)
          /\ hook' = [hook EXCEPT ![w] = Hooks + 1]
    /\ UNCHANGED <<stage, cnt, pc, hold, out, lock, delays>>

AckProcessed(w) ==
    /\ Within(w, "after") /\ hook[w] \notin Chain /\ out[w] = "Ok"
    /\ To(hold[w], "processed")
    /\ Idle(w)
    /\ UNCHANGED <<cnt, hook, lock, delays, hookVars>>

(* Mutant: max_retry retries, not max_retry attempts.                       *)
can_retry_once_more(t, n) == n <= req[t].max_retry

can_retry(t, n) == n < req[t].max_retry

(* retry_cnt is incremented before it is compared.                          *)
AckFailed(w) ==
    LET t == hold[w] IN
    /\ Within(w, "after") /\ hook[w] \notin Chain /\ out[w] = "Err"
    /\ cnt' = [cnt EXCEPT ![t] = @ + 1]
    /\ IF can_retry(t, cnt[t] + 1)
       THEN GoTo(w, "schedule") /\ UNCHANGED <<stage, hold, out>>
       ELSE To(t, "dead") /\ Idle(w)
    /\ UNCHANGED <<hook, lock, delays, hookVars>>

retry_delay(n) == 2 ^ (IF n + 1 < 6 THEN n + 1 ELSE 6)

(* schedule_retry: an error without an interval would lose the task.        *)
ScheduleRetry(w) ==
    LET t == hold[w] IN
    /\ Within(w, "schedule")
    /\ IF can_retry(t, cnt[t])
       THEN To(t, "retry") /\ delays' = [delays EXCEPT ![t] = Append(@, retry_delay(cnt[t]))]
       ELSE To(t, "lost") /\ UNCHANGED delays
    /\ Idle(w)
    /\ UNCHANGED <<cnt, hook, lock, hookVars>>

(* The scheduler, once the interval is over.                                *)
MoveRetry(t) ==
    /\ stage[t] = "retry"
    /\ To(t, "waiting")
    /\ UNCHANGED <<configVars, muxVars, req, cnt, workerVars, limits, delays, hookVars>>

-----------------------------------------------------------------------------
MuxCall ==
    \/ \E x \in Types : Handle(x) \/ Remove(x)
    \/ DefaultHandler \/ Clear \/ Serve

Submit(t) == Build(t) \/ ValidateSize(t) \/ ValidateOptions(t) \/ Enqueue(t) \/ EnqueuePriority(t)

process_task(w) ==
    \/ BeforeOk(w) \/ BeforeErr(w) \/ Route(w) \/ HandlerEnds(w) \/ After(w) \/ Panics(w)
    \/ AckProcessed(w) \/ AckFailed(w) \/ ScheduleRetry(w)

task_loop(w) == Take(w) \/ process_task(w)

Next ==
    \/ \E c \in Configs : SetConfig(c)
    \/ MuxCall
    \/ \E t \in Tasks : Submit(t) \/ MoveRetry(t)
    \/ \E w \in Workers : task_loop(w)

Spec == Init /\ [][Next]_vars

(* Workers loop until they panic and the scheduler for ever, a handler has a *)
(* timeout, and hooks are taken to return or panic.  Tokio's mutex is handed *)
(* over in the order of the requests, so a worker that waits for it gets it: *)
(* stronger than weak fairness, and not needed, because its rivals run out   *)
(* of attempts.                                                             *)
Fairness ==
    /\ \A w \in Workers : WF_vars(task_loop(w))
    /\ \A t \in Tasks : WF_vars(MoveRetry(t))

FairSpec == Spec /\ Fairness

-----------------------------------------------------------------------------
(* The type of every variable.                                             *)
TypeOK ==
    /\ config \in Configs /\ updates \in 0 .. MaxUpdates
    /\ handlers \subseteq Types /\ {fallback, serving} \subseteq BOOLEAN
    /\ stage \in [Tasks -> Calling \cup Ended \cup {"new", "refused", "waiting", "held", "retry"}]
    /\ \A t \in Tasks : stage[t] # "new" => req[t] \in TaskRequests
    /\ cnt \in [Tasks -> Nat]
    /\ pc \in [Workers -> {"idle", "before", "handler", "after", "schedule", "gone"}]
    /\ hold \in [Workers -> Tasks \cup {NoTask}]
    /\ hook \in [Workers -> 1 .. Hooks + 1]
    /\ out \in [Workers -> {"none", "Ok", "Err"}]
    /\ lock \in Workers \cup {NoWorker}
    /\ limits \in [Tasks -> SUBSET Configs]
    /\ delays \in [Tasks -> Seq(Nat)]
    /\ gauge \in [Chain -> Nat] /\ cut \in [Chain -> Nat] /\ cuts \in 0 .. MaxCuts

Accepted(t) == stage[t] \notin Calling \cup {"new", "refused"}

(* However the configuration changes between the checks of build, validate  *)
(* and enqueue_priority, an accepted task keeps the fixed limits and fits   *)
(* the size and the range of a configuration in force during its call.      *)
AdmittedWithinLimits ==
    \A t \in Tasks : Accepted(t) =>
        /\ req[t].task_type # Empty /\ req[t].queue # Empty /\ req[t].cron # "word"
        /\ req[t].size > 0 /\ req[t].timeout > 0 /\ req[t].delay <= MaxDelay
        /\ InRange(req[t].priority, <<0, 100>>)
        /\ \E c \in limits[t] : req[t].size <= c.max_payload_size
        /\ \E c \in limits[t] : InRange(req[t].priority, c.priority_range)

(* Every before is paired with one after: a middleware that counts up in    *)
(* the one and down in the other shows the attempts that are under way, and *)
(* drifts only by those that another hook's error, or a panic of a handler  *)
(* or hook, cut short.                                                     *)
GaugesExact ==
    \A m \in Chain : gauge[m] = Cardinality({w \in Workers : Inside(w, m)}) + cut[m]

(* Each failed attempt but the last is counted once and tried again after    *)
(* one interval; the last is attempt number max_retry (the first one when    *)
(* max_retry is 0).  One that was cut short is not counted, and no task is    *)
(* acknowledged for a retry that then has no interval.                       *)
RetriesSpent ==
    \A t \in Tasks :
        /\ stage[t] \in {"waiting", "retry", "stuck"} => Len(delays[t]) = cnt[t]
        /\ stage[t] = "dead" =>
              /\ cnt[t] = IF req[t].max_retry = 0 THEN 1 ELSE req[t].max_retry
              /\ Len(delays[t]) = cnt[t] - 1
        /\ stage[t] # "lost"

(* What the README, the comment of retry_delay and its test say: a retry     *)
(* waits 2 s, 4 s, 8 s ..., 60 s at most.                                    *)
BackoffAsDocumented ==
    \A t \in Tasks : \A i \in DOMAIN delays[t] :
        delays[t][i] = IF 2 ^ i < 60 THEN 2 ^ i ELSE 60

(* Once the server runs, an accepted task gets an end, although the workers *)
(* of the server wait for one mutex around all handlers: it is processed,   *)
(* dead, or left on the active list by a failing hook or a panic; unless    *)
(* the last worker of the server is gone.  Without a handler for its type   *)
(* it is not processed.                                                    *)
AttemptsEnd ==
    \A t \in Tasks :
        serving /\ stage[t] = "waiting" ~>
            \/ /\ stage[t] \in Ended
               /\ stage[t] = "processed" => HasHandler(req[t].task_type)
            \/ \A w \in Workers : pc[w] = "gone"
=============================================================================
