--------------------------- MODULE Attempts_proofs ---------------------------
(* Proofs of the invariants of Attempts, for any tasks, workers, requests,  *)
(* configurations, routing tables and middlewares.                          *)
EXTENDS Attempts, FiniteSetTheorems, TLAPS

Stages == Calling \cup Ended \cup {"new", "refused", "waiting", "held", "retry"}
Pcs == {"idle", "before", "handler", "after", "schedule", "gone"}
Trying == {"before", "handler", "after"}

-----------------------------------------------------------------------------
(* Types, part by part.  A gauge is only known to be an integer before it   *)
(* is known to be exact.                                                   *)
TableTypes ==
    /\ config \in Configs /\ updates \in 0 .. MaxUpdates
    /\ handlers \subseteq Types /\ fallback \in BOOLEAN /\ serving \in BOOLEAN
    /\ lock \in Workers \cup {NoWorker}

TaskTypes ==
    /\ stage \in [Tasks -> Stages]
    /\ DOMAIN req = Tasks
    /\ \A t \in Tasks : stage[t] # "new" => req[t] \in TaskRequests
    /\ cnt \in [Tasks -> Nat]
    /\ limits \in [Tasks -> SUBSET Configs]
    /\ delays \in [Tasks -> Seq(Nat)]

WorkerTypes ==
    /\ pc \in [Workers -> Pcs]
    /\ hold \in [Workers -> Tasks \cup {NoTask}]
    /\ hook \in [Workers -> 1 .. Hooks + 1]
    /\ out \in [Workers -> {"none", "Ok", "Err"}]

HookTypes ==
    /\ gauge \in [Chain -> Int] /\ cut \in [Chain -> Nat] /\ cuts \in 0 .. MaxCuts

(* A worker in a round has a task, and no other worker has it.              *)
Round(w) ==
    /\ pc[w] \in {"idle", "gone"} => hold[w] = NoTask
    /\ pc[w] \notin {"idle", "gone"} => hold[w] \in Tasks /\ stage[hold[w]] = "held"
    /\ pc[w] = "after" => out[w] # "none"
    /\ pc[w] = "schedule" => cnt[hold[w]] > 0 /\ can_retry(hold[w], cnt[hold[w]])

Alone ==
    \A v, w \in Workers :
        v # w /\ pc[v] \notin {"idle", "gone"} /\ pc[w] \notin {"idle", "gone"} => hold[v] # hold[w]

Types0 == TableTypes /\ TaskTypes /\ WorkerTypes /\ HookTypes

RoundInv == Types0 /\ (\A w \in Workers : Round(w)) /\ Alone

(* From the first interval on, each is twice the one before, up to the cap.  *)
Interval(i) ==
    IF i = 1 THEN 4 ELSE IF i = 2 THEN 8 ELSE IF i = 3 THEN 16 ELSE IF i = 4 THEN 32 ELSE 64

-----------------------------------------------------------------------------
(* What retry_delay answers.                                               *)
LEMMA DelayIsInterval ==
  ASSUME NEW n \in Nat \ {0}
  PROVE  retry_delay(n) = Interval(n) /\ Interval(n) \in Nat
<1>1. 2 ^ 2 = 4 /\ 2 ^ 3 = 8 /\ 2 ^ 4 = 16 /\ 2 ^ 5 = 32 /\ 2 ^ 6 = 64
  BY SMT
<1>2. CASE n = 1
  BY <1>1, <1>2 DEF retry_delay, Interval
<1>3. CASE n = 2
  BY <1>1, <1>3 DEF retry_delay, Interval
<1>4. CASE n = 3
  BY <1>1, <1>4 DEF retry_delay, Interval
<1>5. CASE n = 4
  BY <1>1, <1>5 DEF retry_delay, Interval
<1>6. CASE n > 4
  <2>1. (IF n + 1 < 6 THEN n + 1 ELSE 6) = 6
    BY <1>6
  <2>2. Interval(n) = 64
    BY <1>6 DEF Interval
  <2> QED
    BY <1>1, <2>1, <2>2 DEF retry_delay
<1> QED
  BY <1>2, <1>3, <1>4, <1>5, <1>6

-----------------------------------------------------------------------------
(* Types.                                                                  *)
LEMMA RoundInit == Init => RoundInv
<1> SUFFICES ASSUME Init PROVE RoundInv
  OBVIOUS
<1> USE AttemptsAssumption DEF Init
<1>1. TableTypes
  <2>1. updates \in 0 .. MaxUpdates
    BY SMT
  <2>2. fallback \in BOOLEAN /\ serving \in BOOLEAN
    BY Zenon
  <2> QED
    BY <2>1, <2>2, Zenon DEF TableTypes
<1>2. TaskTypes
  BY DEF TaskTypes, Stages
<1>3. WorkerTypes
  BY DEF WorkerTypes, Pcs
<1>4. HookTypes
  BY DEF HookTypes, Chain
<1> QED
  BY <1>1, <1>2, <1>3, <1>4 DEF RoundInv, Types0, Round, Alone

LEMMA ClampedInt == ASSUME NEW p \in Int PROVE Clamped(p) \in 0 .. 100
  BY DEF Clamped

LEMMA BuildTypes ==
  ASSUME RoundInv, NEW t \in Tasks, Build(t)
  PROVE  req'[t] \in TaskRequests /\ DOMAIN req' = Tasks
<1>1. PICK r \in Requests[t] : req' = [req EXCEPT ![t] = [r EXCEPT !.priority = Clamped(@)]]
  BY DEF Build
<1>2. r \in TaskRequests
  BY AttemptsAssumption
<1>3. Clamped(r.priority) \in Int
  BY <1>2, ClampedInt DEF TaskRequests
<1> QED
  BY <1>1, <1>2, <1>3 DEF RoundInv, Types0, TaskTypes, TaskRequests

(* A call changes the stage of one task, which no worker has.                *)
LEMMA CallKeeps ==
  ASSUME RoundInv, NEW t \in Tasks, Submit(t)
  PROVE  /\ stage[t] \in Calling \cup {"new"}
         /\ stage'[t] \in Calling \cup {"refused", "waiting"}
         /\ \A u \in Tasks \ {t} : stage'[u] = stage[u] /\ req'[u] = req[u] /\ limits'[u] = limits[u]
         /\ UNCHANGED <<configVars, muxVars, cnt, workerVars, delays, hookVars>>
         /\ stage' \in [Tasks -> Stages] /\ limits' \in [Tasks -> SUBSET Configs]
         /\ DOMAIN req' = Tasks /\ req'[t] \in TaskRequests
<1> USE DEF RoundInv, Types0, TaskTypes, TableTypes, Calling, Ended, Stages
<1>1. CASE Build(t)
  <2>1. stage[t] = "new" /\ \E s \in {"size", "refused"} : stage' = [stage EXCEPT ![t] = s]
    BY <1>1 DEF Build, Call
  <2>2. \E r : req' = [req EXCEPT ![t] = r]
    BY <1>1 DEF Build
  <2>3. limits' = [limits EXCEPT ![t] = {config}]
    BY <1>1 DEF Build
  <2>4. UNCHANGED <<configVars, muxVars, cnt, workerVars, delays, hookVars>>
    BY <1>1 DEF Build, Call
  <2> QED
    BY <1>1, <2>1, <2>2, <2>3, <2>4, BuildTypes
<1>2. CASE ValidateSize(t)
  BY <1>2 DEF ValidateSize, Call
<1>3. CASE ValidateOptions(t)
  BY <1>3 DEF ValidateOptions, Call
<1>4. CASE Enqueue(t)
  BY <1>4 DEF Enqueue, Call
<1>5. CASE EnqueuePriority(t)
  BY <1>5 DEF EnqueuePriority, Call
<1> QED
  BY <1>1, <1>2, <1>3, <1>4, <1>5 DEF Submit

(* A step of a worker changes its own round and its own task.               *)
LEMMA WorkerKeeps ==
  ASSUME RoundInv, NEW w \in Workers, task_loop(w)
  PROVE  /\ UNCHANGED <<configVars, muxVars, req, limits>>
         /\ WorkerTypes' /\ lock' \in Workers \cup {NoWorker}
         /\ \A v \in Workers \ {w} : pc'[v] = pc[v] /\ hold'[v] = hold[v] /\ hook'[v] = hook[v] /\ out'[v] = out[v]
<1> USE AttemptsAssumption DEF RoundInv, Types0, WorkerTypes, TableTypes, Within, GoTo, Idle, Leave, Pcs, Chain
<1>1. CASE Take(w)
  BY <1>1 DEF Take
<1>2. CASE BeforeOk(w)
  <2>1. hook[w] + 1 \in 1 .. Hooks + 1
    BY <1>2 DEF BeforeOk
  <2> QED
    BY <1>2, <2>1 DEF BeforeOk
<1>3. CASE BeforeErr(w)
  BY <1>3 DEF BeforeErr
<1>4. CASE Route(w)
  BY <1>4 DEF Route
<1>5. CASE HandlerEnds(w)
  <2>1. PICK r \in {"Ok", "Err"} : out' = [out EXCEPT ![w] = r]
    BY <1>5 DEF HandlerEnds
  <2> QED
    BY <1>5, <2>1 DEF HandlerEnds
<1>6. CASE After(w)
  <2>1. hook[w] + 1 \in 1 .. Hooks + 1 /\ Hooks + 1 \in 1 .. Hooks + 1
    BY <1>6 DEF After
  <2> QED
    BY <1>6, <2>1 DEF After
<1>7. CASE AckProcessed(w)
  BY <1>7 DEF AckProcessed
<1>8. CASE AckFailed(w)
  BY <1>8 DEF AckFailed
<1>9. CASE ScheduleRetry(w)
  BY <1>9 DEF ScheduleRetry
<1>10. CASE Panics(w)
  BY <1>10 DEF Panics
<1> QED
  BY <1>1, <1>2, <1>3, <1>4, <1>5, <1>6, <1>7, <1>8, <1>9, <1>10 DEF task_loop, process_task

LEMMA HookTypesStep ==
  ASSUME RoundInv, NEW w \in Workers, task_loop(w)
  PROVE  HookTypes'
<1> USE AttemptsAssumption DEF RoundInv, Types0, HookTypes, WorkerTypes, Within, Chain
<1>2. CASE BeforeOk(w)
  BY <1>2 DEF BeforeOk
<1>3. CASE BeforeErr(w)
  BY <1>3 DEF BeforeErr, CutOff
<1>4. CASE UNCHANGED hookVars
  BY <1>4 DEF hookVars
<1>5. CASE Panics(w)
  BY <1>5 DEF Panics, CutOff
<1>6. CASE After(w)
  <2>1. hook[w] \in 1 .. Hooks /\ gauge' = [gauge EXCEPT ![hook[w]] = @ - 1]
    BY <1>6 DEF After
  <2>2. gauge' \in [1 .. Hooks -> Int]
    BY <2>1
  <2>3. cut' \in [1 .. Hooks -> Nat] /\ cuts' \in 0 .. MaxCuts
    <3>1. CASE UNCHANGED <<cut, cuts>>
      BY <3>1
    <3>2. CASE cuts < MaxCuts /\ cuts' = cuts + 1 /\ cut' = CutOff(hook[w] + 1 .. Hooks)
      BY <3>2 DEF CutOff
    <3> QED
      BY <1>6, <3>1, <3>2 DEF After
  <2> QED
    BY <2>2, <2>3
<1> QED
  BY <1>2, <1>3, <1>4, <1>5, <1>6
     DEF task_loop, process_task, Take, Route, HandlerEnds, AckProcessed, AckFailed, ScheduleRetry

(* What a worker's step does to the task of its round, and to no other.      *)
LEMMA OwnTask ==
  ASSUME RoundInv, NEW w \in Workers, task_loop(w)
  PROVE  /\ hold[w] \in Tasks \/ pc[w] = "idle"
         /\ \A u \in Tasks : u # hold[w] /\ stage[u] # "waiting" =>
               stage'[u] = stage[u] /\ cnt'[u] = cnt[u] /\ delays'[u] = delays[u]
         /\ \A u \in Tasks : u # hold'[w] /\ stage[u] = "waiting" =>
               stage'[u] = stage[u] /\ cnt'[u] = cnt[u] /\ delays'[u] = delays[u]
         /\ TaskTypes' /\ Round(w)'
<1>0. /\ stage \in [Tasks -> Stages] /\ cnt \in [Tasks -> Nat] /\ delays \in [Tasks -> Seq(Nat)]
      /\ pc \in [Workers -> Pcs] /\ hold \in [Workers -> Tasks \cup {NoTask}]
      /\ hook \in [Workers -> 1 .. Hooks + 1] /\ out \in [Workers -> {"none", "Ok", "Err"}]
      /\ Round(w)
  BY DEF RoundInv, Types0, TaskTypes, WorkerTypes
<1>10. DOMAIN req = Tasks /\ (\A t \in Tasks : stage[t] # "new" => req[t] \in TaskRequests)
       /\ limits \in [Tasks -> SUBSET Configs]
  BY DEF RoundInv, Types0, TaskTypes
<1> USE AttemptsAssumption DEF Within, GoTo, Idle, Leave, To, Round, Stages, Pcs, Calling, Ended
<1>1. CASE Take(w)
  <2>1. PICK t \in Tasks : stage[t] = "waiting" /\ To(t, "held") /\ hold' = [hold EXCEPT ![w] = t]
    BY <1>1 DEF Take
  <2> QED
    BY <1>0, <1>10, <1>1, <2>1 DEF Take, TaskTypes
<1>2. CASE BeforeOk(w)
  BY <1>0, <1>10, <1>2 DEF BeforeOk, TaskTypes
<1>3. CASE BeforeErr(w)
  BY <1>0, <1>10, <1>3 DEF BeforeErr, TaskTypes
<1>4. CASE Route(w)
  BY <1>0, <1>10, <1>4 DEF Route, TaskTypes
<1>5. CASE HandlerEnds(w)
  <2>1. PICK r \in {"Ok", "Err"} : out' = [out EXCEPT ![w] = r]
    BY <1>5 DEF HandlerEnds
  <2> QED
    BY <1>0, <1>10, <1>5, <2>1 DEF HandlerEnds, TaskTypes
<1>6. CASE After(w)
  BY <1>0, <1>10, <1>6 DEF After, TaskTypes
<1>7. CASE AckProcessed(w)
  BY <1>0, <1>10, <1>7 DEF AckProcessed, TaskTypes
<1>8. CASE AckFailed(w)
  <2>1. /\ hold[w] \in Tasks /\ stage[hold[w]] = "held"
        /\ cnt' = [cnt EXCEPT ![hold[w]] = @ + 1] /\ UNCHANGED <<delays, req, limits>>
    BY <1>0, <1>8 DEF AckFailed
  <2>2. CASE can_retry(hold[w], cnt[hold[w]] + 1)
    <3>1. pc' = [pc EXCEPT ![w] = "schedule"] /\ UNCHANGED <<stage, hold, out>>
      BY <1>8, <2>2 DEF AckFailed
    <3>2. cnt'[hold[w]] = cnt[hold[w]] + 1 /\ cnt'[hold[w]] > 0 /\ cnt'[hold[w]] < req[hold[w]].max_retry
      BY <1>0, <2>1, <2>2, <3>1 DEF can_retry
    <3> QED
      BY <1>0, <1>10, <2>1, <3>1, <3>2 DEF TaskTypes, can_retry
  <2>3. CASE ~can_retry(hold[w], cnt[hold[w]] + 1)
    <3>1. /\ stage' = [stage EXCEPT ![hold[w]] = "dead"]
          /\ pc' = [pc EXCEPT ![w] = "idle"] /\ hold' = [hold EXCEPT ![w] = NoTask]
      BY <1>8, <2>3 DEF AckFailed
    <3>2. pc'[w] = "idle" /\ hold'[w] = NoTask /\ cnt'[hold[w]] \in Nat
      BY <1>0, <2>1, <3>1
    <3>3. TaskTypes'
      BY <1>0, <1>10, <2>1, <3>1 DEF TaskTypes
    <3> QED
      BY <1>0, <2>1, <3>1, <3>2, <3>3
  <2> QED
    BY <2>2, <2>3
<1>9. CASE ScheduleRetry(w)
  <2>1. hold[w] \in Tasks /\ cnt[hold[w]] \in Nat \ {0} /\ can_retry(hold[w], cnt[hold[w]])
    BY <1>0, <1>9 DEF ScheduleRetry
  <2>2. /\ stage' = [stage EXCEPT ![hold[w]] = "retry"]
        /\ delays' = [delays EXCEPT ![hold[w]] = Append(@, retry_delay(cnt[hold[w]]))]
    BY <1>9, <2>1 DEF ScheduleRetry
  <2>3. Append(delays[hold[w]], retry_delay(cnt[hold[w]])) \in Seq(Nat)
    BY <1>0, <2>1, DelayIsInterval
  <2> QED
    BY <1>0, <1>10, <1>9, <2>1, <2>2, <2>3 DEF ScheduleRetry, TaskTypes
<1>11. CASE Panics(w)
  <2>1. /\ hold[w] \in Tasks /\ stage[hold[w]] = "held" /\ UNCHANGED <<cnt, delays, req, limits>>
        /\ stage' = [stage EXCEPT ![hold[w]] = "stuck"]
        /\ pc'[w] = "gone" /\ hold'[w] = NoTask
    BY <1>0, <1>11 DEF Panics, UserCode
  <2> QED
    BY <1>0, <1>10, <2>1 DEF TaskTypes
<1> QED
  BY <1>1, <1>2, <1>3, <1>4, <1>5, <1>6, <1>7, <1>8, <1>9, <1>11 DEF task_loop, process_task

-----------------------------------------------------------------------------
(* The rounds.                                                             *)
LEMMA OthersKeep ==
  ASSUME NEW v \in Workers, Round(v), pc'[v] = pc[v], hold'[v] = hold[v], out'[v] = out[v],
         UNCHANGED req,
         pc[v] \notin {"idle", "gone"} => stage'[hold[v]] = stage[hold[v]] /\ cnt'[hold[v]] = cnt[hold[v]]
  PROVE  Round(v)'
  BY DEF Round, can_retry

LEMMA RoundStep == RoundInv /\ [Next]_vars => RoundInv'
<1> SUFFICES ASSUME RoundInv, [Next]_vars PROVE RoundInv'
  OBVIOUS
<1>1. ASSUME NEW c \in Configs, SetConfig(c) PROVE RoundInv'
  <2>1. TableTypes' /\ TaskTypes'
    BY <1>1, AttemptsAssumption DEF SetConfig, RoundInv, Types0, TableTypes, TaskTypes, muxVars, taskVars, workerVars
  <2> QED
    BY <1>1, <2>1
       DEF SetConfig, RoundInv, Types0, WorkerTypes, HookTypes, Round, Alone, can_retry, taskVars, workerVars, hookVars
<1>2. CASE MuxCall
  <2>1. UNCHANGED <<configVars, taskVars, workerVars, limits, delays, hookVars>>
    BY <1>2 DEF MuxCall, Handle, Remove, DefaultHandler, Clear, Serve, SetUp
  <2>2. handlers' \subseteq Types /\ fallback' \in BOOLEAN /\ serving' \in BOOLEAN
    <3>1. handlers' \subseteq Types
      BY <1>2 DEF MuxCall, Handle, Remove, DefaultHandler, Clear, Serve, RoundInv, Types0, TableTypes
    <3> QED
      BY <1>2, <3>1, Zenon DEF MuxCall, Handle, Remove, DefaultHandler, Clear, Serve, RoundInv, Types0, TableTypes
  <2>3. TableTypes'
    BY <2>1, <2>2, Zenon DEF RoundInv, Types0, TableTypes, configVars, workerVars
  <2> QED
    BY <2>1, <2>3
       DEF RoundInv, Types0, TaskTypes, WorkerTypes, HookTypes, Round, Alone, can_retry, taskVars, workerVars, hookVars
<1>3. ASSUME NEW t \in Tasks, Submit(t) PROVE RoundInv'
  <2>1. \A v \in Workers : pc[v] \notin {"idle", "gone"} => hold[v] \in Tasks \ {t}
    BY <1>3, CallKeeps DEF RoundInv, Round, Calling
  <2>2. Types0'
    BY <1>3, CallKeeps DEF RoundInv, Types0, TableTypes, TaskTypes, WorkerTypes, HookTypes,
       configVars, muxVars, workerVars, hookVars
  <2>3. \A v \in Workers : Round(v)'
    BY <1>3, <2>1, CallKeeps DEF RoundInv, Round, can_retry, workerVars
  <2> QED
    BY <1>3, <2>2, <2>3, CallKeeps DEF RoundInv, Alone, workerVars
<1>4. ASSUME NEW t \in Tasks, MoveRetry(t) PROVE RoundInv'
  <2>1. stage[t] = "retry" /\ stage' = [stage EXCEPT ![t] = "waiting"]
    BY <1>4 DEF MoveRetry, To
  <2>2. \A v \in Workers : pc[v] \notin {"idle", "gone"} => hold[v] # t
    BY <2>1 DEF RoundInv, Round
  <2>3. TaskTypes'
    BY <1>4, <2>1 DEF MoveRetry, RoundInv, Types0, TaskTypes, Stages
  <2>4. \A v \in Workers : Round(v)'
    BY <1>4, <2>1, <2>2 DEF MoveRetry, RoundInv, Types0, TaskTypes, Round, can_retry, workerVars
  <2> QED
    BY <1>4, <2>3, <2>4
       DEF MoveRetry, RoundInv, Types0, TableTypes, WorkerTypes, HookTypes, Alone, configVars, muxVars, workerVars, hookVars
<1>5. ASSUME NEW w \in Workers, task_loop(w) PROVE RoundInv'
  <2>1. \A v \in Workers \ {w} : pc[v] \notin {"idle", "gone"} =>
           hold[v] \in Tasks /\ stage[hold[v]] = "held" /\ hold[v] # hold[w]
    BY AttemptsAssumption DEF RoundInv, Round, Alone
  <2>2. \A v \in Workers \ {w} : pc[v] \notin {"idle", "gone"} /\ pc'[w] \notin {"idle", "gone"} => hold[v] # hold'[w]
    <3>1. CASE Take(w)
      BY <2>1, <3>1 DEF Take, RoundInv, Types0, WorkerTypes, To
    <3>2. CASE process_task(w)
      <4>1. pc'[w] \notin {"idle", "gone"} => hold' = hold
        BY <3>2 DEF process_task, BeforeOk, BeforeErr, Route, HandlerEnds, After, Panics, UserCode,
         AckProcessed, AckFailed, ScheduleRetry, Within, Idle, Leave, GoTo, RoundInv, Types0, WorkerTypes
      <4> QED
        BY <2>1, <4>1
    <3> QED
      BY <1>5, <3>1, <3>2 DEF task_loop
  <2>3. \A v \in Workers \ {w} : Round(v)'
    <3> SUFFICES ASSUME NEW v \in Workers \ {w} PROVE Round(v)'
      OBVIOUS
    <3>1. pc[v] \notin {"idle", "gone"} => stage'[hold[v]] = stage[hold[v]] /\ cnt'[hold[v]] = cnt[hold[v]]
      BY <1>5, <2>1, OwnTask
    <3>2. /\ Round(v) /\ pc'[v] = pc[v] /\ hold'[v] = hold[v] /\ out'[v] = out[v] /\ UNCHANGED req
      BY <1>5, WorkerKeeps DEF RoundInv
    <3> QED
      BY <3>1, <3>2, OthersKeep
  <2>4. Types0'
    BY <1>5, WorkerKeeps, HookTypesStep, OwnTask DEF RoundInv, Types0, TableTypes, configVars, muxVars
  <2>5. Alone'
    BY <1>5, <2>2, WorkerKeeps DEF RoundInv, Alone
  <2> QED
    BY <1>5, <2>3, <2>4, <2>5, OwnTask DEF RoundInv
<1>6. CASE UNCHANGED vars
  BY <1>6 DEF vars, RoundInv, Types0, TableTypes, TaskTypes, WorkerTypes, HookTypes, Round, Alone, can_retry,
     configVars, muxVars, taskVars, workerVars, hookVars
<1> QED
  BY <1>1, <1>2, <1>3, <1>4, <1>5, <1>6 DEF Next

-----------------------------------------------------------------------------
(* Admission.                                                              *)

(* What the checks that lie behind a call have seen.                        *)
SizeSeen(t) ==
    /\ req[t].task_type # Empty /\ req[t].size > 0 /\ req[t].priority \in 0 .. 100
    /\ \E c \in limits[t] : req[t].size <= c.max_payload_size

OptionsSeen(t) ==
    /\ req[t].timeout > 0 /\ req[t].delay <= MaxDelay /\ req[t].cron # "word"
    /\ \E c \in limits[t] : InRange(req[t].priority, c.priority_range)

(* The calls of one task up to here.                                        *)
AdmitTask(t) ==
    /\ stage[t] \in Calling => config \in limits[t]
    /\ stage[t] \notin {"new", "refused"} => SizeSeen(t)
    /\ stage[t] \notin {"new", "refused", "size"} => req[t].queue # Empty
    /\ stage[t] \notin {"new", "refused", "size", "range"} => OptionsSeen(t)

AdmitInv == RoundInv /\ \A t \in Tasks : AdmitTask(t)

(* A step that only moves tasks on behind their admission.                  *)
LEMMA AdmittedMoves ==
  ASSUME NEW t \in Tasks, AdmitTask(t), UNCHANGED <<req, config>>, limits[t] \subseteq limits'[t],
         stage'[t] = stage[t] \/ {stage[t], stage'[t]} \cap (Calling \cup {"new", "refused"}) = {}
  PROVE  AdmitTask(t)'
  BY DEF AdmitTask, SizeSeen, OptionsSeen, Calling

LEMMA AdmitCall ==
  ASSUME AdmitInv, NEW t \in Tasks, Submit(t)
  PROVE  AdmitTask(t)'
<1>1. /\ config' = config /\ DOMAIN req = Tasks
      /\ stage \in [Tasks -> Stages] /\ limits \in [Tasks -> SUBSET Configs] /\ AdmitTask(t)
  BY CallKeeps DEF AdmitInv, RoundInv, Types0, TaskTypes, configVars
<1>2. CASE Build(t)
  <2>1. PICK r \in Requests[t] :
           /\ req' = [req EXCEPT ![t] = [r EXCEPT !.priority = Clamped(@)]]
           /\ Call(t, "new", r.task_type # Empty /\ FitsSize(r), "size")
           /\ limits' = [limits EXCEPT ![t] = {config}]
    BY <1>2 DEF Build
  <2>2. r \in TaskRequests
    BY AttemptsAssumption
  <2>3. /\ req'[t].task_type = r.task_type /\ req'[t].size = r.size
        /\ req'[t].priority \in 0 .. 100
    BY <1>1, <2>1, <2>2, ClampedInt DEF TaskRequests
  <2>4. limits'[t] = {config}
    BY <1>1, <2>1
  <2>5. stage'[t] = IF r.task_type # Empty /\ FitsSize(r) THEN "size" ELSE "refused"
    BY <1>1, <2>1 DEF Call
  <2> QED
    BY <1>1, <2>3, <2>4, <2>5 DEF AdmitTask, SizeSeen, FitsSize, Calling
<1>3. CASE ValidateSize(t)
  BY <1>1, <1>3 DEF ValidateSize, Call, AdmitTask, SizeSeen, OptionsSeen, Calling
<1>4. CASE ValidateOptions(t)
  BY <1>1, <1>4 DEF ValidateOptions, Call, AdmitTask, SizeSeen, OptionsSeen, Calling
<1>5. CASE Enqueue(t) \/ EnqueuePriority(t)
  BY <1>1, <1>5 DEF Enqueue, EnqueuePriority, Call, AdmitTask, SizeSeen, OptionsSeen, Calling
<1> QED
  BY <1>2, <1>3, <1>4, <1>5 DEF Submit

(* A worker's step begins and ends among the admitted tasks.                *)
LEMMA WorkerStages ==
  ASSUME RoundInv, NEW w \in Workers, task_loop(w), NEW t \in Tasks
  PROVE  stage'[t] = stage[t] \/ {stage[t], stage'[t]} \cap (Calling \cup {"new", "refused"}) = {}
<1>1. TaskTypes /\ TaskTypes' /\ Round(w) /\ Round(w)' /\ WorkerTypes /\ WorkerTypes'
  BY OwnTask, WorkerKeeps DEF RoundInv, Types0
<1>2. CASE Take(w)
  BY <1>1, <1>2 DEF Take, To, Calling, TaskTypes
<1>3. CASE process_task(w)
  <2>1. hold[w] \in Tasks /\ stage[hold[w]] = "held"
    BY <1>1, <1>3 DEF process_task, BeforeOk, BeforeErr, Route, HandlerEnds, After, Panics, UserCode,
         AckProcessed, AckFailed, ScheduleRetry, Within, Round
  <2>2. UNCHANGED stage \/ \E s \in {"stuck", "processed", "dead", "retry", "lost"} : To(hold[w], s)
    BY <1>3 DEF process_task, BeforeOk, BeforeErr, Route, HandlerEnds, After, Panics, UserCode,
         AckProcessed, AckFailed, ScheduleRetry
  <2> QED
    BY <1>1, <2>1, <2>2 DEF To, TaskTypes, Calling
<1> QED
  BY <1>2, <1>3 DEF task_loop

LEMMA AdmitStep == AdmitInv /\ [Next]_vars => AdmitInv'
<1> SUFFICES ASSUME AdmitInv, [Next]_vars, NEW t \in Tasks PROVE AdmitTask(t)'
  BY RoundStep DEF AdmitInv
<1>0. AdmitTask(t) /\ RoundInv /\ TaskTypes
  BY DEF AdmitInv, RoundInv, Types0
<1>1. ASSUME NEW c \in Configs, SetConfig(c) PROVE AdmitTask(t)'
  <2>1. UNCHANGED <<stage, req>> /\ config' = c
        /\ limits'[t] = limits[t] \cup (IF stage[t] \in Calling THEN {c} ELSE {})
    BY <1>1 DEF SetConfig, taskVars
  <2> QED
    BY <1>0, <2>1 DEF AdmitTask, SizeSeen, OptionsSeen
<1>2. CASE MuxCall
  <2>1. UNCHANGED <<stage, req, config, limits>>
    BY <1>2 DEF MuxCall, Handle, Remove, DefaultHandler, Clear, Serve, SetUp, configVars, taskVars
  <2> QED
    BY <1>0, <2>1, AdmittedMoves
<1>3. ASSUME NEW u \in Tasks, Submit(u) PROVE AdmitTask(t)'
  <2>1. CASE t = u
    BY <1>3, <2>1, AdmitCall
  <2>2. CASE t # u
    <3>1. stage'[t] = stage[t] /\ req'[t] = req[t] /\ limits'[t] = limits[t] /\ config' = config
      BY <1>0, <1>3, <2>2, CallKeeps DEF configVars
    <3> QED
      BY <1>0, <3>1 DEF AdmitTask, SizeSeen, OptionsSeen
  <2> QED
    BY <2>1, <2>2
<1>4. ASSUME NEW u \in Tasks, MoveRetry(u) PROVE AdmitTask(t)'
  <2>1. UNCHANGED <<req, limits, config>> /\ stage[u] = "retry" /\ stage' = [stage EXCEPT ![u] = "waiting"]
    BY <1>4 DEF MoveRetry, To, configVars
  <2>2. stage'[t] = stage[t] \/ {stage[t], stage'[t]} \cap (Calling \cup {"new", "refused"}) = {}
    BY <1>0, <2>1 DEF TaskTypes, Calling
  <2> QED
    BY <1>0, <2>1, <2>2, AdmittedMoves
<1>5. ASSUME NEW w \in Workers, task_loop(w) PROVE AdmitTask(t)'
  <2>1. UNCHANGED <<req, limits, config>>
    BY <1>0, <1>5, WorkerKeeps DEF configVars
  <2> QED
    BY <1>0, <1>5, <2>1, WorkerStages, AdmittedMoves
<1>6. CASE UNCHANGED vars
  BY <1>0, <1>6, AdmittedMoves DEF vars, configVars, taskVars
<1> QED
  BY <1>1, <1>2, <1>3, <1>4, <1>5, <1>6 DEF Next

(* build, validate and enqueue_priority: however the configuration changes  *)
(* between their checks, an accepted task met every limit when it was read.  *)
THEOREM AcceptedWithinLimits == Spec => []AdmittedWithinLimits
<1>1. Init => AdmitInv
  BY RoundInit DEF Init, AdmitInv, AdmitTask, Calling
<1>2. AdmitInv => AdmittedWithinLimits
  BY DEF AdmitInv, AdmitTask, SizeSeen, OptionsSeen, AdmittedWithinLimits, Accepted, Calling, InRange
<1> QED
  BY <1>1, <1>2, AdmitStep, PTL DEF Spec

-----------------------------------------------------------------------------
(* Gauges.                                                                 *)
Insiders(m) == {v \in Workers : Inside(v, m)}

Bit(b) == IF b THEN 1 ELSE 0

(* A step of one worker changes how many are inside by that worker alone.   *)
LEMMA InsidersChange ==
  ASSUME NEW w \in Workers, NEW m \in Chain,
         \A v \in Workers \ {w} : pc'[v] = pc[v] /\ hook'[v] = hook[v]
  PROVE  /\ Cardinality(Insiders(m)) \in Nat
         /\ Cardinality(Insiders(m)') = Cardinality(Insiders(m)) + Bit(Inside(w, m)') - Bit(Inside(w, m))
<1>0. IsFiniteSet(Insiders(m))
  <2>1. Insiders(m) \in SUBSET Workers
    BY DEF Insiders
  <2> QED
    BY <2>1, FS_Subset, AttemptsAssumption
<1>1. Cardinality(Insiders(m)) \in Nat
  BY <1>0, FS_CardinalityType
<1>2. \A v \in Workers \ {w} : Inside(v, m)' <=> Inside(v, m)
  BY DEF Inside
<1>3. w \in Insiders(m) <=> Inside(w, m)
  BY DEF Insiders
<1>4. CASE Inside(w, m)'
  <2>1. Insiders(m)' = Insiders(m) \cup {w}
    BY <1>2, <1>4 DEF Insiders
  <2>2. Cardinality(Insiders(m) \cup {w}) =
           IF w \in Insiders(m) THEN Cardinality(Insiders(m)) ELSE Cardinality(Insiders(m)) + 1
    BY <1>0, FS_AddElement
  <2>3. Bit(Inside(w, m)') = 1 /\ Bit(Inside(w, m)) = IF w \in Insiders(m) THEN 1 ELSE 0
    BY <1>3, <1>4 DEF Bit
  <2> QED
    BY <1>1, <2>1, <2>2, <2>3
<1>5. CASE ~Inside(w, m)'
  <2>1. Insiders(m)' = Insiders(m) \ {w}
    BY <1>2, <1>5 DEF Insiders
  <2>2. Cardinality(Insiders(m) \ {w}) =
           IF w \in Insiders(m) THEN Cardinality(Insiders(m)) - 1 ELSE Cardinality(Insiders(m))
    BY <1>0, FS_RemoveElement
  <2>3. Bit(Inside(w, m)') = 0 /\ Bit(Inside(w, m)) = IF w \in Insiders(m) THEN 1 ELSE 0
    BY <1>3, <1>5 DEF Bit
  <2> QED
    BY <1>1, <2>1, <2>2, <2>3
<1> QED
  BY <1>1, <1>4, <1>5

(* What a worker's step does to a gauge and to its drift.                   *)
LEMMA GaugeChange ==
  ASSUME RoundInv, NEW w \in Workers, task_loop(w), NEW m \in Chain
  PROVE  gauge'[m] - cut'[m] = gauge[m] - cut[m] + Bit(Inside(w, m)') - Bit(Inside(w, m))
<1>0. /\ pc \in [Workers -> Pcs] /\ hook \in [Workers -> 1 .. Hooks + 1]
      /\ gauge \in [Chain -> Int] /\ cut \in [Chain -> Nat] /\ Hooks \in Nat /\ m \in 1 .. Hooks
  BY AttemptsAssumption DEF RoundInv, Types0, WorkerTypes, HookTypes, Chain
<1> USE <1>0 DEF Within, GoTo, Idle, Leave, Inside, Bit, Pcs
<1>1. CASE Take(w)
  BY <1>1 DEF Take, hookVars
<1>2. CASE BeforeOk(w)
  <2>1. /\ pc[w] = "before" /\ pc'[w] = "before" /\ hook'[w] = hook[w] + 1 /\ cut' = cut
        /\ gauge' = [gauge EXCEPT ![hook[w]] = @ + 1]
    BY <1>2 DEF BeforeOk
  <2>2. gauge'[m] = IF m = hook[w] THEN gauge[m] + 1 ELSE gauge[m]
    BY <2>1 DEF Chain
  <2>3. Inside(w, m) <=> m < hook[w]
    BY <2>1
  <2>4. Inside(w, m)' <=> m <= hook[w]
    BY <2>1
  <2> HIDE DEF Inside
  <2>5. gauge[m] \in Int /\ cut[m] \in Nat /\ cut'[m] = cut[m] /\ hook[w] \in 1 .. Hooks + 1
    BY <2>1 DEF Chain
  <2>6. CASE m < hook[w]
    BY <2>2, <2>3, <2>4, <2>5, <2>6
  <2>7. CASE m = hook[w]
    BY <2>2, <2>3, <2>4, <2>5, <2>7
  <2>8. CASE m > hook[w]
    BY <2>2, <2>3, <2>4, <2>5, <2>8
  <2> QED
    BY <2>5, <2>6, <2>7, <2>8
<1>3. CASE BeforeErr(w)
  BY <1>3 DEF BeforeErr, CutOff, Chain
<1>4. CASE Route(w)
  BY <1>4 DEF Route, hookVars, Chain
<1>5. CASE HandlerEnds(w)
  BY <1>5 DEF HandlerEnds, hookVars
<1>6. CASE After(w)
  <2>1. /\ pc[w] = "after" /\ pc'[w] = "after" /\ hook[w] \in 1 .. Hooks
        /\ gauge' = [gauge EXCEPT ![hook[w]] = @ - 1]
    BY <1>6 DEF After, Chain
  <2>2. gauge'[m] = IF m = hook[w] THEN gauge[m] - 1 ELSE gauge[m]
    BY <2>1 DEF Chain
  <2>3. Inside(w, m) <=> m >= hook[w]
    BY <2>1
  <2>4. CASE hook' = [hook EXCEPT ![w] = @ + 1] /\ cut' = cut
    <3>1. Inside(w, m)' <=> m >= hook[w] + 1
      BY <2>1, <2>4
    <3> HIDE DEF Inside
    <3>2. gauge[m] \in Int /\ cut[m] \in Nat /\ cut'[m] = cut[m] /\ hook[w] \in 1 .. Hooks
      BY <2>1, <2>4 DEF Chain
    <3>3. CASE m < hook[w]
      BY <2>2, <2>3, <3>1, <3>2, <3>3
    <3>4. CASE m = hook[w]
      BY <2>2, <2>3, <3>1, <3>2, <3>4
    <3>5. CASE m > hook[w]
      BY <2>2, <2>3, <3>1, <3>2, <3>5
    <3> QED
      BY <3>2, <3>3, <3>4, <3>5
  <2>5. CASE cut' = CutOff(hook[w] + 1 .. Hooks) /\ hook' = [hook EXCEPT ![w] = Hooks + 1]
    <3>1. ~Inside(w, m)'
      BY <2>1, <2>5
    <3>2. cut'[m] = IF m > hook[w] THEN cut[m] + 1 ELSE cut[m]
      BY <2>1, <2>5 DEF CutOff, Chain
    <3> HIDE DEF Inside
    <3>3. gauge[m] \in Int /\ cut[m] \in Nat /\ hook[w] \in 1 .. Hooks
      BY <2>1 DEF Chain
    <3>4. CASE m < hook[w]
      BY <2>2, <2>3, <3>1, <3>2, <3>3, <3>4
    <3>5. CASE m = hook[w]
      BY <2>2, <2>3, <3>1, <3>2, <3>3, <3>5
    <3>6. CASE m > hook[w]
      BY <2>2, <2>3, <3>1, <3>2, <3>3, <3>6
    <3> QED
      BY <3>3, <3>4, <3>5, <3>6
  <2> QED
    BY <1>6, <2>4, <2>5 DEF After
<1>7. CASE AckProcessed(w)
  BY <1>7 DEF AckProcessed, hookVars, Chain
<1>8. CASE AckFailed(w)
  BY <1>8 DEF AckFailed, hookVars, Chain
<1>9. CASE ScheduleRetry(w)
  BY <1>9 DEF ScheduleRetry, hookVars
<1>10. CASE Panics(w)
  <2>1. pc'[w] = "gone" /\ gauge' = gauge
    BY <1>10 DEF Panics
  <2>2. ~Inside(w, m)'
    BY <2>1
  <2> HIDE DEF Inside
  <2>3. cut'[m] = IF Inside(w, m) THEN cut[m] + 1 ELSE cut[m]
    BY <1>10 DEF Panics, CutOff, Chain
  <2> QED
    BY <2>1, <2>2, <2>3
<1> QED
  BY <1>1, <1>2, <1>3, <1>4, <1>5, <1>6, <1>7, <1>8, <1>9, <1>10 DEF task_loop, process_task

GaugeInv ==
    /\ RoundInv
    /\ \A m \in Chain : gauge[m] = Cardinality(Insiders(m)) + cut[m]

LEMMA GaugeStep == GaugeInv /\ [Next]_vars => GaugeInv'
<1> SUFFICES ASSUME GaugeInv, [Next]_vars, NEW m \in Chain
             PROVE  gauge'[m] = Cardinality(Insiders(m)') + cut'[m]
  BY RoundStep DEF GaugeInv
<1>1. RoundInv /\ gauge[m] = Cardinality(Insiders(m)) + cut[m] /\ gauge[m] \in Int /\ cut[m] \in Nat
  BY DEF GaugeInv, RoundInv, Types0, HookTypes
<1>2. ASSUME NEW w \in Workers, task_loop(w)
      PROVE  gauge'[m] = Cardinality(Insiders(m)') + cut'[m]
  <2>1. \A v \in Workers \ {w} : pc'[v] = pc[v] /\ hook'[v] = hook[v]
    BY <1>1, <1>2, WorkerKeeps
  <2>2. gauge'[m] \in Int /\ cut'[m] \in Nat
    BY <1>1, <1>2, HookTypesStep DEF HookTypes
  <2>3. /\ Cardinality(Insiders(m)) \in Nat
        /\ Cardinality(Insiders(m)') = Cardinality(Insiders(m)) + Bit(Inside(w, m)') - Bit(Inside(w, m))
    BY <2>1, InsidersChange
  <2>4. gauge'[m] - cut'[m] = gauge[m] - cut[m] + Bit(Inside(w, m)') - Bit(Inside(w, m))
    BY <1>1, <1>2, GaugeChange
  <2>5. Bit(Inside(w, m)) \in Int /\ Bit(Inside(w, m)') \in Int
    BY DEF Bit
  <2> QED
    BY <1>1, <2>2, <2>3, <2>4, <2>5
<1>3. ASSUME UNCHANGED <<pc, hook, gauge, cut>>
      PROVE  gauge'[m] = Cardinality(Insiders(m)') + cut'[m]
  <2>1. Insiders(m)' = Insiders(m)
    BY <1>3 DEF Insiders, Inside
  <2> QED
    BY <1>1, <1>3, <2>1
<1>4. ASSUME NEW t \in Tasks, Submit(t) PROVE UNCHANGED <<pc, hook, gauge, cut>>
  BY <1>1, <1>4, CallKeeps DEF workerVars, hookVars
<1>5. ASSUME ~\E w \in Workers : task_loop(w), ~\E t \in Tasks : Submit(t)
      PROVE  UNCHANGED <<pc, hook, gauge, cut>>
  BY <1>5 DEF Next, SetConfig, MuxCall, Handle, Remove, DefaultHandler, Clear, Serve, SetUp, MoveRetry,
     vars, workerVars, hookVars
<1> QED
  BY <1>2, <1>3, <1>4, <1>5

LEMMA GaugeInit == Init => GaugeInv
<1> SUFFICES ASSUME Init, NEW m \in Chain PROVE gauge[m] = Cardinality(Insiders(m)) + cut[m]
  BY RoundInit DEF GaugeInv
<1>1. Insiders(m) = {}
  BY DEF Init, Insiders, Inside
<1> QED
  BY <1>1, FS_EmptySet DEF Init

(* MiddlewareChain and process_task: for any chain, any number of workers,   *)
(* any errors of hooks and any panics of hooks and handlers, a gauge kept by *)
(* before and after is off by the attempts that such an error or panic cut   *)
(* short between the two, by each exactly one, and otherwise exact.          *)
THEOREM GaugesStayExact == Spec => []GaugesExact
<1>1. GaugeInv => GaugesExact
  BY DEF GaugeInv, GaugesExact, Insiders
<1> QED
  BY <1>1, GaugeInit, GaugeStep, PTL DEF Spec

-----------------------------------------------------------------------------
(* Backoff.                                                                *)

(* The intervals of t so far, and how many failed attempts it has behind it. *)
Counted(t) ==
    /\ \A i \in 1 .. Len(delays[t]) : delays[t][i] = Interval(i)
    /\ stage[t] \in Calling \cup {"new", "refused"} => delays[t] = <<>> /\ cnt[t] = 0
    /\ stage[t] \in {"waiting", "retry", "stuck"} => Len(delays[t]) = cnt[t]
    /\ stage[t] \in {"waiting", "retry"} => cnt[t] = 0 \/ cnt[t] < req[t].max_retry
    /\ stage[t] = "dead" =>
          /\ cnt[t] = IF req[t].max_retry = 0 THEN 1 ELSE req[t].max_retry
          /\ Len(delays[t]) = cnt[t] - 1

(* The same of the task of a round: it lags behind once an attempt failed.   *)
CountedBy(w) ==
    LET t == hold[w] IN
    /\ pc[w] \in Trying => Len(delays[t]) = cnt[t] /\ (cnt[t] = 0 \/ cnt[t] < req[t].max_retry)
    /\ pc[w] = "schedule" => cnt[t] = Len(delays[t]) + 1

BackoffInv ==
    /\ RoundInv
    /\ \A t \in Tasks : Counted(t)
    /\ \A w \in Workers : CountedBy(w)

LEMMA CountedKeeps ==
  ASSUME NEW t \in Tasks, Counted(t),
         stage'[t] = stage[t], cnt'[t] = cnt[t], delays'[t] = delays[t], req'[t] = req[t]
  PROVE  Counted(t)'
  BY DEF Counted

LEMMA CountedByKeeps ==
  ASSUME NEW v \in Workers, CountedBy(v), pc'[v] = pc[v], hold'[v] = hold[v],
         pc[v] \notin {"idle", "gone"} => cnt'[hold[v]] = cnt[hold[v]] /\ delays'[hold[v]] = delays[hold[v]]
                           /\ req'[hold[v]] = req[hold[v]]
  PROVE  CountedBy(v)'
  BY DEF CountedBy, Trying

(* The own task of a worker, through its round.                             *)
LEMMA RoundCounts ==
  ASSUME BackoffInv, NEW w \in Workers, process_task(w), NEW t \in Tasks, t = hold[w]
  PROVE  Counted(t)' /\ CountedBy(w)'
<1>0. /\ stage[t] = "held" /\ Counted(t) /\ CountedBy(w) /\ UNCHANGED req
      /\ req[t].max_retry \in Nat
  <2>1. Round(w) /\ pc[w] \notin {"idle", "gone"} /\ UNCHANGED req
    BY DEF BackoffInv, RoundInv, process_task, BeforeOk, BeforeErr, Route, HandlerEnds, After, Panics, UserCode,
       AckProcessed, AckFailed, ScheduleRetry, Within
  <2>2. stage[t] = "held"
    BY <2>1 DEF Round
  <2>3. req[t] \in TaskRequests
    BY <2>2 DEF BackoffInv, RoundInv, Types0, TaskTypes
  <2> QED
    BY <2>1, <2>2, <2>3 DEF BackoffInv, TaskRequests
<1>1. /\ stage \in [Tasks -> Stages] /\ cnt \in [Tasks -> Nat] /\ delays \in [Tasks -> Seq(Nat)]
      /\ pc \in [Workers -> Pcs] /\ hold \in [Workers -> Tasks \cup {NoTask}]
  BY DEF BackoffInv, RoundInv, Types0, TaskTypes, WorkerTypes
<1>2. CASE BeforeOk(w) \/ Route(w) \/ HandlerEnds(w) \/ After(w)
  <2>1. UNCHANGED <<stage, cnt, delays, hold>> /\ pc[w] \in Trying /\ pc'[w] \in Trying
    BY <1>1, <1>2 DEF BeforeOk, Route, HandlerEnds, After, Panics, UserCode, Within, GoTo, Trying
  <2> QED
    BY <1>0, <2>1, CountedKeeps DEF CountedBy, Trying
<1>3. CASE BeforeErr(w) \/ AckProcessed(w) \/ Panics(w)
  <2>1. /\ UNCHANGED <<cnt, delays>> /\ pc'[w] \in {"idle", "gone"}
        /\ stage'[t] \in {"stuck", "processed"}
        /\ pc[w] \in Trying
    BY <1>0, <1>1, <1>3 DEF BeforeErr, AckProcessed, Panics, UserCode, Within, Idle, Leave, GoTo, To, Trying
  <2>2. Len(delays[t]) = cnt[t]
    BY <1>0, <2>1 DEF CountedBy
  <2> QED
    BY <1>0, <2>1, <2>2 DEF Counted, CountedBy, Trying, Calling
<1>4. CASE AckFailed(w)
  <2>1. /\ pc[w] = "after" /\ cnt'[t] = cnt[t] + 1 /\ UNCHANGED delays
        /\ Len(delays[t]) = cnt[t] /\ cnt[t] \in Nat /\ (cnt[t] = 0 \/ cnt[t] < req[t].max_retry)
    BY <1>0, <1>1, <1>4 DEF AckFailed, Within, CountedBy, Trying
  <2>2. CASE can_retry(t, cnt[t] + 1)
    <3>1. UNCHANGED <<stage, hold>> /\ pc'[w] = "schedule"
      BY <1>1, <1>4, <2>2 DEF AckFailed, GoTo
    <3> QED
      BY <1>0, <2>1, <3>1 DEF Counted, CountedBy, Trying, Calling
  <2>3. CASE ~can_retry(t, cnt[t] + 1)
    <3>1. stage'[t] = "dead" /\ pc'[w] = "idle"
      BY <1>0, <1>1, <1>4, <2>3 DEF AckFailed, Idle, Leave, GoTo, To
    <3>2. cnt'[t] = IF req[t].max_retry = 0 THEN 1 ELSE req[t].max_retry
      BY <1>0, <2>1, <2>3 DEF can_retry
    <3> QED
      BY <1>0, <2>1, <3>1, <3>2 DEF Counted, CountedBy, Trying, Calling
  <2> QED
    BY <2>2, <2>3
<1>5. CASE ScheduleRetry(w)
  <2>1. /\ cnt[t] = Len(delays[t]) + 1 /\ cnt[t] \in Nat \ {0} /\ can_retry(t, cnt[t])
    BY <1>0, <1>1, <1>5 DEF ScheduleRetry, Within, CountedBy, BackoffInv, RoundInv, Round
  <2>2. /\ stage'[t] = "retry" /\ pc'[w] = "idle" /\ UNCHANGED cnt
        /\ delays'[t] = Append(delays[t], Interval(cnt[t]))
    BY <1>0, <1>1, <1>5, <2>1, DelayIsInterval DEF ScheduleRetry, Idle, Leave, GoTo, To
  <2>3. /\ delays[t] \in Seq(Nat) /\ Len(delays'[t]) = Len(delays[t]) + 1
        /\ \A i \in 1 .. Len(delays[t]) : delays'[t][i] = delays[t][i]
        /\ delays'[t][cnt[t]] = Interval(cnt[t])
    BY <1>0, <1>1, <2>1, <2>2, DelayIsInterval
  <2>4. \A i \in 1 .. Len(delays'[t]) : delays'[t][i] = Interval(i)
    <3>1. Len(delays[t]) \in Nat /\ \A i \in 1 .. Len(delays[t]) : delays[t][i] = Interval(i)
      BY <1>0, <2>3 DEF Counted
    <3> SUFFICES ASSUME NEW i \in 1 .. Len(delays'[t]) PROVE delays'[t][i] = Interval(i)
      OBVIOUS
    <3>2. i \in 1 .. Len(delays[t]) \/ i = cnt[t]
      BY <2>1, <2>3, <3>1
    <3> QED
      BY <2>3, <3>1, <3>2
  <2>5. Counted(t)'
    <3>1. stage'[t] \notin Calling \cup {"new", "refused", "dead"}
      BY <2>2 DEF Calling
    <3>2. Len(delays'[t]) = cnt'[t] /\ cnt'[t] < req'[t].max_retry
      BY <1>0, <2>1, <2>2, <2>3 DEF can_retry
    <3> QED
      BY <2>4, <3>1, <3>2 DEF Counted
  <2> QED
    BY <2>2, <2>5 DEF CountedBy, Trying
<1> QED
  BY <1>2, <1>3, <1>4, <1>5 DEF process_task

LEMMA BackoffStep == BackoffInv /\ [Next]_vars => BackoffInv'
<1> SUFFICES ASSUME BackoffInv, [Next]_vars
             PROVE  (\A t \in Tasks : Counted(t)') /\ \A w \in Workers : CountedBy(w)'
  BY RoundStep DEF BackoffInv
<1>0. RoundInv /\ (\A t \in Tasks : Counted(t)) /\ (\A w \in Workers : CountedBy(w) /\ Round(w))
  BY DEF BackoffInv, RoundInv
<1>1. ASSUME UNCHANGED <<stage, req, cnt, delays, pc, hold>>
      PROVE  (\A t \in Tasks : Counted(t)') /\ \A w \in Workers : CountedBy(w)'
  BY <1>0, <1>1, CountedKeeps, CountedByKeeps
<1>2. ASSUME NEW t \in Tasks, Submit(t)
      PROVE  (\A u \in Tasks : Counted(u)') /\ \A w \in Workers : CountedBy(w)'
  <2>1. UNCHANGED <<cnt, delays, pc, hold>>
    BY <1>0, <1>2, CallKeeps DEF workerVars
  <2>2. \A u \in Tasks \ {t} : stage'[u] = stage[u] /\ req'[u] = req[u]
    BY <1>0, <1>2, CallKeeps
  <2>3. delays[t] = <<>> /\ cnt[t] = 0 /\ stage'[t] \in Calling \cup {"refused", "waiting"}
    BY <1>0, <1>2, CallKeeps DEF Counted
  <2>4. Counted(t)'
    BY <2>1, <2>3 DEF Counted, Calling
  <2>5. \A u \in Tasks \ {t} : Counted(u)'
    BY <1>0, <2>1, <2>2, CountedKeeps
  <2>6. \A w \in Workers : pc[w] \notin {"idle", "gone"} => hold[w] \in Tasks \ {t}
    BY <1>0, <1>2, CallKeeps DEF Round, Calling
  <2>7. \A w \in Workers : CountedBy(w)'
    BY <1>0, <2>1, <2>2, <2>6, CountedByKeeps
  <2> QED
    BY <2>4, <2>5, <2>7
<1>3. ASSUME NEW t \in Tasks, MoveRetry(t)
      PROVE  (\A u \in Tasks : Counted(u)') /\ \A w \in Workers : CountedBy(w)'
  <2>1. UNCHANGED <<cnt, delays, pc, hold, req>> /\ stage[t] = "retry" /\ stage' = [stage EXCEPT ![t] = "waiting"]
    BY <1>3 DEF MoveRetry, To, workerVars
  <2>2. stage \in [Tasks -> Stages]
    BY <1>0 DEF RoundInv, Types0, TaskTypes
  <2>3. Counted(t)'
    BY <1>0, <2>1, <2>2 DEF Counted, Calling
  <2>4. \A u \in Tasks \ {t} : Counted(u)'
    BY <1>0, <2>1, <2>2, CountedKeeps
  <2> QED
    BY <1>0, <2>1, <2>3, <2>4, CountedByKeeps
<1>4. ASSUME NEW w \in Workers, task_loop(w)
      PROVE  (\A u \in Tasks : Counted(u)') /\ \A v \in Workers : CountedBy(v)'
  <2>0. /\ UNCHANGED req
        /\ \A v \in Workers \ {w} : pc'[v] = pc[v] /\ hold'[v] = hold[v]
    BY <1>0, <1>4, WorkerKeeps
  <2>1. \A v \in Workers \ {w} : pc[v] \notin {"idle", "gone"} =>
           hold[v] \in Tasks /\ stage[hold[v]] = "held" /\ hold[v] # hold[w]
    BY <1>0, AttemptsAssumption DEF RoundInv, Round, Alone
  <2>2. \A v \in Workers \ {w} : CountedBy(v)'
    <3> SUFFICES ASSUME NEW v \in Workers \ {w} PROVE CountedBy(v)'
      OBVIOUS
    <3>1. pc[v] \notin {"idle", "gone"} => cnt'[hold[v]] = cnt[hold[v]] /\ delays'[hold[v]] = delays[hold[v]]
      BY <1>0, <1>4, <2>1, OwnTask
    <3> QED
      BY <1>0, <2>0, <3>1, CountedByKeeps
  <2>3. CASE process_task(w)
    <3>0. PICK t \in Tasks : t = hold[w]
      BY <1>0, <2>3 DEF Round, process_task, BeforeOk, BeforeErr, Route, HandlerEnds, After, Panics, UserCode,
         AckProcessed, AckFailed, ScheduleRetry, Within
    <3>1. Counted(t)' /\ CountedBy(w)'
      BY <2>3, <3>0, RoundCounts
    <3>2. ASSUME NEW u \in Tasks \ {t} PROVE Counted(u)'
      <4>2. stage'[u] = stage[u] /\ cnt'[u] = cnt[u] /\ delays'[u] = delays[u]
        <5>1. stage \in [Tasks -> Stages] /\ cnt \in [Tasks -> Nat] /\ delays \in [Tasks -> Seq(Nat)]
          BY <1>0 DEF RoundInv, Types0, TaskTypes
        <5> QED
          BY <2>3, <3>0, <5>1 DEF process_task, BeforeOk, BeforeErr, Route, HandlerEnds, After, Panics, UserCode,
         AckProcessed, AckFailed, ScheduleRetry, Within, To
      <4> QED
        BY <1>0, <2>0, <4>2, CountedKeeps
    <3> QED
      BY <2>2, <3>1, <3>2
  <2>4. CASE Take(w)
    <3>1. PICK t \in Tasks : stage[t] = "waiting" /\ To(t, "held") /\ hold' = [hold EXCEPT ![w] = t]
      BY <2>4 DEF Take
    <3>2. UNCHANGED <<cnt, delays>> /\ pc' = [pc EXCEPT ![w] = "before"]
      BY <2>4 DEF Take, GoTo
    <3>3. stage \in [Tasks -> Stages] /\ pc \in [Workers -> Pcs] /\ hold \in [Workers -> Tasks \cup {NoTask}]
      BY <1>0 DEF RoundInv, Types0, TaskTypes, WorkerTypes
    <3>4. Counted(t) /\ stage'[t] = "held" /\ hold'[w] = t /\ pc'[w] = "before"
      BY <1>0, <3>1, <3>2, <3>3 DEF To
    <3>5. Counted(t)'
      BY <2>0, <3>1, <3>2, <3>4 DEF Counted, Calling
    <3>6. CountedBy(w)'
      BY <2>0, <3>1, <3>2, <3>4 DEF Counted, CountedBy, Trying
    <3>7. \A u \in Tasks \ {t} : Counted(u)'
      BY <1>0, <2>0, <3>1, <3>2, <3>3, CountedKeeps DEF To
    <3> QED
      BY <2>2, <3>5, <3>6, <3>7
  <2> QED
    BY <1>4, <2>3, <2>4 DEF task_loop
<1>5. ASSUME ~\E w \in Workers : task_loop(w), ~\E t \in Tasks : Submit(t) \/ MoveRetry(t)
      PROVE  UNCHANGED <<stage, req, cnt, delays, pc, hold>>
  BY <1>5 DEF Next, SetConfig, MuxCall, Handle, Remove, DefaultHandler, Clear, Serve, SetUp,
     vars, taskVars, workerVars
<1> QED
  BY <1>1, <1>2, <1>3, <1>4, <1>5

LEMMA BackoffInit == Init => BackoffInv
<1> SUFFICES ASSUME Init PROVE BackoffInv
  OBVIOUS
<1>1. \A t \in Tasks : Counted(t)
  BY DEF Init, Counted
<1>2. \A w \in Workers : CountedBy(w)
  BY DEF Init, CountedBy, Trying
<1> QED
  BY <1>1, <1>2, RoundInit DEF BackoffInv

(* can_retry, ack_task and schedule_retry: for any max_retry each failed     *)
(* attempt but the last is counted once and followed by one interval, also   *)
(* beside panics, and no task is taken off the active list for a retry that  *)
(* schedule_retry then refuses.                                             *)
THEOREM RetriesBackOff == Spec => []RetriesSpent
<1>1. BackoffInv => RetriesSpent
  <2> SUFFICES ASSUME BackoffInv PROVE RetriesSpent
    OBVIOUS
  <2>1. \A t \in Tasks : Counted(t) /\ stage[t] \in Stages
    BY DEF BackoffInv, RoundInv, Types0, TaskTypes
  <2> QED
    BY <2>1 DEF Counted, RetriesSpent, Stages, Calling, Ended
<1> QED
  BY <1>1, BackoffInit, BackoffStep, PTL DEF Spec

(* The intervals retry_delay really makes: 4 s first and twice the one       *)
(* before each time, with nothing above 64 s, where its comment, its test    *)
(* and the README have 2 s first and 60 s at most.                           *)
IntervalsDouble ==
    \A t \in Tasks : \A i \in DOMAIN delays[t] :
        delays[t][i] = IF i = 1 THEN 4
                       ELSE IF delays[t][i - 1] < 64 THEN 2 * delays[t][i - 1] ELSE 64

(* However many attempts fail, on whichever workers: the intervals of a task *)
(* are 4 s, 8 s and so on up to 64 s.                                        *)
THEOREM BackoffDoubles == Spec => []IntervalsDouble
<1>1. BackoffInv => IntervalsDouble
  <2> SUFFICES ASSUME BackoffInv, NEW t \in Tasks, NEW i \in DOMAIN delays[t]
               PROVE  delays[t][i] = IF i = 1 THEN 4
                                     ELSE IF delays[t][i - 1] < 64 THEN 2 * delays[t][i - 1] ELSE 64
    BY DEF IntervalsDouble
  <2>1. Counted(t) /\ delays[t] \in Seq(Nat)
    BY DEF BackoffInv, RoundInv, Types0, TaskTypes
  <2>2. CASE i # 1
    <3>1. i \in 1 .. Len(delays[t]) /\ i - 1 \in 1 .. Len(delays[t])
      BY <2>1, <2>2
    <3>2. delays[t][i] = Interval(i) /\ delays[t][i - 1] = Interval(i - 1)
      BY <2>1, <3>1 DEF Counted
    <3> QED
      BY <2>2, <3>1, <3>2 DEF Interval
  <2>3. CASE i = 1
    BY <2>1, <2>3 DEF Counted, Interval
  <2> QED
    BY <2>2, <2>3
<1> QED
  BY <1>1, BackoffInit, BackoffStep, PTL DEF Spec

(* The types, which hold because the gauges are exact.                      *)
THEOREM AttemptTypes == Spec => []TypeOK
<1>1. GaugeInv => TypeOK
  <2> SUFFICES ASSUME GaugeInv PROVE TypeOK
    OBVIOUS
  <2>1. TableTypes /\ TaskTypes /\ WorkerTypes /\ HookTypes
    BY DEF GaugeInv, RoundInv, Types0
  <2>2. ASSUME NEW m \in Chain PROVE gauge[m] \in Nat
    <3>1. Insiders(m) \in SUBSET Workers
      BY DEF Insiders
    <3>2. Cardinality(Insiders(m)) \in Nat
      BY <3>1, FS_Subset, FS_CardinalityType, AttemptsAssumption
    <3> QED
      BY <2>1, <3>2 DEF GaugeInv, HookTypes
  <2>3. {fallback, serving} \subseteq BOOLEAN
    BY <2>1, Zenon DEF TableTypes
  <2> QED
    BY <2>1, <2>2, <2>3 DEF TypeOK, TableTypes, TaskTypes, WorkerTypes, HookTypes, Stages, Pcs
<1> QED
  BY <1>1, GaugeInit, GaugeStep, PTL DEF Spec
=============================================================================
