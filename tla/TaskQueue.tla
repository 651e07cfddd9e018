----------------------------- MODULE TaskQueue -----------------------------
(***************************************************************************)
(* One Rediq queue: the Redis containers that hold the ids of its tasks,    *)
(* the client calls that submit, cancel, flush, pause and re-queue tasks,   *)
(* the workers that take and acknowledge them, and the scheduler that moves *)
(* the ones that are due.                                                   *)
(*                                                                         *)
(* A step is one Redis command or one Lua script: both are atomic in Redis, *)
(* and everything between two of them can interleave.  Commands whose       *)
(* effect no definition here reads (EXPIRE, SADD meta:queues, HSET status,  *)
(* HINCRBY stats, progress) are folded into the step beside them.           *)
(*                                                                         *)
(* Tasks here have no dependency and no group; TaskDeps adds the former.    *)
(***************************************************************************)
EXTENDS Integers, Sequences, FiniteSets

CONSTANTS
    Tasks,      \* task ids: a fresh UUID for every submitted task
    Workers,    \* worker loops, of one or of several server processes
    ServerOf,   \* the server process of each worker: its workers share a mux
    Admins,     \* calls of cancel_task and retry_task, one each
    Keys,       \* the unique keys in use
    UniqueKey,  \* options.unique_key of each task, or NoKey
    Priority,   \* options.priority of each task
    MaxRetry,   \* options.max_retry, the same for every task
    Ops,        \* the client calls that submit tasks
    Env,        \* what else may happen: see EnvEvents
    NoKey, NoTask

SubmitOps == {"enqueue", "enqueue_priority", "enqueue_delayed", "enqueue_batch"}

(* "abandon" is a Redis command that returns an error, so that `?` leaves   *)
(* the handler early, or a worker process that dies and is replaced.        *)
EnvEvents == {"pause", "flush", "expire", "abandon", "before_err"}

DefaultPriority == 50

ASSUME ConstantsAssumption ==
    /\ MaxRetry \in Nat
    /\ Priority \in [Tasks -> Nat]
    /\ ServerOf \in [Workers -> Workers]
    /\ Ops \subseteq SubmitOps
    /\ Env \subseteq EnvEvents
    /\ NoTask \notin Tasks
    /\ UniqueKey \in [Tasks -> Keys \cup {NoKey}]
    /\ NoKey \notin Keys

VARIABLES
    \* Redis
    queue,    \* List  rediq:queue:{q}, head first
    pqueue,   \* ZSet  rediq:pqueue:{q}, scored by Priority
    delayed,  \* ZSet  rediq:delayed:{q}
    retry,    \* ZSet  rediq:retry:{q}
    active,   \* List  rediq:active:{q}, as the number of entries of each id
    dead,     \* List  rediq:dead:{q}, likewise
    dedup,    \* Set   rediq:dedup:{q}
    data,     \* field "data" of rediq:task:{id}: its retry_cnt, or see below
    paused,   \* rediq:pause:{q} exists
    \* the client call that submits each task
    cpc, op,
    \* the loop of each worker: where it is, the task it holds, the retry_cnt
    \* of its copy of that task, and the status it acknowledges it with
    pc, hold, cnt, out,
    \* cancel_task and retry_task
    apc, atask,
    \* history: handler runs of each task, why a task left the queue, and the
    \* tasks each worker took since the queue was last paused
    runs, fate, took

redisVars == <<queue, pqueue, delayed, retry, active, dead, dedup, data, paused>>
clientVars == <<cpc, op>>
workerVars == <<pc, hold, cnt, out>>
adminVars == <<apc, atask>>
histVars == <<runs, fate, took>>
vars == <<redisVars, clientVars, workerVars, adminVars, histVars>>

Missing == -1    \* no hash, or a hash without the field "data"
WrongType == -2  \* a string key, as SET leaves it: HGET answers WRONGTYPE

Limit == IF MaxRetry = 0 THEN 1 ELSE MaxRetry

Holding == {"popped", "pload", "load", "before", "running", "ack", "store", "retry"}
WorkerPcs == Holding \cup {"idle", "check", "blpop", "deps"}
CancelPcs == {"pending", "active", "delayed", "retry", "dead", "priority", "clean", "unique", "freed"}
RequeuePcs == {"r_load", "r_store", "r_lrem", "r_push"}

ItemsOf(s) == {s[i] : i \in DOMAIN s}

(* Mutant: the head goes, whatever it is.                                   *)
LRemHead(s, t) == IF t \in ItemsOf(s) THEN Tail(s) ELSE s

(* LREM key 1 value: the first entry equal to the value goes.              *)
LRem(s, t) ==
    IF t \notin ItemsOf(s) THEN s
    ELSE LET k == CHOOSE i \in DOMAIN s : s[i] = t /\ \A j \in 1 .. i - 1 : s[j] # t
         IN  [i \in 1 .. Len(s) - 1 |-> IF i < k THEN s[i] ELSE s[i + 1]]

LRemCount(f, t) == [f EXCEPT ![t] = IF @ > 0 THEN @ - 1 ELSE 0]

(* The worker is done with its task and is about to do what `next` names.   *)
Release(w, next) ==
    /\ pc' = [pc EXCEPT ![w] = next]
    /\ hold' = [hold EXCEPT ![w] = NoTask]
    /\ cnt' = [cnt EXCEPT ![w] = 0]
    /\ out' = [out EXCEPT ![w] = "none"]

(* The call of an administrator goes on with step `next`, or has returned;   *)
(* of one that freed a unique key it stays known of which task ("freed").    *)
Call(a, next, t) ==
    /\ apc' = [apc EXCEPT ![a] = next]
    /\ atask' = [atask EXCEPT ![a] = IF next = "returned" THEN NoTask ELSE t]

(* A task leaves the queue for the first reason recorded.                  *)
Settle(t, why) == fate' = [fate EXCEPT ![t] = IF @ = "live" THEN why ELSE @]

-----------------------------------------------------------------------------
Init ==
    /\ queue = <<>> /\ pqueue = {} /\ delayed = {} /\ retry = {}
    /\ active = [t \in Tasks |-> 0] /\ dead = [t \in Tasks |-> 0]
    /\ dedup = {} /\ data = [t \in Tasks |-> Missing] /\ paused = FALSE
    /\ cpc = [t \in Tasks |-> "new"] /\ op = [t \in Tasks |-> "none"]
    /\ pc = [w \in Workers |-> "idle"] /\ hold = [w \in Workers |-> NoTask]
    /\ cnt = [w \in Workers |-> 0] /\ out = [w \in Workers |-> "none"]
    /\ apc = [a \in Admins |-> "idle"] /\ atask = [a \in Admins |-> NoTask]
    /\ runs = [t \in Tasks |-> 0] /\ fate = [t \in Tasks |-> "live"]
    /\ took = [w \in Workers |-> 0]

-----------------------------------------------------------------------------
(* Client: submitting a task.                                              *)

(* The first command of every call stores the task: HSET of a hash, or, in  *)
(* enqueue_batch, SET of a string.                                          *)
Store(t, o) ==
    /\ cpc[t] = "new"
    /\ o \in Ops
    /\ op' = [op EXCEPT ![t] = o]
    /\ data' = [data EXCEPT ![t] = IF o = "enqueue_batch" THEN WrongType ELSE 0]
    /\ cpc' = [cpc EXCEPT ![t] = IF o = "enqueue" THEN "dedup" ELSE "push"]
    /\ UNCHANGED <<queue, pqueue, delayed, retry, active, dead, dedup, paused,
                   workerVars, adminVars, histVars>>

(* Mutant: the answer of the script is ignored.                             *)
DedupIgnored(t) ==
    /\ cpc[t] = "dedup"
    /\ dedup' = IF UniqueKey[t] = NoKey THEN dedup ELSE dedup \cup {UniqueKey[t]}
    /\ cpc' = [cpc EXCEPT ![t] = IF op[t] = "enqueue" THEN "push" ELSE "ok"]
    /\ UNCHANGED <<queue, pqueue, delayed, retry, active, dead, data, paused, op,
                   workerVars, adminVars, histVars>>

(* The dedup script: enqueue runs it before the push and enqueue_priority   *)
(* after it, both refusing the call when the key is known; the SADD of      *)
(* enqueue_batch never refuses.                                             *)
Dedup(t) ==
    LET known == UniqueKey[t] # NoKey /\ UniqueKey[t] \in dedup
    IN  /\ cpc[t] = "dedup"
        /\ dedup' = IF UniqueKey[t] = NoKey THEN dedup ELSE dedup \cup {UniqueKey[t]}
        /\ cpc' = [cpc EXCEPT ![t] =
                     IF known /\ op[t] # "enqueue_batch" THEN "rejected"
                     ELSE IF op[t] = "enqueue" THEN "push" ELSE "ok"]
        /\ UNCHANGED <<queue, pqueue, delayed, retry, active, dead, data, paused, op,
                       workerVars, adminVars, histVars>>

(* The command that makes the task visible to workers or to the scheduler.  *)
ToPQueue(t) ==
    /\ cpc[t] = "push"
    /\ \/ op[t] = "enqueue" /\ Priority[t] # DefaultPriority
       \/ op[t] = "enqueue_priority"
    /\ pqueue' = pqueue \cup {t}
    /\ cpc' = [cpc EXCEPT ![t] = IF op[t] = "enqueue" THEN "ok" ELSE "dedup"]
    /\ UNCHANGED <<queue, delayed, retry, active, dead, dedup, data, paused, op,
                   workerVars, adminVars, histVars>>

(* A batch sends the SETs of all its tasks first, then the RPUSHes; here    *)
(* each task of it goes its own way.                                       *)
ToQueue(t) ==
    /\ cpc[t] = "push"
    /\ \/ op[t] = "enqueue" /\ Priority[t] = DefaultPriority
       \/ op[t] = "enqueue_batch"
    /\ queue' = Append(queue, t)
    /\ cpc' = [cpc EXCEPT ![t] = IF op[t] = "enqueue" THEN "ok" ELSE "dedup"]
    /\ UNCHANGED <<pqueue, delayed, retry, active, dead, dedup, data, paused, op,
                   workerVars, adminVars, histVars>>

ToDelayed(t) ==
    /\ cpc[t] = "push" /\ op[t] = "enqueue_delayed"
    /\ delayed' = delayed \cup {t}
    /\ cpc' = [cpc EXCEPT ![t] = "ok"]
    /\ UNCHANGED <<queue, pqueue, retry, active, dead, dedup, data, paused, op,
                   workerVars, adminVars, histVars>>

-----------------------------------------------------------------------------
(* Worker: one round of task_loop.                                         *)

(* Mutant: the script forgets the active list.                              *)
PDequeueUnlisted(w) ==
    /\ pc[w] = "idle" /\ ~paused
    /\ \E t \in pqueue :
          /\ \A u \in pqueue : Priority[t] <= Priority[u]
          /\ pqueue' = pqueue \ {t}
          /\ hold' = [hold EXCEPT ![w] = t]
    /\ pc' = [pc EXCEPT ![w] = "pload"]
    /\ UNCHANGED <<queue, delayed, retry, active, dead, dedup, data, paused, cnt, out,
                   clientVars, adminVars, histVars>>

(* pdequeue script.  The error replies for a paused and for an empty queue  *)
(* both come back as errors that dequeue_task_any logs before it tries the  *)
(* regular queue.                                                           *)
PDequeue(w) ==
    /\ pc[w] = "idle"
    /\ \/ /\ paused \/ pqueue = {}
          /\ pc' = [pc EXCEPT ![w] = "check"]
          /\ UNCHANGED <<pqueue, active, hold>>
       \/ /\ ~paused
          /\ \E t \in pqueue :
                /\ \A u \in pqueue : Priority[t] <= Priority[u]
                /\ pqueue' = pqueue \ {t}
                /\ active' = [active EXCEPT ![t] = @ + 1]
                /\ hold' = [hold EXCEPT ![w] = t]
          /\ pc' = [pc EXCEPT ![w] = "pload"]
    /\ UNCHANGED <<queue, delayed, retry, dead, dedup, data, paused, cnt, out,
                   clientVars, adminVars, histVars>>

(* Mutant: the worker does not look at the pause key.                       *)
CheckNothing(w) ==
    /\ pc[w] = "check"
    /\ pc' = [pc EXCEPT ![w] = "blpop"]
    /\ UNCHANGED <<redisVars, clientVars, hold, cnt, out, adminVars, histVars>>

CheckPause(w) ==
    /\ pc[w] = "check"
    /\ pc' = [pc EXCEPT ![w] = IF paused THEN "idle" ELSE "blpop"]
    /\ UNCHANGED <<redisVars, clientVars, hold, cnt, out, adminVars, histVars>>

(* BLPOP answers at once when there is an entry and with nothing after      *)
(* dequeue_timeout when there was none.                                     *)
BlPop(w) ==
    /\ pc[w] = "blpop"
    /\ \/ /\ queue # <<>>
          /\ hold' = [hold EXCEPT ![w] = Head(queue)]
          /\ queue' = Tail(queue)
          /\ pc' = [pc EXCEPT ![w] = "popped"]
          /\ took' = [took EXCEPT ![w] = IF paused THEN @ + 1 ELSE @]
       \/ /\ queue = <<>>
          /\ pc' = [pc EXCEPT ![w] = "idle"]
          /\ UNCHANGED <<queue, hold, took>>
    /\ UNCHANGED <<pqueue, delayed, retry, active, dead, dedup, data, paused, cnt, out,
                   clientVars, adminVars, runs, fate>>

PushActive(w) ==
    /\ pc[w] = "popped"
    /\ active' = [active EXCEPT ![hold[w]] = @ + 1]
    /\ pc' = [pc EXCEPT ![w] = "load"]
    /\ UNCHANGED <<queue, pqueue, delayed, retry, dead, dedup, data, paused,
                   clientVars, hold, cnt, out, adminVars, histVars>>

(* Mutant: a key of the wrong type is taken for a task.                     *)
LoadAnyType(w) ==
    /\ pc[w] \in {"pload", "load"}
    /\ data[hold[w]] # Missing
    /\ cnt' = [cnt EXCEPT ![w] = data[hold[w]]]
    /\ pc' = [pc EXCEPT ![w] = "before"]
    /\ UNCHANGED <<redisVars, clientVars, hold, out, adminVars, histVars>>

(* load_task.  When the field is missing or the key has the wrong type the  *)
(* worker drops the task and leaves its id on the active list; after the    *)
(* priority script it goes on to the regular queue in the same round.       *)
Load(w) ==
    /\ pc[w] \in {"pload", "load"}
    /\ \/ /\ data[hold[w]] >= 0
          /\ cnt' = [cnt EXCEPT ![w] = data[hold[w]]]
          /\ pc' = [pc EXCEPT ![w] = "before"]
          /\ UNCHANGED <<hold, out, fate>>
       \/ /\ data[hold[w]] < 0
          /\ Release(w, IF pc[w] = "pload" THEN "check" ELSE "idle")
          /\ Settle(hold[w], "unloadable")
    /\ UNCHANGED <<redisVars, clientVars, adminVars, runs, took>>

(* A middleware whose before hook fails ends process_task before the        *)
(* handler and before any acknowledgement.                                  *)
BeforeFails(w) ==
    /\ "before_err" \in Env
    /\ pc[w] = "before"
    /\ Release(w, "idle")
    /\ Settle(hold[w], "abandoned")
    /\ UNCHANGED <<redisVars, clientVars, adminVars, runs, took>>

(* The mux mutex of the server is held for the whole handler.              *)
Start(w) ==
    /\ pc[w] = "before"
    /\ \A v \in Workers : ServerOf[v] = ServerOf[w] => pc[v] # "running"
    /\ pc' = [pc EXCEPT ![w] = "running"]
    /\ runs' = [runs EXCEPT ![hold[w]] = @ + 1]
    /\ UNCHANGED <<redisVars, clientVars, hold, cnt, out, adminVars, fate, took>>

(* The handler returned Ok, or returned an error or ran out of time: the    *)
(* status the task is acknowledged with follows from its counter.           *)
Succeed(w) ==
    /\ pc[w] = "running"
    /\ pc' = [pc EXCEPT ![w] = "ack"]
    /\ out' = [out EXCEPT ![w] = "Processed"]
    /\ UNCHANGED <<redisVars, clientVars, hold, cnt, adminVars, histVars>>

can_retry(n) == n < MaxRetry

(* Mutant: the failed attempt is not counted.                               *)
FailUncounted(w) ==
    /\ pc[w] = "running"
    /\ pc' = [pc EXCEPT ![w] = "ack"]
    /\ out' = [out EXCEPT ![w] = IF can_retry(cnt[w]) THEN "Retry" ELSE "Dead"]
    /\ UNCHANGED <<redisVars, clientVars, hold, cnt, adminVars, histVars>>

Fail(w) ==
    /\ pc[w] = "running"
    /\ pc' = [pc EXCEPT ![w] = "ack"]
    /\ cnt' = [cnt EXCEPT ![w] = @ + 1]
    /\ out' = [out EXCEPT ![w] = IF can_retry(cnt[w] + 1) THEN "Retry" ELSE "Dead"]
    /\ UNCHANGED <<redisVars, clientVars, hold, adminVars, histVars>>

(* ack_task: LREM active, then HSET of the task (which recreates the hash   *)
(* of a task cancelled meanwhile).                                          *)
AckRemove(w) ==
    /\ pc[w] = "ack"
    /\ active' = LRemCount(active, hold[w])
    /\ pc' = [pc EXCEPT ![w] = "store"]
    /\ UNCHANGED <<queue, pqueue, delayed, retry, dead, dedup, data, paused,
                   clientVars, hold, cnt, out, adminVars, histVars>>

(* Mutant: a dead task is scheduled for a retry all the same.               *)
AckStoreRetries(w) ==
    /\ pc[w] = "store"
    /\ data' = [data EXCEPT ![hold[w]] = cnt[w]]
    /\ pc' = [pc EXCEPT ![w] = IF out[w] = "Processed" THEN "deps" ELSE "retry"]
    /\ IF out[w] = "Retry" THEN UNCHANGED fate
       ELSE Settle(hold[w], IF out[w] = "Processed" THEN "processed" ELSE "dead")
    /\ UNCHANGED <<queue, pqueue, delayed, retry, active, dead, dedup, paused,
                   clientVars, hold, cnt, out, adminVars, runs, took>>

AckStore(w) ==
    /\ pc[w] = "store"
    /\ data' = [data EXCEPT ![hold[w]] = cnt[w]]
    /\ pc' = [pc EXCEPT ![w] = IF out[w] = "Retry" THEN "retry" ELSE "deps"]
    /\ IF out[w] = "Retry" THEN UNCHANGED fate
       ELSE Settle(hold[w], IF out[w] = "Processed" THEN "processed" ELSE "dead")
    /\ UNCHANGED <<queue, pqueue, delayed, retry, active, dead, dedup, paused,
                   clientVars, hold, cnt, out, adminVars, runs, took>>

ScheduleRetry(w) ==
    /\ pc[w] = "retry"
    /\ retry' = retry \cup {hold[w]}
    /\ Release(w, "idle")
    /\ UNCHANGED <<queue, pqueue, delayed, active, dead, dedup, data, paused,
                   clientVars, adminVars, histVars>>

(* check_dependents and fail_dependents when SMEMBERS task_deps is empty.   *)
NoDependents(w) ==
    /\ pc[w] = "deps"
    /\ Release(w, "idle")
    /\ UNCHANGED <<redisVars, clientVars, adminVars, histVars>>

Abandon(w) ==
    /\ "abandon" \in Env
    /\ hold[w] # NoTask
    /\ Release(w, "idle")
    /\ Settle(hold[w], "abandoned")
    /\ UNCHANGED <<redisVars, clientVars, adminVars, runs, took>>

-----------------------------------------------------------------------------
(* Scheduler: move_expired_tasks_lua.  Which members are due depends on     *)
(* time, which is not modelled; moving several in one script is the same as *)
(* moving them one after another.                                           *)
MoveDelayed(t) ==
    /\ t \in delayed
    /\ delayed' = delayed \ {t}
    /\ queue' = Append(queue, t)
    /\ UNCHANGED <<pqueue, retry, active, dead, dedup, data, paused,
                   clientVars, workerVars, adminVars, histVars>>

(* Mutant: the script pushes a due task and does not remove it.             *)
MoveRetryKept(t) ==
    /\ t \in retry
    /\ queue' = Append(queue, t)
    /\ UNCHANGED <<pqueue, delayed, retry, active, dead, dedup, data, paused,
                   clientVars, workerVars, adminVars, histVars>>

MoveRetry(t) ==
    /\ t \in retry
    /\ retry' = retry \ {t}
    /\ queue' = Append(queue, t)
    /\ UNCHANGED <<pqueue, delayed, active, dead, dedup, data, paused,
                   clientVars, workerVars, adminVars, histVars>>

-----------------------------------------------------------------------------
(* Client: queue administration.                                           *)
SetPause(b) ==
    /\ "pause" \in Env
    /\ paused' = b
    /\ took' = IF b = paused THEN took ELSE [w \in Workers |-> 0]
    /\ UNCHANGED <<queue, pqueue, delayed, retry, active, dead, dedup, data,
                   clientVars, workerVars, adminVars, runs, fate>>

Flush ==
    /\ "flush" \in Env
    /\ queue' = <<>>
    /\ fate' = [t \in Tasks |-> IF t \in ItemsOf(queue) /\ fate[t] = "live"
                                THEN "flushed" ELSE fate[t]]
    /\ UNCHANGED <<pqueue, delayed, retry, active, dead, dedup, data, paused,
                   clientVars, workerVars, adminVars, runs, took>>

(* The TTL of the task key runs out.                                       *)
Expire(t) ==
    /\ "expire" \in Env
    /\ data[t] # Missing
    /\ data' = [data EXCEPT ![t] = Missing]
    /\ UNCHANGED <<queue, pqueue, delayed, retry, active, dead, dedup, paused,
                   clientVars, workerVars, adminVars, histVars>>

(* cancel_task looks into six containers in this order, one command each,   *)
(* and stops at the first one that held the id.                             *)
StartCancel(a, t) ==
    /\ apc[a] = "idle" /\ cpc[t] # "new"
    /\ Call(a, "pending", t)
    /\ UNCHANGED <<redisVars, clientVars, workerVars, histVars>>

NextPlace == [pending |-> "active", active |-> "delayed", delayed |-> "retry",
              retry |-> "dead", dead |-> "priority", priority |-> "returned"]

CancelStep(a) ==
    LET t == atask[a]
        place == apc[a]
        found == CASE place = "pending" -> t \in ItemsOf(queue)
                   [] place = "active" -> active[t] > 0
                   [] place = "delayed" -> t \in delayed
                   [] place = "retry" -> t \in retry
                   [] place = "dead" -> dead[t] > 0
                   [] place = "priority" -> t \in pqueue
    IN  /\ place \in DOMAIN NextPlace
        /\ queue' = IF place = "pending" THEN LRem(queue, t) ELSE queue
        /\ active' = IF place = "active" THEN LRemCount(active, t) ELSE active
        /\ delayed' = IF place = "delayed" THEN delayed \ {t} ELSE delayed
        /\ retry' = IF place = "retry" THEN retry \ {t} ELSE retry
        /\ dead' = IF place = "dead" THEN LRemCount(dead, t) ELSE dead
        /\ pqueue' = IF place = "priority" THEN pqueue \ {t} ELSE pqueue
        /\ Call(a, IF found THEN "clean" ELSE NextPlace[place], t)
        /\ IF found THEN Settle(t, "cancelled") ELSE UNCHANGED fate
        /\ UNCHANGED <<dedup, data, paused, clientVars, workerVars, runs, took>>

(* The clean-up of a task that was found; cancel_task_with_unique then      *)
(* frees the unique key.                                                    *)
CancelClean(a) ==
    /\ apc[a] = "clean"
    /\ data' = [data EXCEPT ![atask[a]] = Missing]
    /\ \E next \in {"returned", "unique"} : Call(a, next, atask[a])
    /\ UNCHANGED <<queue, pqueue, delayed, retry, active, dead, dedup, paused,
                   clientVars, workerVars, histVars>>

CancelUnique(a) ==
    /\ apc[a] = "unique"
    /\ dedup' = dedup \ {UniqueKey[atask[a]]}
    /\ Call(a, "freed", atask[a])
    /\ UNCHANGED <<queue, pqueue, delayed, retry, active, dead, data, paused,
                   clientVars, workerVars, histVars>>

(* retry_task: LRANGE dead, HGET, HSET, LREM (whose result is ignored),     *)
(* RPUSH.                                                                   *)
StartRequeue(a, t) ==
    /\ apc[a] = "idle"
    /\ dead[t] > 0
    /\ Call(a, "r_load", t)
    /\ UNCHANGED <<redisVars, clientVars, workerVars, histVars>>

RequeueLoad(a) ==
    /\ apc[a] = "r_load"
    /\ Call(a, IF data[atask[a]] >= 0 THEN "r_store" ELSE "returned", atask[a])
    /\ UNCHANGED <<redisVars, clientVars, workerVars, histVars>>

RequeueStore(a) ==
    /\ apc[a] = "r_store"
    /\ data' = [data EXCEPT ![atask[a]] = 0]
    /\ runs' = [runs EXCEPT ![atask[a]] = 0]
    /\ Call(a, "r_lrem", atask[a])
    /\ UNCHANGED <<queue, pqueue, delayed, retry, active, dead, dedup, paused,
                   clientVars, workerVars, fate, took>>

RequeueRemove(a) ==
    /\ apc[a] = "r_lrem"
    /\ dead' = LRemCount(dead, atask[a])
    /\ Call(a, "r_push", atask[a])
    /\ UNCHANGED <<queue, pqueue, delayed, retry, active, dedup, data, paused,
                   clientVars, workerVars, histVars>>

RequeuePush(a) ==
    /\ apc[a] = "r_push"
    /\ queue' = Append(queue, atask[a])
    /\ fate' = [fate EXCEPT ![atask[a]] = "live"]
    /\ Call(a, "returned", atask[a])
    /\ UNCHANGED <<pqueue, delayed, retry, active, dead, dedup, data, paused,
                   clientVars, workerVars, runs, took>>

-----------------------------------------------------------------------------
Submit(t) == (\E o \in Ops : Store(t, o)) \/ Dedup(t) \/ ToPQueue(t) \/ ToQueue(t) \/ ToDelayed(t)

Take(w) == PDequeue(w) \/ CheckPause(w) \/ BlPop(w) \/ PushActive(w) \/ Load(w)

Process(w) == Start(w) \/ Succeed(w) \/ Fail(w)

Ack(w) == AckRemove(w) \/ AckStore(w) \/ ScheduleRetry(w)

Cancel(a) == (\E t \in Tasks : StartCancel(a, t)) \/ CancelStep(a) \/ CancelClean(a) \/ CancelUnique(a)

Requeue(a) ==
    \/ \E t \in Tasks : StartRequeue(a, t)
    \/ RequeueLoad(a) \/ RequeueStore(a) \/ RequeueRemove(a) \/ RequeuePush(a)

Core ==
    \/ \E t \in Tasks : Submit(t) \/ MoveDelayed(t) \/ MoveRetry(t) \/ Expire(t)
    \/ \E w \in Workers : Take(w) \/ Process(w) \/ Ack(w) \/ BeforeFails(w) \/ Abandon(w)
    \/ \E a \in Admins : Cancel(a)
    \/ \E b \in BOOLEAN : SetPause(b)
    \/ Flush

Next == Core \/ \E w \in Workers : NoDependents(w)

Spec == Init /\ [][Next]_vars

-----------------------------------------------------------------------------
Fates == {"live", "processed", "dead", "cancelled", "flushed", "abandoned", "unloadable"}

(* The type of every variable.                                             *)
TypeOK ==
    /\ queue \in Seq(Tasks)
    /\ pqueue \subseteq Tasks /\ delayed \subseteq Tasks /\ retry \subseteq Tasks
    /\ active \in [Tasks -> Nat] /\ dead \in [Tasks -> Nat]
    /\ dedup \subseteq Keys
    /\ data \in [Tasks -> Nat \cup {Missing, WrongType}]
    /\ paused \in BOOLEAN
    /\ cpc \in [Tasks -> {"new", "dedup", "push", "ok", "rejected"}]
    /\ op \in [Tasks -> SubmitOps \cup {"none"}]
    /\ pc \in [Workers -> WorkerPcs]
    /\ hold \in [Workers -> Tasks \cup {NoTask}]
    /\ cnt \in [Workers -> Nat]
    /\ out \in [Workers -> {"none", "Processed", "Retry", "Dead"}]
    /\ apc \in [Admins -> CancelPcs \cup RequeuePcs \cup {"idle", "returned"}]
    /\ atask \in [Admins -> Tasks \cup {NoTask}]
    /\ runs \in [Tasks -> Nat]
    /\ fate \in [Tasks -> Fates]
    /\ took \in [Workers -> Nat]

HeldBy(t) == {w \in Workers : hold[w] = t /\ pc[w] \in Holding}

(* Everything that can still lead to a run of the handler of task t: a      *)
(* queue entry, a member of a ZSet, a worker that has not acknowledged it.  *)
Places(t) ==
    {<<"queue", i>> : i \in {j \in DOMAIN queue : queue[j] = t}}
    \cup {<<"worker", w>> : w \in HeldBy(t)}
    \cup {<<"zset", z>> : z \in {k \in {"pqueue", "delayed", "retry"} :
                                   \/ k = "pqueue" /\ t \in pqueue
                                   \/ k = "delayed" /\ t \in delayed
                                   \/ k = "retry" /\ t \in retry}}

(* Whatever the interleaving of clients, workers, scheduler and             *)
(* administrators, and whatever fails, a task is never queued twice, never  *)
(* held by two workers, and never queued while a worker holds it.           *)
SingleCopy == \A t \in Tasks : \A p, q \in Places(t) : p = q

OnActive(t) == {w \in HeldBy(t) : pc[w] \in {"pload", "load", "before", "running", "ack"}}

(* The active list: an id is on it at most once and not while the task      *)
(* waits anywhere; a task that nobody cancelled is on it while a worker has *)
(* it between the dequeue and the acknowledgement; and an entry without     *)
(* such a worker is that of a task a worker dropped.                        *)
ActiveListExact ==
    \A t \in Tasks :
        /\ active[t] <= 1
        /\ active[t] = 1 => Places(t) = {<<"worker", w>> : w \in OnActive(t)}
        /\ OnActive(t) # {} /\ fate[t] = "live" => active[t] = 1
        /\ active[t] = 1 /\ OnActive(t) = {} => fate[t] \in {"abandoned", "unloadable", "cancelled"}

(* The call that submits t has made it visible.                            *)
Visible(t) ==
    \/ cpc[t] = "ok"
    \/ op[t] \in {"enqueue_priority", "enqueue_batch"} /\ cpc[t] \in {"dedup", "rejected"}

(* No task gets lost without a reason, and none comes back: a submitted     *)
(* task is somewhere exactly until it is processed, dead, flushed or        *)
(* dropped by its worker.  (A cancelled task may come back: the worker that  *)
(* holds it goes on and may schedule a retry.)                              *)
Conservation ==
    \A t \in Tasks : fate[t] # "cancelled" =>
        (Places(t) # {} <=> Visible(t) /\ fate[t] = "live")

(* A handler starts at most max_retry times (once when it is 0) for one     *)
(* task, across crashes, expired data and cancellation.                     *)
RunsBounded == \A t \in Tasks : runs[t] <= Limit

(* The counter a waiting task carries in Redis is the number of times its   *)
(* handler ran.                                                             *)
CounterExact ==
    \A t \in Tasks :
        t \in ItemsOf(queue) \cup pqueue \cup delayed \cup retry /\ data[t] >= 0 => data[t] = runs[t]

(* However calls race, and whatever crashes, fails or expires: a unique key  *)
(* lets one call of enqueue through, and one more for each call of           *)
(* cancel_task_with_unique that freed it; and such a call had found its task *)
(* in a container, or on the active list where its worker had left it.       *)
Admitted(k) == {t \in Tasks : UniqueKey[t] = k /\ op[t] = "enqueue" /\ cpc[t] = "ok"}
FreedBy(k) == {a \in Admins : apc[a] = "freed" /\ UniqueKey[atask[a]] = k}

UniqueKeyHonoured ==
    /\ \A k \in Keys : Cardinality(Admitted(k)) <= 1 + Cardinality(FreedBy(k))
    /\ \A a \in Admins :
          apc[a] = "freed" => fate[atask[a]] \in {"cancelled", "abandoned", "unloadable"}

(* After pause_queue a worker takes at most one more task: the one its      *)
(* BLPOP, issued after its last look at the pause key, was waiting for.     *)
PauseLeaksOne == \A w \in Workers : took[w] <= 1

(* What the README says of the dead letter queue: once its worker has let   *)
(* go of it, a task whose last attempt failed is on the dead list.          *)
DeadAreListed ==
    \A t \in Tasks :
        fate[t] = "dead" /\ (\A w \in Workers : hold[w] # t) => dead[t] > 0

(* The stage of TaskLifecycle each task is in.                              *)
StageOf(t) ==
    IF t \in ItemsOf(queue) \cup pqueue THEN "pending"
    ELSE IF t \in delayed THEN "delayed"
    ELSE IF t \in retry THEN "retry"
    ELSE IF HeldBy(t) # {} THEN "active"
    ELSE IF fate[t] \in {"processed", "dead"} THEN fate[t]
    ELSE IF fate[t] # "live" THEN "dropped"
    ELSE "new"

Lifecycle == INSTANCE TaskLifecycle WITH stage <- [t \in Tasks |-> StageOf(t)], attempts <- runs

(* The queue implements the task state machine.                            *)
ImplementsLifecycle == Lifecycle!LifeSpec
=============================================================================
