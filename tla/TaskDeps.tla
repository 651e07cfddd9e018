------------------------------ MODULE TaskDeps ------------------------------
(***************************************************************************)
(* TaskQueue with options.depends_on: enqueue parks a task that has         *)
(* dependencies, and the worker that finished one of them releases it       *)
(* (check_dependents) or fails it (fail_dependents), one Redis command at a *)
(* time and without any lock between workers and clients.                   *)
(***************************************************************************)
EXTENDS TaskQueue

CONSTANT DependsOn  \* options.depends_on of each task

ASSUME DependsOnAssumption == DependsOn \in [Tasks -> SUBSET Tasks]

VARIABLES
    pending,     \* Set rediq:pending_deps:{id}: what the task still waits for
    dependents,  \* Set rediq:task_deps:{id}: who waits for the task
    unlinked,    \* the loop of enqueue: dependencies without the back link yet
    left, cur,   \* the loop of a worker over the dependents it read
    excused      \* history: the dependents no loop may reach any more, because
                 \* they were linked too late or the loop was cut off

depVars == <<pending, dependents, unlinked, left, cur, excused>>
allVars == <<vars, depVars>>

CheckPcs == {"c_next", "c_card", "c_queue", "c_push", "c_clean"}
FailPcs == {"f_next", "f_store", "f_push", "f_clean"}

DepInit ==
    /\ Init
    /\ pending = [t \in Tasks |-> {}] /\ dependents = [t \in Tasks |-> {}]
    /\ unlinked = [t \in Tasks |-> {}]
    /\ left = [w \in Workers |-> {}] /\ cur = [w \in Workers |-> NoTask]
    /\ excused = {}

-----------------------------------------------------------------------------
(* Client.                                                                 *)

(* Only enqueue looks at depends_on.                                       *)
Parked(t, o) == o = "enqueue" /\ DependsOn[t] # {}

PlainStore(t, o) == ~Parked(t, o) /\ Store(t, o) /\ UNCHANGED depVars

(* HSET of the task, then SADD pending_deps for every dependency: nobody    *)
(* reads that set before the first back link exists, so one step will do.   *)
StoreParked(t) ==
    /\ cpc[t] = "new" /\ \E o \in Ops : Parked(t, o)
    /\ op' = [op EXCEPT ![t] = "enqueue"]
    /\ data' = [data EXCEPT ![t] = 0]
    /\ pending' = [pending EXCEPT ![t] = DependsOn[t]]
    /\ unlinked' = [unlinked EXCEPT ![t] = DependsOn[t]]
    /\ cpc' = [cpc EXCEPT ![t] = "link"]
    /\ UNCHANGED <<queue, pqueue, delayed, retry, active, dead, dedup, paused,
                   workerVars, adminVars, histVars, dependents, left, cur, excused>>

(* The worker that finished d has read who depends on it.                   *)
Visited(d) ==
    /\ fate[d] # "live"
    /\ \A w \in Workers : hold[w] = d => pc[w] \notin Holding \cup {"deps"}

(* Mutant: the call goes on to push the parked task.                        *)
LinkAndPush(t, d) ==
    /\ cpc[t] = "link" /\ d \in unlinked[t]
    /\ dependents' = [dependents EXCEPT ![d] = @ \cup {t}]
    /\ unlinked' = [unlinked EXCEPT ![t] = @ \ {d}]
    /\ cpc' = [cpc EXCEPT ![t] = IF unlinked[t] = {d} THEN "dedup" ELSE "link"]
    /\ excused' = excused \cup (IF Visited(d) THEN {t} ELSE {})
    /\ UNCHANGED <<redisVars, op, workerVars, adminVars, histVars, pending, left, cur>>

(* SADD task_deps:{d} t, and the call returns after the last one.           *)
Link(t, d) ==
    /\ cpc[t] = "link" /\ d \in unlinked[t]
    /\ dependents' = [dependents EXCEPT ![d] = @ \cup {t}]
    /\ unlinked' = [unlinked EXCEPT ![t] = @ \ {d}]
    /\ cpc' = [cpc EXCEPT ![t] = IF unlinked[t] = {d} THEN "ok" ELSE "link"]
    /\ excused' = excused \cup (IF Visited(d) THEN {t} ELSE {})
    /\ UNCHANGED <<redisVars, op, workerVars, adminVars, histVars, pending, left, cur>>

(* cancel_task also deletes both sets of the task it found (three DELs in a *)
(* row, here one step).                                                     *)
CancelCleanDeps(a) ==
    /\ CancelClean(a)
    /\ pending' = [pending EXCEPT ![atask[a]] = {}]
    /\ dependents' = [dependents EXCEPT ![atask[a]] = {}]
    /\ UNCHANGED <<unlinked, left, cur, excused>>

-----------------------------------------------------------------------------
(* Worker: what follows an acknowledgement as Processed or Dead.           *)

(* Both start with SMEMBERS task_deps and return when it is empty.          *)
ReadDependents(w) ==
    /\ pc[w] = "deps"
    /\ IF dependents[hold[w]] = {}
       THEN Release(w, "idle") /\ UNCHANGED left
       ELSE /\ pc' = [pc EXCEPT ![w] = IF out[w] = "Processed" THEN "c_next" ELSE "f_next"]
            /\ left' = [left EXCEPT ![w] = dependents[hold[w]]]
            /\ UNCHANGED <<hold, cnt, out>>
    /\ UNCHANGED <<redisVars, clientVars, adminVars, histVars,
                   pending, dependents, unlinked, cur, excused>>

(* The loops end with DEL task_deps of the finished task.                   *)
DropDependents(w) ==
    /\ pc[w] \in {"c_next", "f_next"} /\ left[w] = {}
    /\ dependents' = [dependents EXCEPT ![hold[w]] = {}]
    /\ cur' = [cur EXCEPT ![w] = NoTask]
    /\ Release(w, "idle")
    /\ UNCHANGED <<redisVars, clientVars, adminVars, histVars, pending, unlinked, left, excused>>

Step(w, next) == pc' = [pc EXCEPT ![w] = next] /\ UNCHANGED <<hold, out>>

(* Whom the loop of w has not dealt with.                                   *)
Unvisited(w) == (left[w] \cup {cur[w]}) \ {NoTask}

(* An error that the loop does not catch ends it.                           *)
Break(w) ==
    /\ Release(w, "idle")
    /\ left' = [left EXCEPT ![w] = {}]
    /\ cur' = [cur EXCEPT ![w] = NoTask]
    /\ excused' = excused \cup Unvisited(w)

(* Mutant: the loop handles a dependent again and again.                    *)
RemovePendingAgain(w, d) ==
    /\ pc[w] = "c_next" /\ d \in left[w]
    /\ cur' = [cur EXCEPT ![w] = d]
    /\ pending' = [pending EXCEPT ![d] = @ \ {hold[w]}]
    /\ Step(w, "c_card")
    /\ UNCHANGED <<redisVars, clientVars, cnt, adminVars, histVars, dependents, unlinked, left, excused>>

(* Mutant: DEL of what is pending instead of SREM of one member.            *)
RemoveAllPending(w, d) ==
    /\ pc[w] = "c_next" /\ d \in left[w]
    /\ left' = [left EXCEPT ![w] = @ \ {d}]
    /\ cur' = [cur EXCEPT ![w] = d]
    /\ pending' = [pending EXCEPT ![d] = {}]
    /\ Step(w, "c_card")
    /\ UNCHANGED <<redisVars, clientVars, cnt, adminVars, histVars, dependents, unlinked, excused>>

(* check_dependents: SREM pending_deps, then SCARD in a command of its own. *)
RemovePending(w, d) ==
    /\ pc[w] = "c_next" /\ d \in left[w]
    /\ left' = [left EXCEPT ![w] = @ \ {d}]
    /\ cur' = [cur EXCEPT ![w] = d]
    /\ pending' = [pending EXCEPT ![d] = @ \ {hold[w]}]
    /\ Step(w, "c_card")
    /\ UNCHANGED <<redisVars, clientVars, cnt, adminVars, histVars, dependents, unlinked, excused>>

CountPending(w) ==
    /\ pc[w] = "c_card"
    /\ Step(w, IF pending[cur[w]] = {} THEN "c_queue" ELSE "c_next")
    /\ UNCHANGED <<redisVars, clientVars, cnt, adminVars, histVars, depVars>>

(* HGET queue of the dependent: absent when its hash is gone, an error that *)
(* ends check_dependents when the key is a string.                          *)
ReadQueue(w) ==
    /\ pc[w] = "c_queue"
    /\ IF data[cur[w]] = WrongType
       THEN Break(w)
       ELSE /\ Step(w, IF data[cur[w]] = Missing THEN "c_clean" ELSE "c_push")
            /\ UNCHANGED <<cnt, left, cur, excused>>
    /\ UNCHANGED <<redisVars, clientVars, adminVars, histVars, pending, dependents, unlinked>>

(* Mutant: the dependent is cleaned up and not pushed.                      *)
ReleaseNothing(w) ==
    /\ pc[w] = "c_push"
    /\ Step(w, "c_clean")
    /\ UNCHANGED <<redisVars, clientVars, cnt, adminVars, histVars, depVars>>

(* RPUSH: always the plain list, whatever the priority of the dependent.    *)
ReleaseDependent(w) ==
    /\ pc[w] = "c_push"
    /\ queue' = Append(queue, cur[w])
    /\ Step(w, "c_clean")
    /\ UNCHANGED <<pqueue, delayed, retry, active, dead, dedup, data, paused,
                   clientVars, cnt, adminVars, histVars, depVars>>

(* Mutant: a dependent whose hash is gone is taken for a task.              *)
ReadDependentUnchecked(w, d) ==
    /\ pc[w] = "f_next" /\ d \in left[w]
    /\ left' = [left EXCEPT ![w] = @ \ {d}]
    /\ cur' = [cur EXCEPT ![w] = d]
    /\ cnt' = [cnt EXCEPT ![w] = data[d]]
    /\ Step(w, "f_store")
    /\ UNCHANGED <<redisVars, clientVars, adminVars, histVars, pending, dependents, unlinked, excused>>

(* fail_dependents: HGET data of the dependent, ...                         *)
ReadDependent(w, d) ==
    /\ pc[w] = "f_next" /\ d \in left[w]
    /\ IF data[d] = WrongType
       THEN Break(w)
       ELSE /\ left' = [left EXCEPT ![w] = @ \ {d}]
            /\ cur' = [cur EXCEPT ![w] = d]
            /\ cnt' = [cnt EXCEPT ![w] = IF data[d] = Missing THEN 0 ELSE data[d]]
            /\ Step(w, IF data[d] = Missing THEN "f_clean" ELSE "f_store")
            /\ UNCHANGED excused
    /\ UNCHANGED <<redisVars, clientVars, adminVars, histVars, pending, dependents, unlinked>>

(* ... HSET of the same task with status Dead, ...                          *)
StoreDead(w) ==
    /\ pc[w] = "f_store"
    /\ data' = [data EXCEPT ![cur[w]] = cnt[w]]
    /\ Step(w, "f_push")
    /\ UNCHANGED <<queue, pqueue, delayed, retry, active, dead, dedup, paused,
                   clientVars, cnt, adminVars, histVars, depVars>>

(* ... and LPUSH on the dead list.                                         *)
PushDead(w) ==
    /\ pc[w] = "f_push"
    /\ dead' = [dead EXCEPT ![cur[w]] = @ + 1]
    /\ Settle(cur[w], "dead")
    /\ Step(w, "f_clean")
    /\ UNCHANGED <<queue, pqueue, delayed, retry, active, dedup, data, paused,
                   clientVars, cnt, adminVars, runs, took, depVars>>

(* Either loop deletes pending_deps of the dependent it dealt with.         *)
CleanPending(w) ==
    /\ pc[w] \in {"c_clean", "f_clean"}
    /\ pending' = [pending EXCEPT ![cur[w]] = {}]
    /\ Step(w, IF pc[w] = "c_clean" THEN "c_next" ELSE "f_next")
    /\ UNCHANGED <<redisVars, clientVars, cnt, adminVars, histVars, dependents,
                   unlinked, left, cur, excused>>

(* A RPUSH, HSET or LPUSH that fails is logged, and the loop goes on with   *)
(* the next dependent without the clean-up.                                 *)
SkipDependent(w) ==
    /\ "abandon" \in Env
    /\ pc[w] \in {"c_push", "f_store", "f_push"}
    /\ Step(w, IF pc[w] = "c_push" THEN "c_next" ELSE "f_next")
    /\ excused' = excused \cup {cur[w]}
    /\ UNCHANGED <<redisVars, clientVars, cnt, adminVars, histVars, pending, dependents,
                   unlinked, left, cur>>

(* Any other failed command, or the death of the worker, ends the loop.     *)
AbandonDeps(w) ==
    /\ Abandon(w)
    /\ left' = [left EXCEPT ![w] = {}]
    /\ cur' = [cur EXCEPT ![w] = NoTask]
    /\ excused' = excused \cup Unvisited(w) \cup dependents[hold[w]]
    /\ UNCHANGED <<pending, dependents, unlinked>>

-----------------------------------------------------------------------------
SubmitDeps(t) ==
    \/ \E o \in Ops : PlainStore(t, o)
    \/ StoreParked(t)
    \/ \E d \in Tasks : Link(t, d)
    \/ (Dedup(t) \/ ToPQueue(t) \/ ToQueue(t) \/ ToDelayed(t)) /\ UNCHANGED depVars

CheckDependents(w) ==
    \/ \E d \in Tasks : RemovePending(w, d)
    \/ CountPending(w) \/ ReadQueue(w) \/ ReleaseDependent(w)

FailDependents(w) ==
    \/ \E d \in Tasks : ReadDependent(w, d)
    \/ StoreDead(w) \/ PushDead(w)

FinishDeps(w) ==
    \/ ReadDependents(w) \/ CheckDependents(w) \/ FailDependents(w)
    \/ CleanPending(w) \/ DropDependents(w)

RunDeps(w) ==
    \/ (Take(w) \/ Process(w) \/ Ack(w)) /\ UNCHANGED depVars
    \/ FinishDeps(w)

MoveDue(t) == (MoveDelayed(t) \/ MoveRetry(t)) /\ UNCHANGED depVars

(* The other events of TaskQueue.  The TTL of a task is a day; that of the  *)
(* two dependency sets is none at all.                                      *)
OtherEvents ==
    /\ \/ \E t \in Tasks : Expire(t)
       \/ \E w \in Workers : BeforeFails(w)
       \/ \E b \in BOOLEAN : SetPause(b)
       \/ Flush
    /\ UNCHANGED depVars

CancelDeps(a) ==
    \/ (\/ \E t \in Tasks : StartCancel(a, t)
        \/ CancelStep(a) \/ CancelUnique(a)) /\ UNCHANGED depVars
    \/ CancelCleanDeps(a)

DepNext ==
    \/ \E t \in Tasks : SubmitDeps(t) \/ MoveDue(t)
    \/ \E w \in Workers : RunDeps(w) \/ SkipDependent(w) \/ AbandonDeps(w)
    \/ \E a \in Admins : CancelDeps(a) \/ (Requeue(a) /\ UNCHANGED depVars)
    \/ OtherEvents

(* Clients that started a call, workers and the scheduler keep going: the   *)
(* loops of task_loop and Scheduler::run never stop by themselves, and a    *)
(* handler returns or runs into options.timeout.                            *)
DepFairness ==
    /\ \A t \in Tasks : WF_allVars(SubmitDeps(t)) /\ WF_allVars(MoveDue(t))
    /\ \A w \in Workers : WF_allVars(RunDeps(w))

DepSpec == DepInit /\ [][DepNext]_allVars

FairDepSpec == DepSpec /\ DepFairness

-----------------------------------------------------------------------------
(* The type of the dependency variables.                                   *)
DepTypeOK ==
    /\ queue \in Seq(Tasks)
    /\ data \in [Tasks -> Nat \cup {Missing, WrongType}]
    /\ pc \in [Workers -> WorkerPcs \cup CheckPcs \cup FailPcs]
    /\ hold \in [Workers -> Tasks \cup {NoTask}]
    /\ cnt \in [Workers -> Nat]
    /\ pending \in [Tasks -> SUBSET Tasks] /\ dependents \in [Tasks -> SUBSET Tasks]
    /\ unlinked \in [Tasks -> SUBSET Tasks]
    /\ excused \subseteq Tasks
    /\ left \in [Workers -> SUBSET Tasks] /\ cur \in [Workers -> Tasks \cup {NoTask}]

(* A dependent can run only after every dependency was processed, or after  *)
(* one of them is dead, whose failure wipes what was still pending.  (A     *)
(* dependency cancelled while its handler ran counts as processed.)         *)
NeverEarly ==
    \A t \in Tasks : Parked(t, op[t]) /\ Places(t) # {} =>
        \/ \A d \in DependsOn[t] : fate[d] \in {"processed", "cancelled"}
        \/ \E d \in DependsOn[t] : fate[d] = "dead"

(* While a dependency that lists t has not been acknowledged for good, t    *)
(* still waits for it: the client links back only after it has recorded     *)
(* what is pending, and no other dependency's end may hide this one.        *)
LinkedIsPending ==
    \A t, d \in Tasks :
        t \in dependents[d] /\ fate[d] = "live" /\ fate[t] = "live" => d \in pending[t]

(* A worker still comes to dependent t when it has finished d.               *)
StillVisited(t, d) ==
    \/ t \in dependents[d] /\ ~Visited(d)
    \/ \E w \in Workers : hold[w] = d /\ t \in left[w] \cup {cur[w]}

(* A dependent that is nowhere, and to which no dependency's end will lead a *)
(* worker, is stranded for one of the known reasons: it was linked when the *)
(* worker had already looked, the loop that would have come to it was cut    *)
(* off, its data expired, or a dependency has no end of its own: it was     *)
(* removed, or killed by fail_dependents, which does not go on behind it.   *)
StrandedForCause ==
    \A t \in Tasks :
        /\ Parked(t, op[t]) /\ cpc[t] = "ok" /\ fate[t] = "live" /\ Places(t) = {}
        /\ \A d \in DependsOn[t] : ~StillVisited(t, d)
        => \/ t \in excused \/ data[t] = Missing
           \/ \E d \in DependsOn[t] :
                 \/ fate[d] \in {"cancelled", "flushed", "abandoned", "unloadable"}
                 \/ fate[d] = "dead" /\ runs[d] = 0

(* A dependent whose dependencies all list it, none of them finished, is    *)
(* not forgotten: its handler runs to an end or it is dead.                 *)
DependentsResolved ==
    \A t \in Tasks :
        (/\ Parked(t, op[t])
         /\ \A d \in DependsOn[t] : t \in dependents[d] /\ fate[d] = "live")
        ~> fate[t] # "live"
=============================================================================
