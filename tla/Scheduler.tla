----------------------------- MODULE Scheduler -----------------------------
(***************************************************************************)
(* The loop of a scheduler with an aggregator (Scheduler::run): every tick  *)
(* it moves due retries, on some ticks also delayed tasks, and on some it    *)
(* turns a full group into one task.  Here are what TaskQueue leaves out of *)
(* the moves (the clock, the scores, the batch size, when a pass is made)    *)
(* and aggregation, one Redis command a step.  One queue, one group.         *)
(*                                                                         *)
(* The cron pass is left out of the loop: check_cron_tasks GETs templates   *)
(* that enqueue_cron stores as hashes, which Redis answers with WRONGTYPE,  *)
(* and run logs the error and goes on; a template that expired is skipped.  *)
(* Either way the pass changes nothing.                                     *)
(***************************************************************************)
EXTENDS Integers, FiniteSets

CONSTANTS
    Schedulers,
    Retries, Delayeds,  \* tasks that are put into the ZSet retry or delayed
    Members,            \* tasks submitted with options.group
    Delay,              \* how long after its submission a task is due
    DelayedEvery,       \* a delayed pass every so many ticks: 5 in the code
    GroupEvery,         \* an aggregation pass every so many ticks: 2
    BatchSize,          \* tasks a move takes at most: 100
    MaxSize,            \* AggregatorConfig.max_size
    ManyKeys,           \* the keyspace is more than one page of SCAN
    MaxTime,            \* bound: the clock
    MaxFaults           \* bound: crashes and commands that fail

Timed == Retries \cup Delayeds

ASSUME SchedulerAssumption ==
    /\ IsFiniteSet(Schedulers) /\ IsFiniteSet(Timed) /\ IsFiniteSet(Members)
    /\ Timed \cap Members = {}
    /\ Retries \cap Delayeds = {}
    /\ Delay \in [Timed -> Nat]
    /\ DelayedEvery \in Nat \ {0} /\ GroupEvery \in Nat \ {0}
    /\ BatchSize \in Nat \ {0} /\ MaxSize \in Nat
    /\ ManyKeys \in BOOLEAN
    /\ MaxTime \in Nat /\ MaxFaults \in Nat

VARIABLES
    now, faults,
    \* Redis: what is in the two ZSets and its scores, the task queue
    zset, score, queue,
    \* Redis: rediq:group:{g}, its count, the members in it whose data expired
    group, count, gone,
    \* each scheduler: where it is, its tick_count, the now it took
    pc, tick, seen,
    \* in an aggregation pass: the ids it read, the tasks it loaded, the ids the
    \* current for loop has left, and whether the aggregator made a task
    ids, loaded, left, made,
    \* how far enqueue of a member is
    joined,
    \* history: how many batches have a member, and why one that left the group
    \* is in none
    batches, fate

timedVars == <<zset, score, queue>>
groupVars == <<group, count, gone, joined>>
passVars == <<ids, loaded, left, made>>
historyVars == <<batches, fate>>
vars == <<now, faults, timedVars, groupVars, pc, tick, seen, passVars, historyVars>>

Never == -1

(* From the first ZREM on, a member may be in the hands of the pass only.   *)
RemovedPcs == {"agg_remove", "agg_reset", "agg_store", "agg_push"}
AggPcs == {"agg_count", "agg_range", "agg_load", "agg_call"} \cup RemovedPcs

GoTo(s, next) == pc' = [pc EXCEPT ![s] = next]

EndPass(s) ==
    /\ ids' = [ids EXCEPT ![s] = {}] /\ loaded' = [loaded EXCEPT ![s] = {}]
    /\ left' = [left EXCEPT ![s] = {}] /\ made' = [made EXCEPT ![s] = FALSE]

Init ==
    /\ now = 0 /\ faults = 0
    /\ zset = {} /\ score = [t \in Timed |-> Never] /\ queue = {}
    /\ group = {} /\ count = 0 /\ gone = {} /\ joined = [m \in Members |-> "new"]
    /\ pc = [s \in Schedulers |-> "top"] /\ tick = [s \in Schedulers |-> 0]
    /\ seen = [s \in Schedulers |-> 0]
    /\ ids = [s \in Schedulers |-> {}] /\ loaded = [s \in Schedulers |-> {}]
    /\ left = [s \in Schedulers |-> {}] /\ made = [s \in Schedulers |-> FALSE]
    /\ batches = [m \in Members |-> 0] /\ fate = [m \in Members |-> "none"]

-----------------------------------------------------------------------------
(* Clients, workers and time.                                              *)

(* enqueue_delayed, and schedule_retry of a worker.                         *)
Submit(t) ==
    /\ score[t] = Never
    /\ score' = [score EXCEPT ![t] = now + Delay[t]]
    /\ zset' = zset \cup {t}
    /\ UNCHANGED <<now, faults, queue, groupVars, pc, tick, seen, passVars, historyVars>>

(* enqueue of a task with a group: ZADD and HINCRBY.                        *)
JoinGroup(m) ==
    /\ joined[m] = "new"
    /\ group' = group \cup {m}
    /\ joined' = [joined EXCEPT ![m] = "added"]
    /\ UNCHANGED <<now, faults, timedVars, count, gone, pc, tick, seen, passVars, historyVars>>

CountMember(m) ==
    /\ joined[m] = "added"
    /\ count' = count + 1
    /\ joined' = [joined EXCEPT ![m] = "counted"]
    /\ UNCHANGED <<now, faults, timedVars, group, gone, pc, tick, seen, passVars, historyVars>>

(* The TTL of a task key runs out while the task waits in its group.        *)
Expire(m) ==
    /\ m \in group \ gone
    /\ gone' = gone \cup {m}
    /\ UNCHANGED <<now, faults, timedVars, group, count, joined, pc, tick, seen, passVars, historyVars>>

Clock ==
    /\ now < MaxTime
    /\ now' = now + 1
    /\ UNCHANGED <<faults, timedVars, groupVars, pc, tick, seen, passVars, historyVars>>

-----------------------------------------------------------------------------
(* One tick of the loop: retries, ...                                      *)
StartTick(s) ==
    /\ pc[s] = "top"
    /\ tick' = [tick EXCEPT ![s] = (@ + 1) % (DelayedEvery * GroupEvery)]
    /\ seen' = [seen EXCEPT ![s] = now]
    /\ GoTo(s, "retry")
    /\ UNCHANGED <<now, faults, timedVars, groupVars, passVars, historyVars>>

AfterDelayed(s) == IF tick[s] % GroupEvery = 0 THEN "scan" ELSE "sleep"

(* Mutant: tick_count is reset before it reaches DelayedEvery.              *)
AfterRetryNever(s) == IF tick[s] = DelayedEvery * GroupEvery THEN "clock" ELSE AfterDelayed(s)

AfterRetry(s) == IF tick[s] % DelayedEvery = 0 THEN "clock" ELSE AfterDelayed(s)

DueOf(kind, time) == {t \in kind \cap zset : score[t] <= time}

(* What the script move_expired_tasks takes of one ZSet: at most BatchSize  *)
(* of the due tasks, those with the lowest scores.                          *)
Takes(kind, time, moved) ==
    LET due == DueOf(kind, time) IN
    /\ moved \subseteq due
    /\ Cardinality(moved) <= BatchSize
    /\ moved # due => Cardinality(moved) = BatchSize
    /\ \A t \in moved, u \in due \ moved : score[t] <= score[u]

(* Mutant: the script takes whatever is in the ZSet.                        *)
MoveAll(s, kind) ==
    /\ zset' = zset \ kind
    /\ queue' = queue \cup (zset \cap kind)
    /\ seen' = [seen EXCEPT ![s] = 0]
    /\ UNCHANGED <<now, faults, score, groupVars, tick, passVars, historyVars>>

Move(s, kind) ==
    /\ \E moved \in SUBSET DueOf(kind, seen[s]) :
          /\ Takes(kind, seen[s], moved)
          /\ zset' = zset \ moved
          /\ queue' = queue \cup moved
    /\ seen' = [seen EXCEPT ![s] = 0]
    /\ UNCHANGED <<now, faults, score, groupVars, tick, passVars, historyVars>>

MoveRetry(s) ==
    /\ pc[s] = "retry"
    /\ Move(s, Retries)
    /\ GoTo(s, AfterRetry(s))

(* ... delayed tasks, ...                                                  *)
ReadClock(s) ==
    /\ pc[s] = "clock"
    /\ seen' = [seen EXCEPT ![s] = now]
    /\ GoTo(s, "delayed")
    /\ UNCHANGED <<now, faults, timedVars, groupVars, tick, passVars, historyVars>>

MoveDelayed(s) ==
    /\ pc[s] = "delayed"
    /\ Move(s, Delayeds)
    /\ GoTo(s, AfterDelayed(s))

Sleep(s) ==
    /\ pc[s] = "sleep"
    /\ GoTo(s, "top")
    /\ UNCHANGED <<now, faults, timedVars, groupVars, tick, seen, passVars, historyVars>>

-----------------------------------------------------------------------------
(* ... and groups (check_aggregation).  The first page of SCAN has the meta *)
(* key of the group, if there is one and nothing else fills the page.       *)
Scan(s) ==
    /\ pc[s] = "scan"
    /\ \/ (\E m \in Members : joined[m] = "counted") /\ GoTo(s, "agg_count")
       \/ (ManyKeys \/ \A m \in Members : joined[m] # "counted") /\ GoTo(s, "pages")
    /\ UNCHANGED <<now, faults, timedVars, groupVars, tick, seen, passVars, historyVars>>

(* Every call of scan_match starts a new scan and answers with cursor 1     *)
(* when that has a second page: with more than one page of keys the loop    *)
(* over the pages has no end.                                              *)
LastPage(s) ==
    /\ pc[s] = "pages" /\ ~ManyKeys
    /\ GoTo(s, "sleep")
    /\ UNCHANGED <<now, faults, timedVars, groupVars, tick, seen, passVars, historyVars>>

ReadCount(s) ==
    /\ pc[s] = "agg_count"
    /\ GoTo(s, IF count >= MaxSize THEN "agg_range" ELSE "pages")
    /\ UNCHANGED <<now, faults, timedVars, groupVars, tick, seen, passVars, historyVars>>

ReadGroup(s) ==
    /\ pc[s] = "agg_range"
    /\ ids' = [ids EXCEPT ![s] = group]
    /\ left' = [left EXCEPT ![s] = group]
    /\ GoTo(s, IF group = {} THEN "pages" ELSE "agg_load")
    /\ UNCHANGED <<now, faults, timedVars, groupVars, tick, seen, loaded, made, historyVars>>

(* A member whose data is missing is left out without a word.               *)
LoadMember(s) ==
    /\ pc[s] = "agg_load"
    /\ \E m \in left[s] :
          /\ left' = [left EXCEPT ![s] = @ \ {m}]
          /\ loaded' = [loaded EXCEPT ![s] = @ \cup ({m} \ gone)]
          /\ GoTo(s, IF left[s] = {m} THEN "agg_call" ELSE "agg_load")
    /\ UNCHANGED <<now, faults, timedVars, groupVars, tick, seen, ids, made, historyVars>>

(* Aggregator::aggregate makes a task of them, or none.                     *)
Aggregate(s) ==
    /\ pc[s] = "agg_call"
    /\ \E some \in BOOLEAN : made' = [made EXCEPT ![s] = some]
    /\ left' = [left EXCEPT ![s] = ids[s]]
    /\ GoTo(s, "agg_remove")
    /\ UNCHANGED <<now, faults, timedVars, groupVars, tick, seen, ids, loaded, historyVars>>

(* No aggregator is registered for the group, or it returns an error.       *)
Refuse(s) ==
    /\ pc[s] = "agg_call"
    /\ GoTo(s, "pages") \/ GoTo(s, "sleep")
    /\ EndPass(s)
    /\ UNCHANGED <<now, faults, timedVars, groupVars, tick, seen, historyVars>>

(* Mutant: DEL of the group instead of a ZREM for each id.                  *)
RemoveGroup(s) ==
    /\ pc[s] = "agg_remove"
    /\ group' = {} /\ gone' = {}
    /\ left' = [left EXCEPT ![s] = {}]
    /\ fate' = [m \in Members |-> IF m \in ids[s] \ loaded[s] THEN "unloadable" ELSE fate[m]]
    /\ GoTo(s, "agg_reset")
    /\ UNCHANGED <<now, faults, timedVars, count, joined, tick, seen, ids, loaded, made, batches>>

RemoveMember(s) ==
    /\ pc[s] = "agg_remove"
    /\ \E m \in left[s] :
          /\ group' = group \ {m} /\ gone' = gone \ {m}
          /\ left' = [left EXCEPT ![s] = @ \ {m}]
          /\ fate' = [fate EXCEPT ![m] = IF m \in loaded[s] THEN @ ELSE "unloadable"]
          /\ GoTo(s, IF left[s] = {m} THEN "agg_reset" ELSE "agg_remove")
    /\ UNCHANGED <<now, faults, timedVars, count, joined, tick, seen, ids, loaded, made, batches>>

(* Mutant: the count is lowered by the number of ids that were removed.     *)
SubtractCount(s) ==
    /\ pc[s] = "agg_reset"
    /\ count' = count - Cardinality(ids[s])
    /\ IF made[s]
       THEN GoTo(s, "agg_store") /\ UNCHANGED <<passVars, fate>>
       ELSE /\ GoTo(s, "pages") /\ EndPass(s)
            /\ fate' = [m \in Members |-> IF m \in loaded[s] THEN "discarded" ELSE fate[m]]
    /\ UNCHANGED <<now, faults, timedVars, group, gone, joined, tick, seen, batches>>

(* The count is set to 0, whatever was added since ZRANGE.                  *)
ResetCount(s) ==
    /\ pc[s] = "agg_reset"
    /\ count' = 0
    /\ IF made[s]
       THEN GoTo(s, "agg_store") /\ UNCHANGED <<passVars, fate>>
       ELSE /\ GoTo(s, "pages") /\ EndPass(s)
            /\ fate' = [m \in Members |-> IF m \in loaded[s] THEN "discarded" ELSE fate[m]]
    /\ UNCHANGED <<now, faults, timedVars, group, gone, joined, tick, seen, batches>>

StoreBatch(s) ==
    /\ pc[s] = "agg_store"
    /\ GoTo(s, "agg_push")
    /\ UNCHANGED <<now, faults, timedVars, groupVars, tick, seen, passVars, historyVars>>

Count(m, s) == IF m \in loaded[s] THEN batches[m] + 1 ELSE batches[m]

(* Mutant: the push is tried again although it worked.                      *)
PushAgain(s) ==
    /\ pc[s] = "agg_push"
    /\ batches' = [m \in Members |-> Count(m, s)]
    /\ UNCHANGED <<now, faults, timedVars, groupVars, pc, tick, seen, passVars, fate>>

PushBatch(s) ==
    /\ pc[s] = "agg_push"
    /\ batches' = [m \in Members |-> Count(m, s)]
    /\ GoTo(s, "pages") /\ EndPass(s)
    /\ UNCHANGED <<now, faults, timedVars, groupVars, tick, seen, fate>>

-----------------------------------------------------------------------------
(* Members a pass has taken out of the group and not yet handed on.         *)
InHand(s) == IF pc[s] \in RemovedPcs THEN loaded[s] \ group ELSE {}

PassStops(s) ==
    /\ faults < MaxFaults
    /\ faults' = faults + 1
    /\ EndPass(s)
    /\ seen' = [seen EXCEPT ![s] = 0]
    /\ fate' = [m \in Members |-> IF m \in InHand(s) THEN "lost" ELSE fate[m]]
    /\ UNCHANGED <<now, timedVars, groupVars, batches>>

(* A move that fails is logged and the tick goes on; an error in            *)
(* check_aggregation ends that pass.                                       *)
CommandFails(s) ==
    /\ PassStops(s)
    /\ \/ pc[s] = "retry" /\ GoTo(s, AfterRetry(s))
       \/ pc[s] = "delayed" /\ GoTo(s, AfterDelayed(s))
       \/ pc[s] \in {"scan", "pages"} \cup (AggPcs \ {"agg_call"}) /\ GoTo(s, "sleep")
    /\ UNCHANGED tick

(* The process ends, and another one takes its place.                      *)
Crash(s) ==
    /\ PassStops(s)
    /\ GoTo(s, "top")
    /\ tick' = [tick EXCEPT ![s] = 0]

-----------------------------------------------------------------------------
CheckTimed(s) == StartTick(s) \/ MoveRetry(s) \/ ReadClock(s) \/ MoveDelayed(s) \/ Sleep(s)

CheckAggregation(s) ==
    \/ Scan(s) \/ LastPage(s) \/ ReadCount(s) \/ ReadGroup(s) \/ LoadMember(s)
    \/ Aggregate(s) \/ Refuse(s) \/ RemoveMember(s) \/ ResetCount(s) \/ StoreBatch(s) \/ PushBatch(s)

Next ==
    \/ \E t \in Timed : Submit(t)
    \/ \E m \in Members : JoinGroup(m) \/ CountMember(m) \/ Expire(m)
    \/ Clock
    \/ \E s \in Schedulers : CheckTimed(s) \/ CheckAggregation(s) \/ CommandFails(s) \/ Crash(s)

Spec == Init /\ [][Next]_vars

(* The loop of a scheduler goes on.  Neither clients nor the clock have to. *)
Fairness == \A s \in Schedulers : WF_vars(CheckTimed(s) \/ CheckAggregation(s))

FairSpec == Spec /\ Fairness

-----------------------------------------------------------------------------
TypeOK ==
    /\ now \in 0 .. MaxTime /\ faults \in 0 .. MaxFaults
    /\ zset \subseteq Timed /\ queue \subseteq Timed
    /\ score \in [Timed -> Nat \cup {Never}]
    /\ group \subseteq Members /\ gone \subseteq Members /\ count \in Nat
    /\ pc \in [Schedulers -> {"top", "retry", "clock", "delayed", "sleep", "scan", "pages"} \cup AggPcs]
    /\ tick \in [Schedulers -> Nat]
    /\ seen \in [Schedulers -> 0 .. MaxTime]
    /\ ids \in [Schedulers -> SUBSET Members] /\ loaded \in [Schedulers -> SUBSET Members]
    /\ left \in [Schedulers -> SUBSET Members] /\ made \in [Schedulers -> BOOLEAN]
    /\ joined \in [Members -> {"new", "added", "counted"}]
    /\ batches \in [Members -> Nat]
    /\ fate \in [Members -> {"none", "unloadable", "discarded", "lost"}]

(* No task reaches the queue before its time, and none that is there is     *)
(* still in a ZSet, from where it would be pushed a second time.            *)
NotBeforeTime == \A t \in queue : score[t] # Never /\ score[t] <= now /\ t \notin zset

(* A member that was accepted is in the group, in the hands of a pass, in a *)
(* batch, or there is a reason: its data expired, the aggregator made no    *)
(* task, or the pass stopped between ZREM and RPUSH.  Members that join     *)
(* while a pass runs are none of its business.                             *)
MembersAccounted ==
    \A m \in Members :
        \/ joined[m] = "new" \/ m \in group
        \/ batches[m] > 0 \/ fate[m] # "none"
        \/ \E s \in Schedulers : m \in InHand(s)

(* With one scheduler a member gets into one batch at most, and never into  *)
(* another after it was given up, through failed passes and restarts.       *)
OneBatch ==
    Cardinality(Schedulers) = 1 =>
        \A m \in Members :
            /\ batches[m] + (IF fate[m] = "none" THEN 0 ELSE 1) <= 1
            /\ batches[m] > 0 \/ fate[m] # "none" => m \notin group

(* What is due is pushed in the end, with more due tasks than a batch takes,*)
(* after failed moves and restarts, and whatever aggregation does.          *)
DueIsMoved == \A t \in Timed : t \in zset /\ score[t] <= now ~> t \in queue
=============================================================================
