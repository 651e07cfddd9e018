--------------------------- MODULE TaskDeps_proofs ---------------------------
(***************************************************************************)
(* Theorems of TaskDeps, for any number of tasks and workers: the types and  *)
(* that a dependent waits for what lists it, for every graph of dependencies;*)
(* that tasks are queued once, released in order and not forgotten, for      *)
(* graphs where what others depend on has at most one dependency itself.     *)
(***************************************************************************)
EXTENDS TaskDeps, TaskQueue_proofs

LoopPcs == CheckPcs \cup FailPcs \cup {"deps"}

(* Where a worker of a loop has a dependent in its hand.                    *)
CurPcs == {"c_card", "c_queue", "c_push", "c_clean", "f_store", "f_push", "f_clean"}

CallSteps == {"new", "link", "dedup", "push", "ok", "rejected"}

-----------------------------------------------------------------------------
(* Types.                                                                  *)

(* The variables of TaskQueue, whose steps read them.                       *)
QueueTypes ==
    /\ queue \in Seq(Tasks)
    /\ pqueue \subseteq Tasks /\ delayed \subseteq Tasks /\ retry \subseteq Tasks
    /\ data \in [Tasks -> Nat \cup {Missing, WrongType}]
    /\ cpc \in [Tasks -> CallSteps]
    /\ fate \in [Tasks -> Fates]

LoopTypes ==
    /\ pc \in [Workers -> WorkerPcs \cup CheckPcs \cup FailPcs]
    /\ hold \in [Workers -> Tasks \cup {NoTask}]
    /\ cnt \in [Workers -> Nat]
    /\ left \in [Workers -> SUBSET Tasks] /\ cur \in [Workers -> Tasks \cup {NoTask}]
    /\ \A w \in Workers :
          /\ pc[w] \in Holding \cup LoopPcs => hold[w] \in Tasks
          /\ pc[w] \in CurPcs => cur[w] \in Tasks

CallTypes ==
    /\ apc \in [Admins -> CancelPcs \cup RequeuePcs \cup {"idle", "returned"}]
    /\ atask \in [Admins -> Tasks \cup {NoTask}]
    /\ \A a \in Admins : apc[a] \in CancelPcs \cup RequeuePcs => atask[a] \in Tasks

SetTypes ==
    /\ pending \in [Tasks -> SUBSET Tasks] /\ dependents \in [Tasks -> SUBSET Tasks]
    /\ unlinked \in [Tasks -> SUBSET Tasks]
    /\ excused \subseteq Tasks

DepTypes == QueueTypes /\ LoopTypes /\ CallTypes /\ SetTypes

LEMMA DepTypesInit == DepInit => DepTypes
<1> SUFFICES ASSUME DepInit PROVE DepTypes
  OBVIOUS
<1>1. queue \in Seq(Tasks)
  BY DEF DepInit, Init
<1>2. QueueTypes
  BY <1>1 DEF DepInit, Init, QueueTypes, CallSteps, Fates
<1>3. LoopTypes
  BY DEF DepInit, Init, LoopTypes, WorkerPcs, Holding, LoopPcs, CheckPcs, FailPcs, CurPcs
<1>4. CallTypes
  BY DEF DepInit, Init, CallTypes, CancelPcs, RequeuePcs
<1>5. SetTypes
  BY DEF DepInit, SetTypes
<1> QED
  BY <1>2, <1>3, <1>4, <1>5 DEF DepTypes

(* The calls that submit tasks.                                            *)
LEMMA SubmitTypes ==
    ASSUME DepTypes, NEW t \in Tasks, SubmitDeps(t)
    PROVE  DepTypes'
<1> USE DEF DepTypes, QueueTypes, LoopTypes, CallTypes, SetTypes, CallSteps, Missing, WrongType,
        workerVars, adminVars, histVars, depVars, redisVars
<1>1. ASSUME NEW o \in Ops, PlainStore(t, o) PROVE DepTypes'
  BY <1>1 DEF PlainStore, Store
<1>2. CASE StoreParked(t)
  BY <1>2, DependsOnAssumption DEF StoreParked
<1>3. ASSUME NEW d \in Tasks, Link(t, d) PROVE DepTypes'
  BY <1>3 DEF Link
<1>4. CASE Dedup(t) /\ UNCHANGED depVars
  BY <1>4 DEF Dedup
<1>5. CASE ToPQueue(t) /\ UNCHANGED depVars
  BY <1>5 DEF ToPQueue
<1>6. CASE ToQueue(t) /\ UNCHANGED depVars
  BY <1>6, AppendFacts DEF ToQueue
<1>7. CASE ToDelayed(t) /\ UNCHANGED depVars
  BY <1>7 DEF ToDelayed
<1> QED
  BY <1>1, <1>2, <1>3, <1>4, <1>5, <1>6, <1>7 DEF SubmitDeps

(* A worker that goes on to idle or to another attempt holds nothing.       *)
LEMMA ReleaseTypes ==
    ASSUME LoopTypes, NEW w \in Workers, NEW next \in {"idle", "check"}, Release(w, next),
           left' = [left EXCEPT ![w] = {}] \/ left' = left,
           cur' = [cur EXCEPT ![w] = NoTask] \/ cur' = cur
    PROVE  LoopTypes'
  BY DEF LoopTypes, Release, WorkerPcs, Holding, LoopPcs, CheckPcs, FailPcs, CurPcs

(* A worker that goes on with the task it has.                              *)
LEMMA GoesOnTypes ==
    ASSUME LoopTypes, NEW w \in Workers, pc[w] \in Holding,
           NEW next \in Holding \cup {"deps"},
           pc' = [pc EXCEPT ![w] = next], hold' = hold, cnt' \in [Workers -> Nat],
           left' = left, cur' = cur
    PROVE  LoopTypes'
  BY DEF LoopTypes, WorkerPcs, Holding, LoopPcs, CheckPcs, FailPcs, CurPcs

(* A round of task_loop up to the acknowledgement.                          *)
LEMMA RoundTypes ==
    ASSUME DepTypes, NEW w \in Workers, Take(w) \/ Process(w) \/ Ack(w), UNCHANGED depVars
    PROVE  DepTypes'
<1> USE DEF DepTypes, QueueTypes, CallTypes, SetTypes, Missing, WrongType,
        clientVars, adminVars, histVars, depVars, redisVars
<1>0. LoopTypes /\ left' = left /\ cur' = cur
  OBVIOUS
<1>1. CASE PDequeue(w)
  <2>1. CASE pqueue' = pqueue /\ hold' = hold /\ pc' = [pc EXCEPT ![w] = "check"]
    <3>1. LoopTypes'
      BY <1>1, <2>1 DEF PDequeue, LoopTypes, WorkerPcs, Holding, LoopPcs, CheckPcs, FailPcs, CurPcs
    <3> QED
      BY <1>1, <2>1, <3>1 DEF PDequeue
  <2>2. ASSUME NEW t \in Tasks, pqueue' = pqueue \ {t},
               hold' = [hold EXCEPT ![w] = t], pc' = [pc EXCEPT ![w] = "pload"]
        PROVE  DepTypes'
    <3>1. LoopTypes'
      BY <1>1, <2>2 DEF PDequeue, LoopTypes, WorkerPcs, Holding, LoopPcs, CheckPcs, FailPcs, CurPcs
    <3> QED
      BY <1>1, <2>2, <3>1 DEF PDequeue
  <2> QED
    BY <1>1, <2>1, <2>2 DEF PDequeue
<1>2. CASE CheckPause(w)
  <2>1. LoopTypes'
    BY <1>2 DEF CheckPause, LoopTypes, WorkerPcs, Holding, LoopPcs, CheckPcs, FailPcs, CurPcs
  <2> QED
    BY <1>2, <2>1 DEF CheckPause
<1>3. CASE BlPop(w)
  <2>1. CASE queue # <<>>
    <3>1. Head(queue) \in Tasks /\ Tail(queue) \in Seq(Tasks)
      BY <2>1, PopFacts
    <3>2. /\ hold' = [hold EXCEPT ![w] = Head(queue)] /\ queue' = Tail(queue)
          /\ pc' = [pc EXCEPT ![w] = "popped"]
          /\ UNCHANGED <<pqueue, delayed, retry, data, cnt, cpc, apc, atask, fate>>
      BY <1>3, <2>1 DEF BlPop
    <3>3. LoopTypes'
      BY <3>1, <3>2 DEF LoopTypes, WorkerPcs, Holding, LoopPcs, CheckPcs, FailPcs, CurPcs
    <3> QED
      BY <3>1, <3>2, <3>3
  <2>2. CASE queue = <<>>
    <3>1. /\ pc' = [pc EXCEPT ![w] = "idle"]
          /\ UNCHANGED <<queue, hold, pqueue, delayed, retry, data, cnt, cpc, apc, atask, fate>>
      BY <1>3, <2>2 DEF BlPop
    <3>2. LoopTypes'
      BY <3>1 DEF LoopTypes, WorkerPcs, Holding, LoopPcs, CheckPcs, FailPcs, CurPcs
    <3> QED
      BY <3>1, <3>2
  <2> QED
    BY <2>1, <2>2
<1>4. CASE PushActive(w)
  <2>1. LoopTypes'
    BY <1>4, GoesOnTypes DEF PushActive, Holding, LoopTypes
  <2> QED
    BY <1>4, <2>1 DEF PushActive
<1>5. CASE Load(w)
  <2>1. hold[w] \in Tasks /\ data[hold[w]] \in Nat \cup {Missing, WrongType}
    BY <1>5 DEF Load, LoopTypes, Holding
  <2>2. CASE data[hold[w]] >= 0
    <3>1. data[hold[w]] \in Nat /\ ~(data[hold[w]] < 0)
      BY <2>1, <2>2, SMT
    <3>2. /\ cnt' = [cnt EXCEPT ![w] = data[hold[w]]] /\ pc' = [pc EXCEPT ![w] = "before"]
          /\ UNCHANGED <<queue, pqueue, delayed, retry, data, hold, cpc, apc, atask, fate>>
      BY <1>5, <3>1 DEF Load
    <3>3. LoopTypes'
      BY <1>0, <1>5, <3>1, <3>2, GoesOnTypes DEF Load, Holding, LoopTypes
    <3> QED
      BY <3>2, <3>3
  <2>3. CASE ~(data[hold[w]] >= 0)
    <3>1. /\ Release(w, IF pc[w] = "pload" THEN "check" ELSE "idle")
          /\ Settle(hold[w], "unloadable")
          /\ UNCHANGED <<queue, pqueue, delayed, retry, data, cpc, apc, atask>>
      BY <1>5, <2>3 DEF Load
    <3>2. LoopTypes'
      BY <1>0, <3>1, ReleaseTypes
    <3>3. fate' \in [Tasks -> Fates]
      BY <2>1, <3>1, SettleType DEF Fates
    <3> QED
      BY <3>1, <3>2, <3>3
  <2> QED
    BY <2>2, <2>3
<1>6. CASE Start(w)
  <2>1. LoopTypes'
    BY <1>0, <1>6, GoesOnTypes DEF Start, Holding, LoopTypes
  <2> QED
    BY <1>6, <2>1 DEF Start
<1>7. CASE Succeed(w)
  <2>1. LoopTypes'
    BY <1>0, <1>7, GoesOnTypes DEF Succeed, Holding, LoopTypes
  <2> QED
    BY <1>7, <2>1 DEF Succeed
<1>8. CASE Fail(w)
  <2>1. cnt[w] + 1 \in Nat
    BY DEF LoopTypes
  <2>2. cnt' \in [Workers -> Nat]
    BY <1>8, <2>1 DEF Fail, LoopTypes
  <2>3. LoopTypes'
    BY <1>0, <1>8, <2>2, GoesOnTypes DEF Fail, Holding
  <2> QED
    BY <1>8, <2>3 DEF Fail
<1>9. CASE AckRemove(w)
  <2>1. LoopTypes'
    BY <1>0, <1>9, GoesOnTypes DEF AckRemove, Holding, LoopTypes
  <2> QED
    BY <1>9, <2>1 DEF AckRemove
<1>10. CASE AckStore(w)
  <2>1. hold[w] \in Tasks
    BY <1>10 DEF AckStore, LoopTypes, Holding
  <2>2. LoopTypes'
    BY <1>0, <1>10, GoesOnTypes DEF AckStore, Holding, LoopTypes
  <2>3. data' \in [Tasks -> Nat \cup {Missing, WrongType}]
    BY <1>10, <2>1 DEF AckStore, LoopTypes
  <2>4. fate' \in [Tasks -> Fates]
    BY <1>10, <2>1, SettleType DEF AckStore, Fates
  <2> QED
    BY <1>10, <2>2, <2>3, <2>4 DEF AckStore
<1>11. CASE ScheduleRetry(w)
  <2>1. hold[w] \in Tasks
    BY <1>11 DEF ScheduleRetry, LoopTypes, Holding
  <2>2. LoopTypes'
    BY <1>0, <1>11, ReleaseTypes DEF ScheduleRetry
  <2> QED
    BY <1>11, <2>1, <2>2 DEF ScheduleRetry
<1> QED
  BY <1>1, <1>2, <1>3, <1>4, <1>5, <1>6, <1>7, <1>8, <1>9, <1>10, <1>11 DEF Take, Process, Ack

(* A worker that goes on in a loop, with the dependent it has or another.   *)
LEMMA LoopGoesOn ==
    ASSUME LoopTypes, NEW w \in Workers, pc[w] \in LoopPcs, NEW next \in CheckPcs \cup FailPcs,
           pc' = [pc EXCEPT ![w] = next], hold' = hold, cnt' \in [Workers -> Nat],
           left' \in [Workers -> SUBSET Tasks], cur' \in [Workers -> Tasks \cup {NoTask}],
           next \in CurPcs => cur'[w] \in Tasks, \A v \in Workers : v # w => cur'[v] = cur[v]
    PROVE  LoopTypes'
  BY DEF LoopTypes, WorkerPcs, Holding, LoopPcs, CheckPcs, FailPcs, CurPcs

LEMMA BreakTypes ==
    ASSUME LoopTypes, excused \subseteq Tasks, NEW w \in Workers, Break(w)
    PROVE  LoopTypes' /\ excused' \subseteq Tasks
<1>1. LoopTypes'
  BY ReleaseTypes DEF Break
<1>2. excused' \subseteq Tasks
  BY DEF Break, Unvisited, LoopTypes
<1> QED
  BY <1>1, <1>2

(* The loops over dependents.                                              *)
LEMMA FinishTypes ==
    ASSUME DepTypes, NEW w \in Workers, FinishDeps(w)
    PROVE  DepTypes'
<1> USE DEF DepTypes, QueueTypes, CallTypes, SetTypes, Missing, WrongType,
        clientVars, adminVars, histVars, depVars, redisVars
<1>0. LoopTypes
  OBVIOUS
<1>1. CASE ReadDependents(w)
  <2>1. LoopTypes'
    <3>1. CASE dependents[hold[w]] = {}
      BY <1>0, <1>1, <3>1, ReleaseTypes DEF ReadDependents
    <3>2. CASE dependents[hold[w]] # {}
      <4>1. hold[w] \in Tasks
        BY <1>1 DEF ReadDependents, LoopTypes, LoopPcs
      <4>2. PICK next \in {"c_next", "f_next"} :
               /\ pc' = [pc EXCEPT ![w] = next]
               /\ left' = [left EXCEPT ![w] = dependents[hold[w]]]
               /\ UNCHANGED <<hold, cnt, cur>> /\ pc[w] = "deps"
        BY <1>1, <3>2 DEF ReadDependents
      <4>3. left' \in [Workers -> SUBSET Tasks] /\ cnt' \in [Workers -> Nat]
        BY <4>1, <4>2 DEF LoopTypes
      <4> QED
        BY <1>0, <4>2, <4>3, LoopGoesOn DEF LoopTypes, LoopPcs, CheckPcs, FailPcs, CurPcs
    <3> QED
      BY <3>1, <3>2
  <2> QED
    BY <1>1, <2>1 DEF ReadDependents
<1>2. ASSUME NEW d \in Tasks, RemovePending(w, d) PROVE DepTypes'
  <2>1. pending' \in [Tasks -> SUBSET Tasks]
    BY <1>2 DEF RemovePending
  <2>2. LoopTypes'
    <3>1. /\ left' \in [Workers -> SUBSET Tasks] /\ cur' \in [Workers -> Tasks \cup {NoTask}]
          /\ cur'[w] \in Tasks /\ \A v \in Workers : v # w => cur'[v] = cur[v]
          /\ cnt' = cnt /\ cnt \in [Workers -> Nat] /\ hold' = hold
          /\ pc[w] = "c_next" /\ pc' = [pc EXCEPT ![w] = "c_card"]
      BY <1>2 DEF RemovePending, Step, LoopTypes
    <3> QED
      BY <1>0, <3>1, LoopGoesOn DEF LoopPcs, CheckPcs
  <2> QED
    BY <1>2, <2>1, <2>2 DEF RemovePending
<1>3. CASE CountPending(w)
  <2>1. LoopTypes'
    BY <1>3 DEF CountPending, Step, LoopTypes, WorkerPcs, Holding, LoopPcs, CheckPcs, FailPcs, CurPcs
  <2> QED
    BY <1>3, <2>1 DEF CountPending
<1>4. CASE ReadQueue(w)
  <2>1. CASE data[cur[w]] = WrongType
    <3>1. Break(w)
      BY <1>4, <2>1 DEF ReadQueue
    <3> QED
      BY <1>0, <1>4, <3>1, BreakTypes DEF ReadQueue
  <2>2. CASE data[cur[w]] # WrongType
    <3>1. LoopTypes'
      BY <1>4, <2>2 DEF ReadQueue, Step, LoopTypes, WorkerPcs, Holding, LoopPcs, CheckPcs, FailPcs, CurPcs
    <3> QED
      BY <1>4, <2>2, <3>1 DEF ReadQueue
  <2> QED
    BY <2>1, <2>2
<1>5. CASE ReleaseDependent(w)
  <2>1. cur[w] \in Tasks
    BY <1>5 DEF ReleaseDependent, LoopTypes, CurPcs
  <2>2. LoopTypes'
    BY <1>5 DEF ReleaseDependent, Step, LoopTypes, WorkerPcs, Holding, LoopPcs, CheckPcs, FailPcs, CurPcs
  <2>3. queue' \in Seq(Tasks)
    BY <1>5, <2>1, AppendFacts DEF ReleaseDependent
  <2> QED
    BY <1>5, <2>2, <2>3 DEF ReleaseDependent
<1>6. ASSUME NEW d \in Tasks, ReadDependent(w, d) PROVE DepTypes'
  <2>1. CASE data[d] = WrongType
    <3>1. Break(w)
      BY <1>6, <2>1 DEF ReadDependent
    <3> QED
      BY <1>0, <1>6, <3>1, BreakTypes DEF ReadDependent
  <2>2. CASE data[d] # WrongType
    <3>1. (IF data[d] = Missing THEN 0 ELSE data[d]) \in Nat
      BY <2>2
    <3>2. PICK next \in {"f_clean", "f_store"} :
             /\ pc' = [pc EXCEPT ![w] = next] /\ hold' = hold /\ pc[w] = "f_next"
             /\ left' = [left EXCEPT ![w] = @ \ {d}]
             /\ cur' = [cur EXCEPT ![w] = d]
             /\ cnt' = [cnt EXCEPT ![w] = IF data[d] = Missing THEN 0 ELSE data[d]]
             /\ UNCHANGED excused
      BY <1>6, <2>2 DEF ReadDependent, Step
    <3>3. /\ left' \in [Workers -> SUBSET Tasks] /\ cnt' \in [Workers -> Nat]
          /\ cur' \in [Workers -> Tasks \cup {NoTask}] /\ cur'[w] = d
          /\ \A v \in Workers : v # w => cur'[v] = cur[v]
      BY <3>1, <3>2 DEF LoopTypes
    <3>4. LoopTypes'
      BY <1>0, <3>2, <3>3, LoopGoesOn DEF LoopPcs, FailPcs
    <3> QED
      BY <1>6, <3>2, <3>4 DEF ReadDependent
  <2> QED
    BY <2>1, <2>2
<1>7. CASE StoreDead(w)
  <2>1. data' \in [Tasks -> Nat \cup {Missing, WrongType}]
    BY <1>7 DEF StoreDead, LoopTypes
  <2>2. LoopTypes'
    BY <1>7 DEF StoreDead, Step, LoopTypes, WorkerPcs, Holding, LoopPcs, CheckPcs, FailPcs, CurPcs
  <2> QED
    BY <1>7, <2>1, <2>2 DEF StoreDead
<1>8. CASE PushDead(w)
  <2>1. cur[w] \in Tasks
    BY <1>8 DEF PushDead, LoopTypes, CurPcs
  <2>2. fate' \in [Tasks -> Fates]
    BY <1>8, <2>1, SettleType DEF PushDead, Fates
  <2>3. LoopTypes'
    BY <1>8 DEF PushDead, Step, LoopTypes, WorkerPcs, Holding, LoopPcs, CheckPcs, FailPcs, CurPcs
  <2> QED
    BY <1>8, <2>2, <2>3 DEF PushDead
<1>9. CASE CleanPending(w)
  <2>1. LoopTypes'
    BY <1>9 DEF CleanPending, Step, LoopTypes, WorkerPcs, Holding, LoopPcs, CheckPcs, FailPcs, CurPcs
  <2> QED
    BY <1>9, <2>1 DEF CleanPending
<1>10. CASE DropDependents(w)
  <2>1. LoopTypes'
    BY <1>0, <1>10, ReleaseTypes DEF DropDependents
  <2> QED
    BY <1>10, <2>1 DEF DropDependents
<1> QED
  BY <1>1, <1>2, <1>3, <1>4, <1>5, <1>6, <1>7, <1>8, <1>9, <1>10
     DEF FinishDeps, CheckDependents, FailDependents

(* What goes wrong in a round or in a loop.                                 *)
LEMMA FailureTypes ==
    ASSUME DepTypes, NEW w \in Workers,
           SkipDependent(w) \/ AbandonDeps(w) \/ (BeforeFails(w) /\ UNCHANGED depVars)
    PROVE  DepTypes'
<1> USE DEF DepTypes, QueueTypes, CallTypes, SetTypes, Missing, WrongType,
        clientVars, adminVars, histVars, depVars, redisVars
<1>0. LoopTypes
  OBVIOUS
<1>1. CASE SkipDependent(w)
  <2>1. excused' \subseteq Tasks
    BY <1>1 DEF SkipDependent, LoopTypes, CurPcs
  <2>2. LoopTypes'
    BY <1>1 DEF SkipDependent, Step, LoopTypes, WorkerPcs, Holding, LoopPcs, CheckPcs, FailPcs, CurPcs
  <2> QED
    BY <1>1, <2>1, <2>2 DEF SkipDependent
<1>2. CASE AbandonDeps(w)
  <2>1. hold[w] \in Tasks
    BY <1>2 DEF AbandonDeps, Abandon, LoopTypes
  <2>2. LoopTypes'
    BY <1>0, <1>2, ReleaseTypes DEF AbandonDeps, Abandon
  <2>3. fate' \in [Tasks -> Fates]
    BY <1>2, <2>1, SettleType DEF AbandonDeps, Abandon, Fates
  <2>4. excused' \subseteq Tasks
    BY <1>2, <2>1 DEF AbandonDeps, Unvisited, LoopTypes
  <2> QED
    BY <1>2, <2>2, <2>3, <2>4 DEF AbandonDeps, Abandon
<1>3. CASE BeforeFails(w) /\ UNCHANGED depVars
  <2>1. hold[w] \in Tasks
    BY <1>3 DEF BeforeFails, LoopTypes, Holding
  <2>2. LoopTypes'
    BY <1>0, <1>3, ReleaseTypes DEF BeforeFails
  <2>3. fate' \in [Tasks -> Fates]
    BY <1>3, <2>1, SettleType DEF BeforeFails, Fates
  <2> QED
    BY <1>3, <2>2, <2>3 DEF BeforeFails
<1> QED
  BY <1>1, <1>2, <1>3

(* A call of an administrator goes on about its task or returns.            *)
LEMMA CallGoesOn ==
    ASSUME CallTypes, NEW a \in Admins, NEW t \in Tasks,
           NEW next \in CancelPcs \cup RequeuePcs \cup {"returned"}, Call(a, next, t)
    PROVE  CallTypes'
  BY DEF CallTypes, Call, CancelPcs, RequeuePcs

(* cancel_task and retry_task.                                              *)
LEMMA AdminTypes ==
    ASSUME DepTypes, NEW a \in Admins, CancelDeps(a) \/ (Requeue(a) /\ UNCHANGED depVars)
    PROVE  DepTypes'
<1> USE DEF DepTypes, QueueTypes, LoopTypes, SetTypes, Missing, WrongType,
        clientVars, workerVars, histVars, depVars, redisVars
<1>0. CallTypes
  OBVIOUS
<1>1. ASSUME NEW t \in Tasks, StartCancel(a, t), UNCHANGED depVars PROVE DepTypes'
  <2>1. CallTypes'
    BY <1>0, <1>1, CallGoesOn DEF StartCancel, CancelPcs
  <2> QED
    BY <1>1, <2>1 DEF StartCancel
<1>2. CASE CancelStep(a) /\ UNCHANGED depVars
  <2>1. apc[a] \in DOMAIN NextPlace /\ NextPlace[apc[a]] \in CancelPcs \cup {"returned"}
    BY <1>2 DEF CancelStep, NextPlace, CancelPcs
  <2>2. atask[a] \in Tasks
    BY <2>1 DEF CallTypes, CancelPcs, NextPlace
  <2>3. PICK next \in CancelPcs \cup {"returned"} : Call(a, next, atask[a])
    BY <1>2, <2>1 DEF CancelStep, CancelPcs
  <2>4. CallTypes'
    BY <1>0, <2>2, <2>3, CallGoesOn
  <2>5. queue' \in Seq(Tasks)
    BY <1>2, <2>2, LRemFacts DEF CancelStep
  <2>6. fate' \in [Tasks -> Fates]
    BY <1>2, <2>2, SettleType DEF CancelStep, Fates
  <2>7. /\ pqueue' \subseteq Tasks /\ delayed' \subseteq Tasks /\ retry' \subseteq Tasks
        /\ UNCHANGED <<data, cpc, pc, hold, cnt>>
    BY <1>2 DEF CancelStep
  <2> QED
    BY <1>2, <2>4, <2>5, <2>6, <2>7
<1>3. CASE CancelUnique(a) /\ UNCHANGED depVars
  <2>1. atask[a] \in Tasks
    BY <1>3 DEF CancelUnique, CallTypes, CancelPcs
  <2>2. CallTypes'
    BY <1>0, <1>3, <2>1, CallGoesOn DEF CancelUnique, CancelPcs
  <2> QED
    BY <1>3, <2>2 DEF CancelUnique
<1>4. CASE CancelCleanDeps(a)
  <2>1. atask[a] \in Tasks
    BY <1>4 DEF CancelCleanDeps, CancelClean, CallTypes, CancelPcs
  <2>2. PICK next \in {"returned", "unique"} : Call(a, next, atask[a])
    BY <1>4 DEF CancelCleanDeps, CancelClean
  <2>3. CallTypes'
    BY <1>0, <2>1, <2>2, CallGoesOn DEF CancelPcs
  <2>4. data' \in [Tasks -> Nat \cup {Missing, WrongType}]
    BY <1>4, <2>1 DEF CancelCleanDeps, CancelClean
  <2>5. pending' \in [Tasks -> SUBSET Tasks] /\ dependents' \in [Tasks -> SUBSET Tasks]
    BY <1>4, <2>1 DEF CancelCleanDeps
  <2> QED
    BY <1>4, <2>3, <2>4, <2>5 DEF CancelCleanDeps, CancelClean
<1>5. ASSUME NEW t \in Tasks, StartRequeue(a, t), UNCHANGED depVars PROVE DepTypes'
  <2>1. CallTypes'
    BY <1>0, <1>5, CallGoesOn DEF StartRequeue, RequeuePcs
  <2> QED
    BY <1>5, <2>1 DEF StartRequeue
<1>6. CASE RequeueLoad(a) /\ UNCHANGED depVars
  <2>1. atask[a] \in Tasks
    BY <1>6 DEF RequeueLoad, CallTypes, RequeuePcs
  <2>2. CallTypes'
    BY <1>0, <1>6, <2>1, CallGoesOn DEF RequeueLoad, RequeuePcs
  <2> QED
    BY <1>6, <2>2 DEF RequeueLoad
<1>7. CASE RequeueStore(a) /\ UNCHANGED depVars
  <2>1. atask[a] \in Tasks
    BY <1>7 DEF RequeueStore, CallTypes, RequeuePcs
  <2>2. CallTypes'
    BY <1>0, <1>7, <2>1, CallGoesOn DEF RequeueStore, RequeuePcs
  <2>3. data' \in [Tasks -> Nat \cup {Missing, WrongType}]
    BY <1>7, <2>1 DEF RequeueStore
  <2> QED
    BY <1>7, <2>2, <2>3 DEF RequeueStore
<1>8. CASE RequeueRemove(a) /\ UNCHANGED depVars
  <2>1. atask[a] \in Tasks
    BY <1>8 DEF RequeueRemove, CallTypes, RequeuePcs
  <2>2. CallTypes'
    BY <1>0, <1>8, <2>1, CallGoesOn DEF RequeueRemove, RequeuePcs
  <2> QED
    BY <1>8, <2>2 DEF RequeueRemove
<1>9. CASE RequeuePush(a) /\ UNCHANGED depVars
  <2>1. atask[a] \in Tasks
    BY <1>9 DEF RequeuePush, CallTypes, RequeuePcs
  <2>2. CallTypes'
    BY <1>0, <1>9, <2>1, CallGoesOn DEF RequeuePush
  <2>3. queue' \in Seq(Tasks)
    BY <1>9, <2>1, AppendFacts DEF RequeuePush
  <2>4. fate' \in [Tasks -> Fates]
    BY <1>9 DEF RequeuePush, Fates
  <2> QED
    BY <1>9, <2>2, <2>3, <2>4 DEF RequeuePush
<1> QED
  BY <1>1, <1>2, <1>3, <1>4, <1>5, <1>6, <1>7, <1>8, <1>9 DEF CancelDeps, Requeue

LEMMA DepTypesStep == DepTypes /\ [DepNext]_allVars => DepTypes'
<1> SUFFICES ASSUME DepTypes, [DepNext]_allVars PROVE DepTypes'
  OBVIOUS
<1> USE DEF DepTypes, QueueTypes, LoopTypes, CallTypes, SetTypes, Missing, WrongType,
        clientVars, workerVars, adminVars, histVars, depVars, redisVars
<1>1. ASSUME NEW t \in Tasks, MoveDue(t) PROVE DepTypes'
  <2>1. Append(queue, t) \in Seq(Tasks)
    OBVIOUS
  <2>2. CASE MoveDelayed(t) /\ UNCHANGED depVars
    BY <2>1, <2>2 DEF MoveDelayed
  <2>3. CASE MoveRetry(t) /\ UNCHANGED depVars
    BY <2>1, <2>3 DEF MoveRetry
  <2> QED
    BY <1>1, <2>2, <2>3 DEF MoveDue
<1>2. CASE OtherEvents
  <2>1. ASSUME NEW t \in Tasks, Expire(t), UNCHANGED depVars PROVE DepTypes'
    BY <2>1 DEF Expire
  <2>2. ASSUME NEW w \in Workers, BeforeFails(w), UNCHANGED depVars PROVE DepTypes'
    BY <2>2, FailureTypes
  <2>3. ASSUME NEW b \in BOOLEAN, SetPause(b), UNCHANGED depVars PROVE DepTypes'
    BY <2>3 DEF SetPause
  <2>4. CASE Flush /\ UNCHANGED depVars
    <3>1. queue' \in Seq(Tasks)
      BY <2>4 DEF Flush
    <3>2. fate' \in [Tasks -> Fates]
      BY <2>4 DEF Flush, Fates
    <3> QED
      BY <2>4, <3>1, <3>2 DEF Flush
  <2> QED
    BY <1>2, <2>1, <2>2, <2>3, <2>4 DEF OtherEvents
<1>3. CASE UNCHANGED allVars
  BY <1>3 DEF allVars, vars
<1> QED
  BY <1>1, <1>2, <1>3, SubmitTypes, RoundTypes, FinishTypes, FailureTypes, AdminTypes
     DEF DepNext, RunDeps

LEMMA DepTypesHold == DepSpec => []DepTypes
  BY DepTypesInit, DepTypesStep, PTL DEF DepSpec

(* Every variable of the dependency loops keeps its type, and a loop has a  *)
(* dependent in its hand where it writes one.                               *)
THEOREM DepTypesCorrect == DepSpec => []DepTypeOK
<1>1. DepTypes => DepTypeOK
  BY DEF DepTypes, QueueTypes, LoopTypes, SetTypes, DepTypeOK
<1> QED
  BY <1>1, DepTypesHold, PTL
-----------------------------------------------------------------------------
(* A dependent waits for every live dependency that lists it.              *)

(* Nobody takes a task out of a dead list or out of the system, and no data *)
(* runs out: a task that has ended stays so.                                *)
Unattended == Admins = {} /\ "expire" \notin Env

(* d will lead a worker to t, and neither has ended.                        *)
Bound(t, d) ==
    /\ t \in dependents[d] \/ d \in unlinked[t]
    /\ fate[t] = "live" /\ fate[d] = "live"

(* Only stored tasks are linked, and a stored task has data.                *)
LinkedIsStored ==
    /\ \A t \in Tasks : data[t] = Missing => cpc[t] = "new"
    /\ \A t, d \in Tasks : t \in dependents[d] => cpc[t] # "new"

(* What a worker in a loop knows of the task it finished and of the         *)
(* dependent in its hand: once nothing was pending, or the dependent is     *)
(* dead, it may delete what is pending.                                     *)
LoopKnows(w) ==
    /\ \A t \in left[w] : cpc[t] # "new"
    /\ pc[w] \in LoopPcs => fate[hold[w]] # "live"
    /\ pc[w] \in CurPcs => cpc[cur[w]] # "new"
    /\ pc[w] \in {"c_queue", "c_push", "c_clean"} => \A d \in Tasks : ~Bound(cur[w], d)
    /\ pc[w] = "f_clean" => fate[cur[w]] # "live"

LinkInv ==
    /\ DepTypes /\ LinkedIsStored
    /\ \A t, d \in Tasks : Bound(t, d) => d \in pending[t]
    /\ \A w \in Workers : LoopKnows(w)

LEMMA LinkInit == DepInit => LinkInv
<1> SUFFICES ASSUME DepInit PROVE LinkInv
  OBVIOUS
<1>1. LinkedIsStored /\ \A t, d \in Tasks : ~Bound(t, d)
  BY DEF DepInit, Init, LinkedIsStored, Bound
<1>2. \A w \in Workers : LoopKnows(w)
  BY DEF DepInit, Init, LoopKnows, LoopPcs, CheckPcs, FailPcs, CurPcs
<1> QED
  BY <1>1, <1>2, DepTypesInit DEF LinkInv

(* A step outside the loops: no set of the dependencies changes, a task that *)
(* has ended stays so, and a loop begins after its task has ended.          *)
LEMMA CalmStep ==
    ASSUME LinkInv, DepTypes', UNCHANGED <<pending, dependents, unlinked, left, cur>>,
           \A t \in Tasks : /\ fate[t] # "live" => fate'[t] # "live"
                            /\ cpc[t] # "new" => cpc'[t] # "new"
                            /\ data'[t] = Missing => data[t] = Missing /\ cpc'[t] = cpc[t],
           \A w \in Workers : pc'[w] \in LoopPcs =>
               /\ hold'[w] = hold[w]
               /\ pc'[w] = pc[w] \/ (pc'[w] = "deps" /\ fate'[hold[w]] # "live")
    PROVE  LinkInv'
<1>1. ASSUME NEW t \in Tasks, NEW d \in Tasks, Bound(t, d)' PROVE Bound(t, d)
  BY <1>1 DEF Bound
<1>2. LinkedIsStored'
  BY DEF LinkInv, LinkedIsStored
<1>3. ASSUME NEW w \in Workers PROVE LoopKnows(w)'
  <2>1. LoopKnows(w) /\ left[w] \subseteq Tasks
    BY DEF LinkInv, DepTypes, LoopTypes
  <2>2. CASE pc'[w] = pc[w] /\ pc[w] \in LoopPcs
    <3>1. hold[w] \in Tasks /\ (pc[w] \in CurPcs => cur[w] \in Tasks)
      BY <2>2 DEF LinkInv, DepTypes, LoopTypes
    <3>2. pc[w] \in {"c_queue", "c_push", "c_clean", "f_clean"} => pc[w] \in CurPcs
      BY DEF CurPcs
    <3> QED
      BY <1>1, <2>1, <2>2, <3>1, <3>2 DEF LoopKnows
  <2>3. CASE pc'[w] = "deps" /\ fate'[hold[w]] # "live"
    BY <2>1, <2>3 DEF LoopKnows, CurPcs, LoopPcs
  <2>4. CASE pc'[w] \notin LoopPcs
    BY <2>1, <2>4 DEF LoopKnows, LoopPcs, CheckPcs, FailPcs, CurPcs
  <2> QED
    BY <2>2, <2>3, <2>4
<1> QED
  BY <1>1, <1>2, <1>3 DEF LinkInv

(* Fates, calls and data move in one direction.                            *)
LEMMA SettleOneWay ==
    ASSUME NEW u \in Tasks, NEW why \in Fates, why # "live", fate \in [Tasks -> Fates],
           Settle(u, why)
    PROVE  fate'[u] # "live" /\ \A t \in Tasks : fate[t] # "live" => fate'[t] # "live"
  BY DEF Settle

(* The calls that submit tasks.  A task is linked only once it is stored    *)
(* and what it waits for is recorded.                                       *)
LEMMA LinkSubmit ==
    ASSUME LinkInv, DepTypes', NEW t \in Tasks, SubmitDeps(t)
    PROVE  LinkInv'
<1> USE DEF LinkInv, DepTypes, QueueTypes, LoopTypes, SetTypes
<1>0. Missing = -1 /\ WrongType = -2
  BY DEF Missing, WrongType
<1>1. ASSUME NEW o \in Ops, PlainStore(t, o) PROVE LinkInv'
  <2>1. /\ cpc' = [cpc EXCEPT ![t] = IF o = "enqueue" THEN "dedup" ELSE "push"]
        /\ data' = [data EXCEPT ![t] = IF o = "enqueue_batch" THEN WrongType ELSE 0]
        /\ UNCHANGED <<pc, hold, cnt, fate, pending, dependents, unlinked, left, cur>>
    BY <1>1 DEF PlainStore, Store, workerVars, histVars, depVars
  <2>2. ASSUME NEW u \in Tasks
        PROVE  /\ cpc[u] # "new" => cpc'[u] # "new"
               /\ data'[u] = Missing => data[u] = Missing /\ cpc'[u] = cpc[u]
    BY <1>0, <2>1
  <2> QED
    BY <2>1, <2>2, CalmStep
<1>2. CASE StoreParked(t)
  <2>1. /\ cpc' = [cpc EXCEPT ![t] = "link"] /\ data' = [data EXCEPT ![t] = 0]
        /\ pending' = [pending EXCEPT ![t] = DependsOn[t]]
        /\ unlinked' = [unlinked EXCEPT ![t] = DependsOn[t]]
        /\ cpc[t] = "new"
        /\ UNCHANGED <<pc, hold, cnt, fate, dependents, left, cur>>
    BY <1>2 DEF StoreParked, workerVars, histVars
  <2>2. LinkedIsStored'
    BY <1>0, <2>1 DEF LinkedIsStored
  <2>3. ASSUME NEW u \in Tasks, NEW d \in Tasks, Bound(u, d)' PROVE d \in pending'[u]
    <3>1. CASE u = t
      BY <2>1, <2>3, <3>1 DEF Bound, LinkedIsStored
    <3>2. CASE u # t
      BY <2>1, <2>3, <3>2 DEF Bound
    <3> QED
      BY <3>1, <3>2
  <2>4. ASSUME NEW w \in Workers PROVE LoopKnows(w)'
    <3>1. LoopKnows(w) /\ (pc[w] \in CurPcs => cur[w] \in Tasks /\ cur[w] # t) /\ t \notin left[w]
      BY <2>1 DEF LoopKnows
    <3>2. \A d \in Tasks : pc[w] \in CurPcs /\ Bound(cur[w], d)' => Bound(cur[w], d)
      BY <2>1, <3>1 DEF Bound
    <3> QED
      BY <2>1, <3>1, <3>2 DEF LoopKnows, CurPcs
  <2> QED
    BY <2>2, <2>3, <2>4
<1>3. ASSUME NEW d \in Tasks, Link(t, d) PROVE LinkInv'
  <2>1. /\ dependents' = [dependents EXCEPT ![d] = @ \cup {t}]
        /\ unlinked' = [unlinked EXCEPT ![t] = @ \ {d}]
        /\ cpc' = [cpc EXCEPT ![t] = IF unlinked[t] = {d} THEN "ok" ELSE "link"]
        /\ cpc[t] = "link" /\ d \in unlinked[t]
        /\ UNCHANGED <<data, pc, hold, cnt, fate, pending, left, cur>>
    BY <1>3 DEF Link, redisVars, workerVars, histVars
  <2>2. LinkedIsStored'
    BY <2>1 DEF LinkedIsStored
  <2>3. ASSUME NEW u \in Tasks, NEW e \in Tasks, Bound(u, e)' PROVE Bound(u, e)
    BY <2>1, <2>3 DEF Bound
  <2>4. ASSUME NEW w \in Workers PROVE LoopKnows(w)'
    <3>1. LoopKnows(w) /\ (pc[w] \in CurPcs => cur[w] \in Tasks) /\ left[w] \subseteq Tasks
      OBVIOUS
    <3>2. \A u \in Tasks : cpc[u] # "new" => cpc'[u] # "new"
      BY <2>1
    <3> QED
      BY <2>1, <2>3, <3>1, <3>2 DEF LoopKnows, CurPcs
  <2> QED
    BY <2>1, <2>2, <2>3, <2>4
<1>4. CASE (Dedup(t) \/ ToPQueue(t) \/ ToQueue(t) \/ ToDelayed(t)) /\ UNCHANGED depVars
  <2>1. PICK next \in {"rejected", "push", "ok", "dedup"} :
           /\ cpc' = [cpc EXCEPT ![t] = next] /\ cpc[t] # "new"
           /\ UNCHANGED <<data, pc, hold, fate, pending, dependents, unlinked, left, cur>>
    BY <1>4 DEF Dedup, ToPQueue, ToQueue, ToDelayed, workerVars, histVars, depVars
  <2>2. ASSUME NEW u \in Tasks
        PROVE  /\ cpc[u] # "new" => cpc'[u] # "new"
               /\ data'[u] = Missing => data[u] = Missing /\ cpc'[u] = cpc[u]
    BY <2>1 DEF LinkedIsStored
  <2> QED
    BY <2>1, <2>2, CalmStep
<1> QED
  BY <1>1, <1>2, <1>3, <1>4 DEF SubmitDeps

(* A round of task_loop: the loops begin behind an acknowledgement that     *)
(* settled the task.                                                       *)
LEMMA LinkRound ==
    ASSUME LinkInv, DepTypes', NEW w \in Workers, Take(w) \/ Process(w) \/ Ack(w),
           UNCHANGED depVars
    PROVE  LinkInv'
<1>0. /\ DepTypes /\ LinkedIsStored /\ UNCHANGED <<pending, dependents, unlinked, left, cur>>
      /\ LoopTypes /\ data \in [Tasks -> Nat \cup {Missing, WrongType}] /\ fate \in [Tasks -> Fates]
  BY DEF LinkInv, DepTypes, QueueTypes, depVars
<1>1. CASE AckStore(w)
  <2>1. /\ hold[w] \in Tasks /\ cnt[w] \in Nat /\ pc[w] = "store"
        /\ data' = [data EXCEPT ![hold[w]] = cnt[w]]
        /\ pc' = [pc EXCEPT ![w] = IF out[w] = "Retry" THEN "retry" ELSE "deps"]
        /\ UNCHANGED <<cpc, hold>>
    BY <1>0, <1>1 DEF AckStore, LoopTypes, Holding, clientVars
  <2>2. \A u \in Tasks : data'[u] = Missing => data[u] = Missing
    BY <1>0, <2>1 DEF Missing
  <2>3. CASE out[w] = "Retry"
    <3>1. fate' = fate /\ \A v \in Workers : pc'[v] \in LoopPcs => pc'[v] = pc[v]
      BY <1>0, <1>1, <2>1, <2>3 DEF AckStore, LoopTypes, LoopPcs, CheckPcs, FailPcs
    <3> QED
      BY <1>0, <2>1, <2>2, <3>1, CalmStep
  <2>4. CASE out[w] # "Retry"
    <3>1. /\ fate'[hold[w]] # "live"
          /\ \A u \in Tasks : fate[u] # "live" => fate'[u] # "live"
      BY <1>0, <1>1, <2>1, <2>4, SettleOneWay DEF AckStore, Fates
    <3>2. \A v \in Workers : pc'[v] \in LoopPcs =>
             pc'[v] = pc[v] \/ (pc'[v] = "deps" /\ fate'[hold[v]] # "live")
      BY <1>0, <2>1, <2>4, <3>1 DEF LoopTypes
    <3> QED
      BY <1>0, <2>1, <2>2, <3>1, <3>2, CalmStep
  <2> QED
    BY <2>3, <2>4
<1>2. CASE Load(w)
  <2>1. /\ hold[w] \in Tasks /\ pc[w] \in {"pload", "load"} /\ UNCHANGED <<data, cpc>>
    BY <1>0, <1>2 DEF Load, LoopTypes, Holding, redisVars, clientVars
  <2>2. \A u \in Tasks : fate[u] # "live" => fate'[u] # "live"
    BY <1>0, <1>2, <2>1, SettleOneWay DEF Load, Fates
  <2>3. PICK next \in {"before", "check", "idle"} :
           pc' = [pc EXCEPT ![w] = next] /\ \A v \in Workers : v # w => hold'[v] = hold[v]
    BY <1>0, <1>2 DEF Load, Release, LoopTypes
  <2>4. \A v \in Workers : pc'[v] \in LoopPcs => hold'[v] = hold[v] /\ pc'[v] = pc[v]
    BY <1>0, <2>3 DEF LoopTypes, LoopPcs, CheckPcs, FailPcs
  <2> QED
    BY <1>0, <2>1, <2>2, <2>4, CalmStep
<1>3. CASE ~AckStore(w) /\ ~Load(w)
  <2>1. /\ UNCHANGED <<data, cpc, fate>>
        /\ \E next \in {"check", "pload", "idle", "blpop", "popped", "load", "running", "ack", "store"} :
              pc' = [pc EXCEPT ![w] = next]
        /\ \A v \in Workers : v # w => hold'[v] = hold[v]
    BY <1>0, <1>3 DEF Take, Process, Ack, PDequeue, CheckPause, BlPop, PushActive, Start, Succeed,
       Fail, AckRemove, ScheduleRetry, Release, LoopTypes, redisVars, clientVars, histVars
  <2>2. \A v \in Workers : pc'[v] \in LoopPcs => hold'[v] = hold[v] /\ pc'[v] = pc[v]
    BY <1>0, <2>1 DEF LoopTypes, LoopPcs, CheckPcs, FailPcs
  <2> QED
    BY <1>0, <2>1, <2>2, CalmStep
<1> QED
  BY <1>1, <1>2, <1>3

(* A step of the loops keeps what is stored, and what other workers know.   *)
LEMMA LoopStep ==
    ASSUME LinkInv, DepTypes', NEW w \in Workers, UNCHANGED <<cpc, unlinked>>,
           \A t \in Tasks : /\ fate[t] # "live" => fate'[t] # "live"
                            /\ data'[t] = Missing => data[t] = Missing
                            /\ dependents'[t] \subseteq dependents[t],
           \A v \in Workers : v # w => /\ pc'[v] = pc[v] /\ hold'[v] = hold[v]
                                       /\ left'[v] = left[v] /\ cur'[v] = cur[v],
           \A t, d \in Tasks : Bound(t, d)' => d \in pending'[t],
           LoopKnows(w)'
    PROVE  LinkInv'
<1>1. ASSUME NEW t \in Tasks, NEW d \in Tasks, Bound(t, d)' PROVE Bound(t, d)
  BY <1>1 DEF Bound
<1>2. LinkedIsStored'
  BY DEF LinkInv, LinkedIsStored
<1>3. ASSUME NEW v \in Workers, v # w PROVE LoopKnows(v)'
  <2>1. /\ LoopKnows(v)
        /\ pc[v] \in LoopPcs => hold[v] \in Tasks
        /\ pc[v] \in CurPcs => cur[v] \in Tasks
    BY DEF LinkInv, DepTypes, LoopTypes
  <2> QED
    BY <1>1, <1>3, <2>1 DEF LoopKnows, CurPcs
<1> QED
  BY <1>2, <1>3 DEF LinkInv

(* Leaving a loop, for whatever reason.                                     *)
LEMMA LeaveLoop ==
    ASSUME LinkInv, DepTypes', NEW w \in Workers, UNCHANGED <<cpc, unlinked, pending, data>>,
           \A t \in Tasks : /\ fate[t] # "live" => fate'[t] # "live"
                            /\ dependents'[t] \subseteq dependents[t],
           Release(w, "idle"),
           \A v \in Workers : v # w => left'[v] = left[v] /\ cur'[v] = cur[v],
           left'[w] \subseteq left[w]
    PROVE  LinkInv'
<1>1. \A v \in Workers : v # w => pc'[v] = pc[v] /\ hold'[v] = hold[v]
  BY DEF Release, LinkInv, DepTypes, LoopTypes
<1>2. LoopKnows(w)'
  BY DEF Release, LinkInv, DepTypes, LoopTypes, LoopKnows, LoopPcs, CheckPcs, FailPcs, CurPcs
<1>3. \A t, d \in Tasks : Bound(t, d)' => d \in pending'[t]
  BY DEF Bound, LinkInv
<1> QED
  BY <1>1, <1>2, <1>3, LoopStep

LEMMA LinkFailure ==
    ASSUME LinkInv, DepTypes', NEW w \in Workers,
           SkipDependent(w) \/ AbandonDeps(w) \/ (BeforeFails(w) /\ UNCHANGED depVars)
    PROVE  LinkInv'
<1>0. LoopTypes /\ fate \in [Tasks -> Fates]
  BY DEF LinkInv, DepTypes, QueueTypes
<1>1. CASE SkipDependent(w)
  <2>1. /\ pc[w] \in {"c_push", "f_store", "f_push"}
        /\ pc' = [pc EXCEPT ![w] = IF pc[w] = "c_push" THEN "c_next" ELSE "f_next"]
        /\ UNCHANGED <<data, cpc, fate, hold, pending, dependents, unlinked, left, cur>>
    BY <1>1 DEF SkipDependent, Step, redisVars, clientVars, histVars
  <2>2. LoopKnows(w)'
    BY <1>0, <2>1 DEF LinkInv, LoopTypes, LoopKnows, LoopPcs, CheckPcs, FailPcs, CurPcs
  <2>3. \A t, d \in Tasks : Bound(t, d)' => d \in pending'[t]
    BY <2>1 DEF Bound, LinkInv
  <2>4. \A v \in Workers : v # w => pc'[v] = pc[v]
    BY <1>0, <2>1 DEF LoopTypes
  <2> QED
    BY <2>1, <2>2, <2>3, <2>4, LoopStep
<1>2. CASE AbandonDeps(w) \/ (BeforeFails(w) /\ UNCHANGED depVars)
  <2>1. /\ hold[w] \in Tasks /\ Release(w, "idle") /\ Settle(hold[w], "abandoned")
        /\ UNCHANGED <<data, cpc, pending, dependents, unlinked>>
    BY <1>0, <1>2 DEF AbandonDeps, Abandon, BeforeFails, LoopTypes, Holding, redisVars, clientVars, depVars
  <2>2. \A t \in Tasks : fate[t] # "live" => fate'[t] # "live"
    BY <1>0, <2>1, SettleOneWay DEF Fates
  <2>3. /\ \A v \in Workers : v # w => left'[v] = left[v] /\ cur'[v] = cur[v]
        /\ left'[w] \subseteq left[w]
    BY <1>0, <1>2 DEF AbandonDeps, LoopTypes, depVars
  <2> QED
    BY <2>1, <2>2, <2>3, LeaveLoop
<1> QED
  BY <1>1, <1>2

(* An error that ends a loop.                                              *)
LEMMA LinkBreak ==
    ASSUME LinkInv, DepTypes', NEW w \in Workers, Break(w),
           UNCHANGED <<cpc, data, fate, pending, dependents, unlinked>>
    PROVE  LinkInv'
<1>1. /\ \A v \in Workers : v # w => left'[v] = left[v] /\ cur'[v] = cur[v]
      /\ left'[w] \subseteq left[w] /\ Release(w, "idle")
  BY DEF Break, LinkInv, DepTypes, LoopTypes
<1> QED
  BY <1>1, LeaveLoop

(* The loops.  What is pending shrinks in two ways: by a task that has      *)
(* ended, or altogether for a dependent nobody live is bound to.            *)
LEMMA LinkFinish ==
    ASSUME LinkInv, DepTypes', NEW w \in Workers, FinishDeps(w)
    PROVE  LinkInv'
<1>0. /\ LoopTypes /\ LinkedIsStored /\ LoopKnows(w)
      /\ data \in [Tasks -> Nat \cup {Missing, WrongType}] /\ fate \in [Tasks -> Fates]
      /\ pending \in [Tasks -> SUBSET Tasks] /\ dependents \in [Tasks -> SUBSET Tasks]
      /\ \A t, d \in Tasks : Bound(t, d) => d \in pending[t]
  BY DEF LinkInv, DepTypes, QueueTypes, SetTypes
<1> DEFINE Own == \A v \in Workers : v # w => /\ pc'[v] = pc[v] /\ hold'[v] = hold[v]
                                              /\ left'[v] = left[v] /\ cur'[v] = cur[v]
<1>1. CASE ReadDependents(w)
  <2>1. pc[w] = "deps" /\ hold[w] \in Tasks
        /\ UNCHANGED <<data, cpc, fate, pending, dependents, unlinked, cur>>
    BY <1>0, <1>1 DEF ReadDependents, LoopTypes, LoopPcs, redisVars, clientVars, histVars
  <2>2. CASE dependents[hold[w]] = {}
    <3>1. Release(w, "idle") /\ left' = left
      BY <1>1, <2>2 DEF ReadDependents
    <3> QED
      BY <2>1, <3>1, LeaveLoop
  <2>3. CASE dependents[hold[w]] # {}
    <3>1. PICK next \in {"c_next", "f_next"} :
             /\ pc' = [pc EXCEPT ![w] = next]
             /\ left' = [left EXCEPT ![w] = dependents[hold[w]]]
             /\ hold' = hold
      BY <1>1, <2>3 DEF ReadDependents
    <3>2. LoopKnows(w)'
      BY <1>0, <2>1, <3>1 DEF LoopTypes, LoopKnows, LinkedIsStored, LoopPcs, CheckPcs, FailPcs, CurPcs
    <3>3. \A t, d \in Tasks : Bound(t, d)' => d \in pending'[t]
      BY <1>0, <2>1 DEF Bound
    <3> QED
      BY <1>0, <2>1, <3>1, <3>2, <3>3, LoopStep DEF LoopTypes
  <2> QED
    BY <2>2, <2>3
<1>2. ASSUME NEW e \in Tasks, RemovePending(w, e) PROVE LinkInv'
  <2>1. /\ pc[w] = "c_next" /\ e \in left[w] /\ hold[w] \in Tasks
        /\ left' = [left EXCEPT ![w] = @ \ {e}] /\ cur' = [cur EXCEPT ![w] = e]
        /\ pending' = [pending EXCEPT ![e] = @ \ {hold[w]}]
        /\ pc' = [pc EXCEPT ![w] = "c_card"]
        /\ UNCHANGED <<hold, data, cpc, fate, dependents, unlinked>>
    BY <1>0, <1>2 DEF RemovePending, Step, LoopTypes, LoopPcs, CheckPcs, redisVars, clientVars, histVars
  <2>2. fate[hold[w]] # "live"
    BY <1>0, <2>1 DEF LoopKnows, LoopPcs, CheckPcs
  <2>3. \A t, d \in Tasks : Bound(t, d)' => d \in pending'[t]
    BY <1>0, <2>1, <2>2 DEF Bound
  <2>4. LoopKnows(w)'
    BY <1>0, <2>1, <2>2 DEF LoopTypes, LoopKnows, LoopPcs, CheckPcs, FailPcs, CurPcs
  <2>5. Own
    BY <1>0, <2>1 DEF LoopTypes
  <2> QED
    BY <2>1, <2>3, <2>4, <2>5, LoopStep
<1>3. CASE CountPending(w)
  <2>1. /\ pc[w] = "c_card" /\ cur[w] \in Tasks
        /\ pc' = [pc EXCEPT ![w] = IF pending[cur[w]] = {} THEN "c_queue" ELSE "c_next"]
        /\ UNCHANGED <<hold, data, cpc, fate, pending, dependents, unlinked, left, cur>>
    BY <1>0, <1>3 DEF CountPending, Step, LoopTypes, CurPcs, redisVars, clientVars, histVars, depVars
  <2>2. \A t, d \in Tasks : Bound(t, d)' => Bound(t, d) /\ d \in pending'[t]
    BY <1>0, <2>1 DEF Bound
  <2>3. LoopKnows(w)'
    BY <1>0, <2>1, <2>2 DEF LoopTypes, LoopKnows, LoopPcs, CheckPcs, FailPcs, CurPcs
  <2>4. Own
    BY <1>0, <2>1 DEF LoopTypes
  <2> QED
    BY <2>1, <2>2, <2>3, <2>4, LoopStep
<1>4. CASE ReadQueue(w)
  <2>1. /\ pc[w] = "c_queue" /\ cur[w] \in Tasks
        /\ UNCHANGED <<data, cpc, fate, pending, dependents, unlinked>>
    BY <1>0, <1>4 DEF ReadQueue, LoopTypes, CurPcs, redisVars, clientVars, histVars
  <2>2. CASE data[cur[w]] = WrongType
    <3>1. Break(w)
      BY <1>4, <2>2 DEF ReadQueue
    <3> QED
      BY <2>1, <3>1, LinkBreak
  <2>3. CASE data[cur[w]] # WrongType
    <3>1. PICK next \in {"c_clean", "c_push"} :
             pc' = [pc EXCEPT ![w] = next] /\ UNCHANGED <<hold, left, cur>>
      BY <1>4, <2>3 DEF ReadQueue, Step
    <3>2. \A t, d \in Tasks : Bound(t, d)' => Bound(t, d) /\ d \in pending'[t]
      BY <1>0, <2>1 DEF Bound
    <3>3. LoopKnows(w)'
      BY <1>0, <2>1, <3>1, <3>2 DEF LoopTypes, LoopKnows, LoopPcs, CheckPcs, FailPcs, CurPcs
    <3> QED
      BY <1>0, <2>1, <3>1, <3>2, <3>3, LoopStep DEF LoopTypes
  <2> QED
    BY <2>2, <2>3
<1>5. CASE ReleaseDependent(w)
  <2>1. /\ pc[w] = "c_push" /\ cur[w] \in Tasks /\ pc' = [pc EXCEPT ![w] = "c_clean"]
        /\ UNCHANGED <<hold, data, cpc, fate, pending, dependents, unlinked, left, cur>>
    BY <1>0, <1>5 DEF ReleaseDependent, Step, LoopTypes, CurPcs, clientVars, histVars, depVars
  <2>2. \A t, d \in Tasks : Bound(t, d)' => Bound(t, d) /\ d \in pending'[t]
    BY <1>0, <2>1 DEF Bound
  <2>3. LoopKnows(w)'
    BY <1>0, <2>1, <2>2 DEF LoopTypes, LoopKnows, LoopPcs, CheckPcs, FailPcs, CurPcs
  <2> QED
    BY <1>0, <2>1, <2>2, <2>3, LoopStep DEF LoopTypes
<1>6. ASSUME NEW e \in Tasks, ReadDependent(w, e) PROVE LinkInv'
  <2>1. /\ pc[w] = "f_next" /\ e \in left[w]
        /\ UNCHANGED <<data, cpc, fate, pending, dependents, unlinked>>
    BY <1>6 DEF ReadDependent, redisVars, clientVars, histVars
  <2>2. CASE data[e] = WrongType
    <3>1. Break(w)
      BY <1>6, <2>2 DEF ReadDependent
    <3> QED
      BY <2>1, <3>1, LinkBreak
  <2>3. CASE data[e] # WrongType
    <3>1. data[e] # Missing
      BY <1>0, <2>1 DEF LoopKnows, LinkedIsStored
    <3>2. /\ left' = [left EXCEPT ![w] = @ \ {e}] /\ cur' = [cur EXCEPT ![w] = e]
          /\ pc' = [pc EXCEPT ![w] = "f_store"] /\ hold' = hold
      BY <1>6, <2>3, <3>1 DEF ReadDependent, Step
    <3>3. \A t, d \in Tasks : Bound(t, d)' => d \in pending'[t]
      BY <1>0, <2>1 DEF Bound
    <3>4. LoopKnows(w)'
      BY <1>0, <2>1, <3>2 DEF LoopTypes, LoopKnows, LoopPcs, CheckPcs, FailPcs, CurPcs
    <3> QED
      BY <1>0, <2>1, <3>2, <3>3, <3>4, LoopStep DEF LoopTypes
  <2> QED
    BY <2>2, <2>3
<1>7. CASE StoreDead(w)
  <2>1. /\ pc[w] = "f_store" /\ cur[w] \in Tasks /\ cnt[w] \in Nat
        /\ data' = [data EXCEPT ![cur[w]] = cnt[w]] /\ pc' = [pc EXCEPT ![w] = "f_push"]
        /\ UNCHANGED <<hold, cpc, fate, pending, dependents, unlinked, left, cur>>
    BY <1>0, <1>7 DEF StoreDead, Step, LoopTypes, CurPcs, clientVars, histVars, depVars
  <2>2. \A t \in Tasks : data'[t] = Missing => data[t] = Missing
    BY <1>0, <2>1 DEF Missing
  <2>3. \A t, d \in Tasks : Bound(t, d)' => d \in pending'[t]
    BY <1>0, <2>1 DEF Bound
  <2>4. LoopKnows(w)'
    BY <1>0, <2>1 DEF LoopTypes, LoopKnows, LoopPcs, CheckPcs, FailPcs, CurPcs
  <2> QED
    BY <1>0, <2>1, <2>2, <2>3, <2>4, LoopStep DEF LoopTypes
<1>8. CASE PushDead(w)
  <2>1. /\ pc[w] = "f_push" /\ cur[w] \in Tasks /\ Settle(cur[w], "dead")
        /\ pc' = [pc EXCEPT ![w] = "f_clean"]
        /\ UNCHANGED <<hold, data, cpc, pending, dependents, unlinked, left, cur>>
    BY <1>0, <1>8 DEF PushDead, Step, LoopTypes, CurPcs, clientVars, depVars
  <2>2. fate'[cur[w]] # "live" /\ \A t \in Tasks : fate[t] # "live" => fate'[t] # "live"
    BY <1>0, <2>1, SettleOneWay DEF Fates
  <2>3. \A t, d \in Tasks : Bound(t, d)' => d \in pending'[t]
    BY <1>0, <2>1, <2>2 DEF Bound
  <2>4. LoopKnows(w)'
    BY <1>0, <2>1, <2>2 DEF LoopTypes, LoopKnows, LoopPcs, CheckPcs, FailPcs, CurPcs, Holding
  <2> QED
    BY <1>0, <2>1, <2>2, <2>3, <2>4, LoopStep DEF LoopTypes
<1>9. CASE CleanPending(w)
  <2>1. /\ pc[w] \in {"c_clean", "f_clean"} /\ cur[w] \in Tasks
        /\ pending' = [pending EXCEPT ![cur[w]] = {}]
        /\ pc' = [pc EXCEPT ![w] = IF pc[w] = "c_clean" THEN "c_next" ELSE "f_next"]
        /\ UNCHANGED <<hold, data, cpc, fate, dependents, unlinked, left, cur>>
    BY <1>0, <1>9 DEF CleanPending, Step, LoopTypes, CurPcs, redisVars, clientVars, histVars
  <2>2. \A d \in Tasks : ~Bound(cur[w], d)
    BY <1>0, <2>1 DEF LoopKnows, Bound
  <2>3. \A t, d \in Tasks : Bound(t, d)' => Bound(t, d)
    BY <2>1 DEF Bound
  <2>4. \A t, d \in Tasks : Bound(t, d)' => d \in pending'[t]
    BY <1>0, <2>1, <2>2, <2>3
  <2>5. LoopKnows(w)'
    BY <1>0, <2>1 DEF LoopTypes, LoopKnows, LoopPcs, CheckPcs, FailPcs, CurPcs
  <2> QED
    BY <1>0, <2>1, <2>4, <2>5, LoopStep DEF LoopTypes
<1>10. CASE DropDependents(w)
  <2>1. /\ Release(w, "idle") /\ dependents' = [dependents EXCEPT ![hold[w]] = {}]
        /\ cur' = [cur EXCEPT ![w] = NoTask]
        /\ UNCHANGED <<data, cpc, fate, pending, unlinked, left>>
    BY <1>10 DEF DropDependents, redisVars, clientVars, histVars
  <2>2. /\ \A t \in Tasks : dependents'[t] \subseteq dependents[t]
        /\ \A v \in Workers : v # w => left'[v] = left[v] /\ cur'[v] = cur[v]
    BY <1>0, <2>1 DEF LoopTypes
  <2> QED
    BY <2>1, <2>2, LeaveLoop
<1> QED
  BY <1>1, <1>2, <1>3, <1>4, <1>5, <1>6, <1>7, <1>8, <1>9, <1>10
     DEF FinishDeps, CheckDependents, FailDependents

LEMMA LinkStep ==
    ASSUME Unattended, LinkInv, [DepNext]_allVars
    PROVE  LinkInv'
<1>0. DepTypes' /\ fate \in [Tasks -> Fates]
  BY DepTypesStep DEF LinkInv, DepTypes, QueueTypes
<1>1. ASSUME NEW t \in Tasks, MoveDue(t) PROVE LinkInv'
  <2>1. UNCHANGED <<cpc, data, fate, pc, hold, pending, dependents, unlinked, left, cur>>
    BY <1>1 DEF MoveDue, MoveDelayed, MoveRetry, clientVars, workerVars, histVars, depVars
  <2> QED
    BY <1>0, <2>1, CalmStep
<1>2. CASE OtherEvents
  <2>1. ASSUME NEW w \in Workers, BeforeFails(w), UNCHANGED depVars PROVE LinkInv'
    BY <1>0, <2>1, LinkFailure
  <2>2. ASSUME NEW b \in BOOLEAN, SetPause(b), UNCHANGED depVars PROVE LinkInv'
    <3>1. UNCHANGED <<cpc, data, fate, pc, hold, pending, dependents, unlinked, left, cur>>
      BY <2>2 DEF SetPause, clientVars, workerVars, depVars
    <3> QED
      BY <1>0, <3>1, CalmStep
  <2>3. CASE Flush /\ UNCHANGED depVars
    <3>1. UNCHANGED <<cpc, data, pc, hold, pending, dependents, unlinked, left, cur>>
      BY <2>3 DEF Flush, clientVars, workerVars, depVars
    <3>2. \A t \in Tasks : fate[t] # "live" => fate'[t] # "live"
      BY <1>0, <2>3 DEF Flush
    <3> QED
      BY <1>0, <3>1, <3>2, CalmStep
  <2>4. \A t \in Tasks : ~Expire(t)
    BY DEF Unattended, Expire
  <2> QED
    BY <1>2, <2>1, <2>2, <2>3, <2>4 DEF OtherEvents
<1>3. CASE UNCHANGED allVars
  <2>1. UNCHANGED <<cpc, data, fate, pc, hold, pending, dependents, unlinked, left, cur>>
    BY <1>3 DEF allVars, vars, redisVars, clientVars, workerVars, histVars, depVars
  <2> QED
    BY <1>0, <2>1, CalmStep
<1> QED
  BY <1>0, <1>1, <1>2, <1>3, LinkSubmit, LinkRound, LinkFinish, LinkFailure
     DEF DepNext, RunDeps, Unattended

(* enqueue and check_dependents: however clients link, workers end, fail and *)
(* die, a dependent waits for every dependency that lists it and has not    *)
(* ended, as long as nobody revives tasks and no data runs out.             *)
THEOREM LinksWait == ASSUME Unattended PROVE DepSpec => []LinkedIsPending
<1>1. DepInit => LinkInv
  BY LinkInit
<1>2. LinkInv /\ [DepNext]_allVars => LinkInv'
  BY LinkStep
<1>3. LinkInv => LinkedIsPending
  BY DEF LinkInv, LinkedIsPending, Bound
<1> QED
  BY <1>1, <1>2, <1>3, PTL DEF DepSpec

-----------------------------------------------------------------------------
(* Narrow dependencies.                                                    *)

(* A task with one dependency, or none.                                     *)
Narrow(t) == \A d, e \in DependsOn[t] : d = e

(* Nobody revives or removes tasks by hand, and a task that others depend   *)
(* on has at most one dependency of its own.                                *)
Undisturbed == Admins = {} /\ \A t \in Tasks : \A d \in DependsOn[t] : Narrow(d)

(* t was submitted with dependencies.                                       *)
IsParked(t) == Parked(t, op[t])

(* w is inside one of the two loops over dependents.                        *)
InLoop(w) == pc[w] \in CheckPcs \cup FailPcs

(* The loop of w will come to t, or has t in its hand.                      *)
AheadPcs == {"c_card", "c_queue", "c_push", "f_store", "f_push"}
HasToCome(w, t) == InLoop(w) /\ (t \in left[w] \/ (cur[w] = t /\ pc[w] \in AheadPcs))

(* w runs t, or has acknowledged it and goes on with its dependents.        *)
Engaged(w, t) == hold[w] = t /\ pc[w] \in Holding \cup LoopPcs

(* What d, one of its dependencies, will do to t has not been done yet.     *)
Ahead(t, d) ==
    \/ fate[d] = "live"
    \/ \E w \in Workers : hold[w] = d /\ (pc[w] = "deps" \/ HasToCome(w, t))

(* Nobody has pushed t yet.                                                *)
Fresh(t) == Unseen(t) \/ (IsParked(t) /\ \E d \in DependsOn[t] : Ahead(t, d))

(* The types that the invariants below start from.                          *)
OutTypes ==
    /\ op \in [Tasks -> SubmitOps \cup {"none"}]
    /\ runs \in [Tasks -> Nat]
    /\ out \in [Workers -> {"none", "Processed", "Retry", "Dead"}]
    /\ DepTypes

(* Every step keeps the types.                                              *)
LEMMA OutTypesStep ==
    ASSUME Undisturbed, OutTypes, [DepNext]_allVars
    PROVE  OutTypes'
<1>0. DepTypes' /\ DepTypes
  BY DepTypesStep DEF OutTypes
<1> USE DEF OutTypes
<1> DEFINE Goal == /\ op' \in [Tasks -> SubmitOps \cup {"none"}]
                   /\ runs' \in [Tasks -> Nat]
                   /\ out' \in [Workers -> {"none", "Processed", "Retry", "Dead"}]
<1> USE DEF redisVars, clientVars, workerVars, adminVars, histVars, depVars
<1>1. ASSUME NEW t \in Tasks, SubmitDeps(t) \/ MoveDue(t) PROVE Goal
  <2>1. op' = op \/ \E o \in Ops \cup {"enqueue"} : op' = [op EXCEPT ![t] = o]
    BY <1>1 DEF SubmitDeps, PlainStore, Store, StoreParked, Link, Dedup, ToPQueue, ToQueue, ToDelayed, MoveDue,
       MoveDelayed, MoveRetry
  <2>2. UNCHANGED <<runs, out>>
    BY <1>1 DEF SubmitDeps, PlainStore, Store, StoreParked, Link, Dedup, ToPQueue, ToQueue, ToDelayed, MoveDue,
       MoveDelayed, MoveRetry
  <2> QED
    BY <2>1, <2>2, ConstantsAssumption DEF SubmitOps
<1>2. ASSUME NEW w \in Workers, Take(w) \/ Process(w) \/ Ack(w) \/ BeforeFails(w) \/ Abandon(w) PROVE Goal
  BY <1>2 DEF Take, Process, Ack, PDequeue, CheckPause, BlPop, PushActive, Load, Start, Succeed, Fail, AckRemove,
     AckStore, ScheduleRetry, BeforeFails, Abandon, Release
<1>3. ASSUME NEW w \in Workers, FinishDeps(w) \/ SkipDependent(w) PROVE Goal
  BY <1>3 DEF FinishDeps, ReadDependents, CheckDependents, FailDependents, CleanPending, DropDependents,
     RemovePending, CountPending, ReadQueue, ReleaseDependent, ReadDependent, StoreDead, PushDead, SkipDependent,
     Step, Break, Release
<1>4. ASSUME OtherEvents PROVE Goal
  <2>1. CASE \E w \in Workers : BeforeFails(w)
    BY <1>2, <2>1
  <2>2. CASE ~\E w \in Workers : BeforeFails(w)
    BY <1>4, <2>2 DEF OtherEvents, Expire, SetPause, Flush
  <2> QED
    BY <2>1, <2>2
<1>5. ASSUME UNCHANGED allVars PROVE Goal
  BY <1>5 DEF allVars, vars
<1> HIDE DEF Goal
<1>6. Goal
  BY <1>1, <1>2, <1>3, <1>4, <1>5 DEF DepNext, RunDeps, AbandonDeps, Undisturbed
<1> QED
  BY <1>0, <1>6 DEF Goal

-----------------------------------------------------------------------------
(* The steps of a worker, by what they do to the tasks.                     *)

(* Where tasks wait, the sets of dependencies, and where a worker stands    *)
(* that has no task.                                                        *)
Boxes == <<queue, pqueue, delayed, retry>>
Sets == <<pending, dependents, excused>>
Outside == {"idle", "check", "blpop"}
(* Only t's value of f may change.                                          *)
Others(f, t) == \A u \in Tasks : u # t => f[u]' = f[u]

(* w has no task and takes none.                                            *)
Idles(w) ==
    /\ pc[w] \in Outside /\ pc'[w] \in Outside
    /\ UNCHANGED <<Boxes, Sets, fate, runs, data>>

(* w takes t from a priority queue or from the head of the list.            *)
Takes(w, t) ==
    /\ pc[w] \in Outside /\ pc'[w] \in Holding /\ hold'[w] = t
    /\ \/ t \in pqueue /\ pqueue' = pqueue \ {t} /\ queue' = queue
       \/ queue # <<>> /\ t = Head(queue) /\ queue' = Tail(queue) /\ pqueue' = pqueue
    /\ UNCHANGED <<delayed, retry, Sets, fate, runs, data>>

(* w goes on with the task it holds: loads it, starts it, ends it.          *)
Works(w) ==
    /\ pc[w] \in Holding /\ pc'[w] \in Holding
    /\ Others(runs, hold[w]) /\ Others(data, hold[w])
    /\ UNCHANGED <<Boxes, Sets, fate, hold>>

(* w lets its task go without an acknowledgement.                           *)
Drops(w) ==
    /\ pc[w] \in Holding /\ pc'[w] \in Outside
    /\ \E why \in {"unloadable", "abandoned"} : Settle(hold[w], why)
    /\ excused \subseteq excused'
    /\ UNCHANGED <<Boxes, pending, dependents, runs, data>>

(* w stores the end of its task and turns to its dependents.                *)
Acks(w) ==
    /\ pc[w] = "store" /\ pc'[w] = "deps"
    /\ Settle(hold[w], IF out[w] = "Processed" THEN "processed" ELSE "dead")
    /\ Others(data, hold[w])
    /\ UNCHANGED <<Boxes, Sets, hold, out, runs>>

(* w schedules its task for another attempt.                                *)
Retries(w) ==
    /\ pc[w] = "retry" /\ pc'[w] = "idle"
    /\ retry' = retry \cup {hold[w]}
    /\ UNCHANGED <<queue, pqueue, delayed, Sets, fate, runs, data>>

(* A loop is cut off, with whom it had not come to, ...                     *)
Cuts(w) ==
    /\ pc[w] \in LoopPcs /\ pc'[w] = "idle"
    /\ excused \cup (IF pc[w] = "deps" THEN dependents[hold[w]] ELSE Unvisited(w)) \subseteq excused'
    /\ UNCHANGED <<Boxes, fate, runs, data, pending, dependents>>

(* ... or there is nobody left.                                            *)
Finishes(w) ==
    /\ pc'[w] = "idle"
    /\ \/ pc[w] = "deps" /\ dependents[hold[w]] = {} /\ dependents' = dependents
       \/ pc[w] \in {"c_next", "f_next"} /\ left[w] = {} /\ dependents' = [dependents EXCEPT ![hold[w]] = {}]
    /\ UNCHANGED <<Boxes, fate, runs, data, pending, excused>>

(* w enters one of the loops over the dependents it has read.               *)
Enters(w) ==
    /\ pc[w] = "deps" /\ pc'[w] = (IF out[w] = "Processed" THEN "c_next" ELSE "f_next")
    /\ left'[w] = dependents[hold[w]]
    /\ dependents[hold[w]] # {}
    /\ UNCHANGED <<Boxes, Sets, hold, fate, runs, data>>

(* The next dependent is t.                                                *)
Checks(w, t) ==
    /\ pc[w] = "c_next" /\ pc'[w] = "c_card"
    /\ t \in left[w] /\ left'[w] = left[w] \ {t} /\ cur'[w] = t
    /\ pending' = [pending EXCEPT ![t] = @ \ {hold[w]}]
    /\ UNCHANGED <<Boxes, dependents, excused, hold, fate, runs, data>>

(* The next dependent, of a task that died, is t.                           *)
Fails(w, t) ==
    /\ pc[w] = "f_next"
    /\ \/ pc'[w] = "f_store"
       \/ pc'[w] = "f_clean" /\ data[t] = Missing
    /\ t \in left[w] /\ left'[w] = left[w] \ {t} /\ cur'[w] = t
    /\ UNCHANGED <<Boxes, Sets, hold, fate, runs, data>>

(* The loop stays with the same dependent: it only reads, ...               *)
Reads(w) ==
    /\ \/ pc[w] = "c_card" /\ pc'[w] = (IF pending[cur[w]] = {} THEN "c_queue" ELSE "c_next")
       \/ pc[w] = "c_queue" /\ pc'[w] = "c_push"
       \/ pc[w] = "c_queue" /\ pc'[w] = "c_clean" /\ data[cur[w]] = Missing
    /\ UNCHANGED <<Boxes, Sets, hold, left, cur, fate, runs, data>>

(* w gives up the dependent in its hand, after an error.                    *)
Skips(w) ==
    /\ \/ pc[w] = "c_push" /\ pc'[w] = "c_next"
       \/ pc[w] \in {"f_store", "f_push"} /\ pc'[w] = "f_next"
    /\ excused' = excused \cup {cur[w]}
    /\ UNCHANGED <<Boxes, pending, dependents, hold, left, cur, fate, runs, data>>

(* w deletes what was pending for the dependent in its hand.                *)
Cleans(w) ==
    /\ \/ pc[w] = "c_clean" /\ pc'[w] = "c_next"
       \/ pc[w] = "f_clean" /\ pc'[w] = "f_next"
    /\ pending' = [pending EXCEPT ![cur[w]] = {}]
    /\ UNCHANGED <<Boxes, dependents, excused, hold, left, cur, fate, runs, data>>

(* ... pushes it, ...                                                      *)
Releases(w) ==
    /\ pc[w] = "c_push" /\ pc'[w] = "c_clean"
    /\ queue' = Append(queue, cur[w])
    /\ UNCHANGED <<pqueue, delayed, retry, Sets, hold, left, cur, fate, runs, data>>

(* ... or kills it.                                                        *)
Kills(w) ==
    /\ \/ pc[w] = "f_store" /\ pc'[w] = "f_push" /\ Others(data, cur[w]) /\ fate' = fate
       \/ pc[w] = "f_push" /\ pc'[w] = "f_clean" /\ data' = data /\ Settle(cur[w], "dead")
    /\ UNCHANGED <<Boxes, Sets, hold, left, cur, runs>>

(* The steps of a round, and those among the dependents.                    *)
InRound(w) == Idles(w) \/ (\E t \in Tasks : Takes(w, t)) \/ Works(w) \/ Drops(w) \/ Acks(w) \/ Retries(w)

AtDependents(w) ==
    \/ Cuts(w) \/ Finishes(w) \/ Enters(w) \/ (\E t \in Tasks : Checks(w, t) \/ Fails(w, t))
    \/ Reads(w) \/ Skips(w) \/ Cleans(w) \/ Releases(w) \/ Kills(w)

(* The steps of TaskDeps that belong to a worker.                           *)
WorkerStep(w) ==
    \/ RunDeps(w) \/ SkipDependent(w) \/ AbandonDeps(w)
    \/ BeforeFails(w) /\ UNCHANGED depVars

(* w stands still.                                                          *)
Still(w) ==
    /\ pc'[w] = pc[w] /\ hold'[w] = hold[w] /\ out'[w] = out[w]
    /\ left'[w] = left[w] /\ cur'[w] = cur[w]

(* What no step of w touches.                                               *)
OnlyWorker(w) ==
    /\ \A v \in Workers : v # w => Still(v)
    /\ pc'[w] \in Outside => hold'[w] = NoTask \/ (pc[w] \in Outside /\ hold'[w] = hold[w])
    /\ UNCHANGED <<cpc, op, unlinked>>

(* A step of a round has one of the forms above.                            *)
LEMMA RoundForms ==
    ASSUME OutTypes, NEW w \in Workers,
           Take(w) \/ Process(w) \/ Ack(w) \/ BeforeFails(w), UNCHANGED depVars
    PROVE  InRound(w) /\ OnlyWorker(w)
<1>0. /\ pc \in [Workers -> WorkerPcs \cup CheckPcs \cup FailPcs] /\ hold \in [Workers -> Tasks \cup {NoTask}]
      /\ out \in [Workers -> {"none", "Processed", "Retry", "Dead"}]
      /\ runs \in [Tasks -> Nat] /\ data \in [Tasks -> Nat \cup {Missing, WrongType}]
      /\ queue \in Seq(Tasks) /\ pqueue \subseteq Tasks
      /\ pc[w] \in Holding => hold[w] \in Tasks
  BY DEF OutTypes, DepTypes, LoopTypes, QueueTypes
<1> DEFINE Goal == InRound(w) /\ OnlyWorker(w)
<1> USE DEF redisVars, clientVars, histVars, depVars, Boxes, Sets, Outside, OnlyWorker, Still
<1>1. CASE CheckPause(w)
  <2>1. Idles(w) /\ OnlyWorker(w)
    BY <1>0, <1>1 DEF CheckPause, Idles
  <2> QED
    BY <2>1 DEF InRound
<1>2. CASE PDequeue(w)
  <2>1. CASE pqueue' = pqueue /\ hold' = hold /\ pc' = [pc EXCEPT ![w] = "check"]
    <3>1. Idles(w) /\ OnlyWorker(w)
      BY <1>0, <1>2, <2>1 DEF PDequeue, Idles
    <3> QED
      BY <3>1 DEF InRound
  <2>2. ASSUME NEW t \in pqueue, pqueue' = pqueue \ {t},
               hold' = [hold EXCEPT ![w] = t], pc' = [pc EXCEPT ![w] = "pload"]
        PROVE  InRound(w) /\ OnlyWorker(w)
    <3>1. Takes(w, t) /\ OnlyWorker(w) /\ t \in Tasks
      BY <1>0, <1>2, <2>2 DEF PDequeue, Takes, Holding
    <3> QED
      BY <3>1 DEF InRound
  <2> QED
    BY <1>2, <2>1, <2>2 DEF PDequeue
<1>3. CASE BlPop(w)
  <2>1. CASE queue # <<>>
    <3>1. Head(queue) \in Tasks
      BY <1>0, <2>1, PopFacts
    <3>2. Takes(w, Head(queue)) /\ OnlyWorker(w)
      BY <1>0, <1>3, <2>1, <3>1 DEF BlPop, Takes, Holding
    <3> QED
      BY <3>1, <3>2 DEF InRound
  <2>2. CASE queue = <<>>
    <3>1. Idles(w) /\ OnlyWorker(w)
      BY <1>0, <1>3, <2>2 DEF BlPop, Idles
    <3> QED
      BY <3>1 DEF InRound
  <2> QED
    BY <2>1, <2>2
<1>4. CASE PushActive(w) \/ Start(w) \/ Succeed(w) \/ Fail(w) \/ AckRemove(w)
  <2>1. Works(w) /\ OnlyWorker(w)
    BY <1>0, <1>4 DEF PushActive, Start, Succeed, Fail, AckRemove, Works, Holding, Others
  <2> QED
    BY <2>1 DEF InRound
<1>5. CASE Load(w)
  <2>1. (Works(w) \/ Drops(w)) /\ OnlyWorker(w)
    BY <1>0, <1>5 DEF Load, Works, Drops, Holding, Release, Others
  <2> QED
    BY <2>1 DEF InRound
<1>6. CASE AckStore(w)
  <2>1. CASE out[w] = "Retry"
    <3>1. Works(w) /\ OnlyWorker(w)
      BY <1>0, <1>6, <2>1 DEF AckStore, Works, Holding, Others
    <3> QED
      BY <3>1 DEF InRound
  <2>2. CASE out[w] # "Retry"
    <3>1. Acks(w) /\ OnlyWorker(w)
      BY <1>0, <1>6, <2>2 DEF AckStore, Acks, Holding, Others
    <3> QED
      BY <3>1 DEF InRound
  <2> QED
    BY <2>1, <2>2
<1>7. CASE ScheduleRetry(w)
  <2>1. Retries(w) /\ OnlyWorker(w)
    BY <1>0, <1>7 DEF ScheduleRetry, Retries, Release
  <2> QED
    BY <2>1 DEF InRound
<1>8. CASE BeforeFails(w)
  <2>1. Drops(w) /\ OnlyWorker(w)
    BY <1>0, <1>8 DEF BeforeFails, Drops, Release, Holding
  <2> QED
    BY <2>1 DEF InRound
<1> QED
  BY <1>1, <1>2, <1>3, <1>4, <1>5, <1>6, <1>7, <1>8 DEF Take, Process, Ack

(* So has a step among the dependents, whatever dependents there are.       *)
LEMMA LoopForms ==
    ASSUME OutTypes, NEW w \in Workers, FinishDeps(w) \/ SkipDependent(w)
    PROVE  AtDependents(w) /\ OnlyWorker(w)
<1>0. /\ pc \in [Workers -> WorkerPcs \cup CheckPcs \cup FailPcs] /\ hold \in [Workers -> Tasks \cup {NoTask}]
      /\ out \in [Workers -> {"none", "Processed", "Retry", "Dead"}]
      /\ left \in [Workers -> SUBSET Tasks] /\ cur \in [Workers -> Tasks \cup {NoTask}]
      /\ data \in [Tasks -> Nat \cup {Missing, WrongType}]
      /\ pc[w] \in LoopPcs => hold[w] \in Tasks
      /\ pc[w] \in CurPcs => cur[w] \in Tasks
  BY DEF OutTypes, DepTypes, LoopTypes, QueueTypes
<1> USE DEF redisVars, clientVars, histVars, depVars, Boxes, Sets, Outside, OnlyWorker, Still
<1>1. CASE ReadDependents(w)
  <2>1. CASE dependents[hold[w]] = {}
    <3>1. Finishes(w) /\ OnlyWorker(w)
      BY <1>0, <1>1, <2>1 DEF ReadDependents, Release, Finishes
    <3> QED
      BY <3>1 DEF AtDependents
  <2>2. CASE dependents[hold[w]] # {}
    <3>1. Enters(w) /\ OnlyWorker(w)
      BY <1>0, <1>1, <2>2 DEF ReadDependents, Enters
    <3> QED
      BY <3>1 DEF AtDependents
  <2> QED
    BY <2>1, <2>2
<1>2. ASSUME NEW d \in Tasks, RemovePending(w, d) PROVE AtDependents(w) /\ OnlyWorker(w)
  <2>1. Checks(w, d) /\ OnlyWorker(w)
    BY <1>0, <1>2 DEF RemovePending, Step, Checks
  <2> QED
    BY <2>1 DEF AtDependents
<1>3. CASE CountPending(w)
  <2>1. Reads(w) /\ OnlyWorker(w)
    BY <1>0, <1>3 DEF CountPending, Step, Reads
  <2> QED
    BY <2>1 DEF AtDependents
<1>4. ASSUME Break(w), pc[w] \in {"c_queue", "f_next"}, UNCHANGED <<redisVars, clientVars, histVars, pending, dependents, unlinked>>
      PROVE  AtDependents(w) /\ OnlyWorker(w)
  <2>1. Cuts(w) /\ OnlyWorker(w)
    BY <1>0, <1>4 DEF Break, Release, Cuts, LoopPcs, CheckPcs, FailPcs
  <2> QED
    BY <2>1 DEF AtDependents
<1>5. CASE ReadQueue(w)
  <2>1. CASE data[cur[w]] = WrongType
    BY <1>4, <1>5, <2>1 DEF ReadQueue
  <2>2. CASE data[cur[w]] # WrongType
    <3>1. Reads(w) /\ OnlyWorker(w)
      BY <1>0, <1>5, <2>2 DEF ReadQueue, Step, Reads
    <3> QED
      BY <3>1 DEF AtDependents
  <2> QED
    BY <2>1, <2>2
<1>6. CASE ReleaseDependent(w)
  <2>1. Releases(w) /\ OnlyWorker(w)
    BY <1>0, <1>6 DEF ReleaseDependent, Step, Releases
  <2> QED
    BY <2>1 DEF AtDependents
<1>7. ASSUME NEW d \in Tasks, ReadDependent(w, d) PROVE AtDependents(w) /\ OnlyWorker(w)
  <2>1. CASE data[d] = WrongType
    BY <1>4, <1>7, <2>1 DEF ReadDependent
  <2>2. CASE data[d] # WrongType
    <3>1. Fails(w, d) /\ OnlyWorker(w)
      BY <1>0, <1>7, <2>2 DEF ReadDependent, Step, Fails
    <3> QED
      BY <3>1 DEF AtDependents
  <2> QED
    BY <2>1, <2>2
<1>8. CASE StoreDead(w) \/ PushDead(w)
  <2>1. Kills(w) /\ OnlyWorker(w)
    BY <1>0, <1>8 DEF StoreDead, PushDead, Step, Kills, Others, CurPcs
  <2> QED
    BY <2>1 DEF AtDependents
<1>9. CASE CleanPending(w)
  <2>1. Cleans(w) /\ OnlyWorker(w)
    BY <1>0, <1>9 DEF CleanPending, Step, Cleans
  <2> QED
    BY <2>1 DEF AtDependents
<1>10. CASE DropDependents(w)
  <2>1. Finishes(w) /\ OnlyWorker(w)
    BY <1>0, <1>10 DEF DropDependents, Release, Finishes
  <2> QED
    BY <2>1 DEF AtDependents
<1>11. CASE SkipDependent(w)
  <2>1. Skips(w) /\ OnlyWorker(w)
    BY <1>0, <1>11 DEF SkipDependent, Step, Skips
  <2> QED
    BY <2>1 DEF AtDependents
<1> QED
  BY <1>1, <1>2, <1>3, <1>5, <1>6, <1>7, <1>8, <1>9, <1>10, <1>11 DEF FinishDeps, CheckDependents, FailDependents

(* So has every step of a worker.                                           *)
LEMMA WorkerForms ==
    ASSUME OutTypes, NEW w \in Workers, WorkerStep(w), pc[w] \in LoopPcs => fate[hold[w]] # "live",
           pc[w] \in Outside => hold[w] = NoTask
    PROVE  (InRound(w) \/ AtDependents(w)) /\ OnlyWorker(w)
<1>1. CASE AbandonDeps(w)
  <2>0. /\ pc \in [Workers -> WorkerPcs \cup CheckPcs \cup FailPcs] /\ hold \in [Workers -> Tasks \cup {NoTask}]
        /\ out \in [Workers -> {"none", "Processed", "Retry", "Dead"}]
        /\ left \in [Workers -> SUBSET Tasks] /\ cur \in [Workers -> Tasks \cup {NoTask}]
        /\ pc[w] \in LoopPcs => hold[w] \in Tasks
        /\ fate \in [Tasks -> Fates]
    BY DEF OutTypes, DepTypes, LoopTypes, QueueTypes
  <2>1. /\ Release(w, "idle") /\ Settle(hold[w], "abandoned") /\ hold[w] # NoTask
        /\ UNCHANGED <<Boxes, runs, data, pending, dependents, cpc, op, unlinked>>
        /\ excused' = excused \cup Unvisited(w) \cup dependents[hold[w]]
        /\ \A v \in Workers \ {w} : left'[v] = left[v] /\ cur'[v] = cur[v]
    BY <1>1, <2>0 DEF AbandonDeps, Abandon, redisVars, clientVars, Boxes
  <2>2. OnlyWorker(w) /\ pc'[w] = "idle"
    BY <2>0, <2>1 DEF Release, OnlyWorker, Still
  <2>3. CASE pc[w] \in Holding
    <3>1. Drops(w)
      BY <2>1, <2>2, <2>3 DEF Drops, Outside, Boxes
    <3> QED
      BY <2>2, <3>1 DEF InRound
  <2>4. CASE pc[w] \in LoopPcs
    <3>1. Cuts(w)
      <4>1. fate' = fate
        BY <2>0, <2>1, <2>4 DEF Settle
      <4> QED
        BY <2>1, <2>2, <2>4, <4>1 DEF Cuts, Boxes
    <3> QED
      BY <2>2, <3>1 DEF AtDependents
  <2> QED
    BY <2>0, <2>1, <2>3, <2>4 DEF WorkerPcs, LoopPcs, Outside
<1> QED
  BY <1>1, RoundForms, LoopForms DEF WorkerStep, RunDeps

-----------------------------------------------------------------------------
(* One copy of every narrow task.                                          *)

(* How often t is in the list.                                              *)
InQueue(t) == t \in ItemsOf(queue)
QueuedOnce(t) == \A i, j \in DOMAIN queue : queue[i] = t /\ queue[j] = t => i = j

(* t waits in at most one place.                                            *)
Apart(t) ==
    /\ InQueue(t) => t \notin pqueue \cup delayed \cup retry
    /\ t \in pqueue => t \notin delayed \cup retry
    /\ t \in delayed => t \notin retry

(* Nobody has t, and it waits nowhere.                                      *)
Nowhere(t) == ~Waits(t) /\ \A w \in Workers : ~Engaged(w, t)

(* There is at most one t: waiting, or with one worker.                     *)
Alone(t) ==
    /\ QueuedOnce(t) /\ Apart(t)
    /\ \A v, w \in Workers : Engaged(v, t) /\ Engaged(w, t) => v = w
    /\ \A w \in Workers : Engaged(w, t) => ~Waits(t)

(* A task with at most one dependency is alone, live while it is anywhere,  *)
(* and nowhere before its push.                                             *)
OneOf(t) ==
    Narrow(t) =>
        /\ Alone(t)
        /\ Placed(t) => fate[t] = "live"
        /\ Fresh(t) => Nowhere(t) /\ fate[t] = "live" /\ runs[t] = 0

(* What the client has recorded of a task with dependencies.               *)
CallOf(t) ==
    /\ IsParked(t) => cpc[t] \in {"link", "ok"}
    /\ cpc[t] = "link" => IsParked(t)
    /\ cpc[t] = "new" => op[t] = "none"
    /\ cpc[t] = "ok" => unlinked[t] = {}
    /\ pending[t] \subseteq DependsOn[t]
    /\ \A d \in Tasks : d \in unlinked[t] \/ t \in dependents[d] => IsParked(t) /\ d \in DependsOn[t]

(* What a worker in a loop knows of the task it finished, of the dependents *)
(* it has not come to and of the one in its hand.                           *)
LoopOf(w) ==
    /\ pc[w] \in Outside => hold[w] = NoTask
    /\ pc[w] \in LoopPcs => fate[hold[w]] # "live"
    /\ InLoop(w) => \A t \in left[w] : IsParked(t) /\ hold[w] \in DependsOn[t]
    /\ pc[w] \in CurPcs => IsParked(cur[w]) /\ hold[w] \in DependsOn[cur[w]] /\ cur[w] \notin left[w]
    /\ pc[w] = "deps" /\ Narrow(hold[w]) => fate[hold[w]] = (IF out[w] = "Processed" THEN "processed" ELSE "dead")
    /\ pc[w] \in CheckPcs => Narrow(hold[w]) /\ fate[hold[w]] = "processed"
    /\ pc[w] \in FailPcs => Narrow(hold[w]) /\ fate[hold[w]] = "dead"

(* The invariant of tasks with at most one dependency.                      *)
NarrowInv ==
    /\ OutTypes
    /\ \A t \in Tasks : OneOf(t) /\ CallOf(t)
    /\ \A w \in Workers : LoopOf(w)

(* A push at the tail of the list.                                          *)
LEMMA QueueGrows ==
    ASSUME queue \in Seq(Tasks), NEW u \in Tasks, queue' = Append(queue, u), NEW t \in Tasks
    PROVE  /\ InQueue(t)' <=> InQueue(t) \/ t = u
           /\ QueuedOnce(t) /\ (t = u => ~InQueue(t)) => QueuedOnce(t)'
<1>1. /\ DOMAIN queue = 1 .. Len(queue) /\ Len(queue) \in Nat
      /\ DOMAIN queue' = 1 .. Len(queue) + 1
      /\ \A i \in 1 .. Len(queue) : queue'[i] = queue[i]
      /\ queue'[Len(queue) + 1] = u
  OBVIOUS
<1>2. InQueue(t)' <=> InQueue(t) \/ t = u
  BY AppendFacts DEF InQueue
<1>3. ASSUME QueuedOnce(t), t = u => ~InQueue(t) PROVE QueuedOnce(t)'
  BY <1>1, <1>3, SMT DEF QueuedOnce, InQueue, ItemsOf
<1> QED
  BY <1>2, <1>3

(* A pop at its head.                                                       *)
LEMMA QueueShrinks ==
    ASSUME queue \in Seq(Tasks), queue # <<>>, queue' = Tail(queue), NEW t \in Tasks
    PROVE  /\ InQueue(t)' => InQueue(t)
           /\ Head(queue) \in Tasks /\ InQueue(Head(queue))
           /\ InQueue(t) => InQueue(t)' \/ t = Head(queue)
           /\ QueuedOnce(t) => QueuedOnce(t)' /\ (t = Head(queue) => ~InQueue(t)')
<1>1. /\ Len(queue) \in Nat \ {0} /\ DOMAIN queue = 1 .. Len(queue) /\ Head(queue) = queue[1]
      /\ Head(queue) \in Tasks
  OBVIOUS
<1>2. /\ DOMAIN queue' = 1 .. Len(queue) - 1
      /\ \A i \in 1 .. Len(queue) - 1 : queue'[i] = queue[i + 1]
  BY <1>1
<1>3. InQueue(t)' => InQueue(t)
  BY <1>1, <1>2, SMT DEF InQueue, ItemsOf
<1>4. QueuedOnce(t) => QueuedOnce(t)' /\ (t = Head(queue) => ~InQueue(t)')
  BY <1>1, <1>2, SMT DEF InQueue, ItemsOf, QueuedOnce
<1>5. InQueue(Head(queue))
  BY <1>1 DEF InQueue, ItemsOf
<1>6. ASSUME InQueue(t), t # Head(queue) PROVE InQueue(t)'
  <2>1. PICK i \in 1 .. Len(queue) : queue[i] = t
    BY <1>1, <1>6 DEF InQueue, ItemsOf
  <2>2. i - 1 \in 1 .. Len(queue) - 1 /\ queue'[i - 1] = t
    BY <1>1, <1>2, <1>6, <2>1
  <2> QED
    BY <1>2, <2>2 DEF InQueue, ItemsOf
<1> QED
  BY <1>1, <1>3, <1>4, <1>5, <1>6

(* A task that comes to no new place stays alone, ...                       *)
Stays(t) ==
    /\ InQueue(t)' => InQueue(t)
    /\ QueuedOnce(t) => QueuedOnce(t)'
    /\ (t \in pqueue)' => t \in pqueue
    /\ (t \in delayed)' => t \in delayed
    /\ (t \in retry)' => t \in retry
    /\ \A w \in Workers : (Engaged(w, t)' => Engaged(w, t)) /\ (Holds(w, t)' => Holds(w, t))

(* What such a task keeps.                                                  *)
LEMMA StaysAlone ==
    ASSUME NEW t \in Tasks, Stays(t)
    PROVE  /\ Alone(t) => Alone(t)'
           /\ Nowhere(t) => Nowhere(t)'
           /\ Placed(t)' => Placed(t)
<1>0. /\ Waits(t) <=> InQueue(t) \/ t \in pqueue \/ t \in delayed \/ t \in retry
      /\ Waits(t)' <=> InQueue(t)' \/ t \in pqueue' \/ t \in delayed' \/ t \in retry'
  BY DEF Waits, InQueue
<1>1. Waits(t)' => Waits(t)
  BY <1>0 DEF Stays
<1>2. Apart(t) => Apart(t)'
  BY DEF Stays, Apart
<1> QED
  BY <1>1, <1>2 DEF Stays, Alone, Nowhere, Placed

(* ... and so does one that leaves its place for another.                   *)
WaitsOnly(t) ==
    /\ QueuedOnce(t) /\ Apart(t)
    /\ \A w \in Workers : ~Engaged(w, t)

(* t is with w, if anywhere.                                                *)
HeldOnly(w, t) ==
    /\ QueuedOnce(t) /\ ~Waits(t)
    /\ \A v \in Workers : Engaged(v, t) => v = w

(* A task in either state is alone.                                         *)
LEMMA MovesAlone ==
    ASSUME NEW t \in Tasks, WaitsOnly(t)' \/ \E w \in Workers : HeldOnly(w, t)'
    PROVE  Alone(t)'
<1>0. Waits(t)' <=> InQueue(t)' \/ t \in pqueue' \/ t \in delayed' \/ t \in retry'
  BY DEF Waits, InQueue
<1>1. CASE WaitsOnly(t)'
  BY <1>1 DEF WaitsOnly, Alone
<1>2. ASSUME NEW w \in Workers, HeldOnly(w, t)' PROVE Alone(t)'
  BY <1>0, <1>2 DEF HeldOnly, Alone, Apart
<1> QED
  BY <1>1, <1>2

(* Once the worker that finished a dependency has dealt with t, no other    *)
(* will come to it.                                                        *)
LEMMA NotFreshAgain ==
    ASSUME Undisturbed, NarrowInv, NEW w \in Workers, OnlyWorker(w), pc[w] \in CurPcs,
           NEW t \in Tasks, Narrow(t), t = cur[w],
           \A u \in Tasks : fate[u] # "live" => fate'[u] # "live",
           hold'[w] = hold[w], left'[w] = left[w], pc'[w] \in {"c_clean", "f_clean"}
    PROVE  ~Fresh(t)'
<1>1. /\ LoopOf(w) /\ CallOf(t) /\ hold[w] \in Tasks /\ hold[w] \in DependsOn[t] /\ IsParked(t)
      /\ t \notin left[w] /\ fate[hold[w]] # "live"
  BY DEF NarrowInv, LoopOf, OutTypes, DepTypes, LoopTypes, LoopPcs, CurPcs, CheckPcs, FailPcs
<1>2. Narrow(hold[w]) /\ OneOf(hold[w]) /\ Engaged(w, hold[w])
  BY <1>1 DEF Undisturbed, NarrowInv, Engaged, CurPcs, LoopPcs, CheckPcs, FailPcs
<1>3. ~Unseen(t)'
  BY <1>1 DEF CallOf, Unseen, OnlyWorker
<1>4. ASSUME NEW d \in DependsOn[t], Ahead(t, d)' PROVE FALSE
  <2>1. d = hold[w]
    BY <1>1 DEF Narrow
  <2>2. PICK v \in Workers : hold'[v] = d /\ (pc'[v] = "deps" \/ HasToCome(v, t)')
    BY <1>1, <1>4, <2>1 DEF Ahead
  <2>3. CASE v = w
    BY <1>1, <2>2, <2>3 DEF HasToCome, AheadPcs
  <2>4. CASE v # w
    <3>1. Engaged(v, d)
      BY <2>2, <2>4 DEF OnlyWorker, Still, Engaged, HasToCome, InLoop, LoopPcs
    <3> QED
      BY <1>2, <2>1, <2>4, <3>1 DEF OneOf, Alone
  <2> QED
    BY <2>3, <2>4
<1> QED
  BY <1>3, <1>4 DEF Fresh

-----------------------------------------------------------------------------
(* The forms of a step of w, and what it leaves alone.                      *)
FormOf(w) == (InRound(w) \/ AtDependents(w)) /\ OnlyWorker(w)

(* Every step of a worker has such a form.                                  *)
LEMMA WorkerKinds ==
    ASSUME NarrowInv, NEW w \in Workers, WorkerStep(w)
    PROVE  FormOf(w)
  BY WorkerForms DEF NarrowInv, LoopOf, FormOf

(* A fate is final.                                                        *)
LEMMA WorkerSettles ==
    ASSUME NarrowInv, NEW w \in Workers, FormOf(w)
    PROVE  /\ \A t \in Tasks : fate[t] # "live" => fate'[t] = fate[t]
           /\ \A t \in Tasks : fate'[t] # fate[t] =>
                 \/ t = hold[w] /\ (Drops(w) \/ Acks(w))
                 \/ t = cur[w] /\ Kills(w) /\ pc[w] = "f_push" /\ fate'[t] = "dead"
<1>1. fate \in [Tasks -> Fates]
  BY DEF NarrowInv, OutTypes, DepTypes, QueueTypes
<1> USE DEF Settle
<1>2. CASE InRound(w)
  BY <1>1, <1>2 DEF InRound, Idles, Takes, Works, Drops, Acks, Retries
<1>3. CASE AtDependents(w)
  BY <1>1, <1>3 DEF AtDependents, Cuts, Finishes, Enters, Checks, Fails, Reads, Skips, Cleans, Releases, Kills
<1> QED
  BY <1>2, <1>3 DEF FormOf

(* Where a worker is after its step.                                        *)
LEMMA WorkerGoes ==
    ASSUME NarrowInv, NEW w \in Workers, FormOf(w)
    PROVE  /\ InLoop(w)' => /\ hold'[w] = hold[w]
                            /\ \/ pc[w] = "deps" /\ Enters(w)
                               \/ InLoop(w) /\ (\A t \in Tasks : HasToCome(w, t)' => HasToCome(w, t))
           /\ pc'[w] = "deps" => hold'[w] = hold[w] /\ Acks(w)
           /\ pc'[w] \in Holding => (\E t \in Tasks : Takes(w, t)) \/ (Works(w) /\ hold'[w] = hold[w])
<1> USE DEF Holding, Outside, CheckPcs, FailPcs, LoopPcs, InLoop, HasToCome, AheadPcs
<1>2. CASE InRound(w)
  BY <1>2 DEF InRound, Idles, Takes, Works, Drops, Acks, Retries
<1>3. CASE AtDependents(w)
  <2>1. CASE Cuts(w) \/ Finishes(w)
    BY <2>1 DEF Cuts, Finishes
  <2>2. CASE Enters(w)
    BY <2>2 DEF Enters
  <2>3. ASSUME NEW t \in Tasks, Checks(w, t) \/ Fails(w, t)
        PROVE InLoop(w) /\ hold'[w] = hold[w] /\ pc'[w] \notin Holding \cup {"deps"}
              /\ \A u \in Tasks : HasToCome(w, u)' => HasToCome(w, u)
    BY <2>3 DEF Checks, Fails
  <2>4. CASE Reads(w) \/ Skips(w) \/ Cleans(w) \/ Releases(w) \/ Kills(w)
    BY <2>4 DEF Reads, Skips, Cleans, Releases, Kills
  <2> QED
    BY <1>3, <2>1, <2>2, <2>3, <2>4 DEF AtDependents
<1> QED
  BY <1>2, <1>3 DEF FormOf

(* No step of a worker makes a task fresh.                                  *)
LEMMA WorkerFresh ==
    ASSUME Undisturbed, NarrowInv, NEW w \in Workers, FormOf(w), NEW t \in Tasks, Fresh(t)'
    PROVE  Fresh(t)
<1>1. UNCHANGED <<cpc, op>>
  BY DEF FormOf, OnlyWorker
<1>2. CASE Unseen(t)'
  BY <1>1, <1>2 DEF Unseen, Fresh
<1>3. CASE ~Unseen(t)'
  <2>1. IsParked(t)
    BY <1>1, <1>3 DEF Fresh, IsParked, Parked
  <2>2. PICK d \in DependsOn[t] : Ahead(t, d)'
    BY <1>3 DEF Fresh
  <2>3. d \in Tasks
    BY DependsOnAssumption
  <2>4. CASE fate'[d] = "live"
    BY <2>1, <2>3, <2>4, WorkerSettles DEF Fresh, Ahead
  <2>5. ASSUME NEW v \in Workers, hold'[v] = d, pc'[v] = "deps" \/ HasToCome(v, t)' PROVE Ahead(t, d)
    <3>1. CASE v # w
      BY <2>5, <3>1 DEF FormOf, OnlyWorker, Still, Ahead, HasToCome, InLoop
    <3>2. CASE v = w /\ pc'[v] = "deps"
      <4>1. hold[w] = d /\ Acks(w)
        BY <2>5, <3>2, WorkerGoes
      <4>2. Placed(d)
        BY <4>1 DEF Acks, Placed, Holds, Holding
      <4>3. fate[d] = "live"
        BY <2>3, <4>2 DEF NarrowInv, OneOf, Undisturbed
      <4> QED
        BY <4>3 DEF Ahead
    <3>3. CASE v = w /\ HasToCome(v, t)'
      <4>1. InLoop(w)'
        BY <3>3 DEF HasToCome
      <4> QED
        BY <2>5, <3>3, <4>1, WorkerGoes DEF Ahead
    <3> QED
      BY <2>5, <3>1, <3>2, <3>3
  <2> QED
    BY <2>1, <2>2, <2>4, <2>5 DEF Fresh, Ahead
<1> QED
  BY <1>2, <1>3

-----------------------------------------------------------------------------
(* A step of a worker keeps a task with at most one dependency alone.       *)
LEMMA WorkerOne ==
    ASSUME Undisturbed, NarrowInv, NEW w \in Workers, FormOf(w), NEW t \in Tasks
    PROVE  OneOf(t)'
<1> SUFFICES ASSUME Narrow(t) PROVE OneOf(t)'
  BY DEF OneOf, Narrow
<1>0. /\ OneOf(t) /\ Alone(t) /\ (Placed(t) => fate[t] = "live")
      /\ Fresh(t) => Nowhere(t) /\ fate[t] = "live" /\ runs[t] = 0
      /\ Fresh(t)' => Fresh(t)
      /\ queue \in Seq(Tasks)
      /\ pc[w] \in Holding \cup LoopPcs => hold[w] \in Tasks
      /\ pc[w] \in CurPcs => cur[w] \in Tasks
  BY WorkerFresh DEF NarrowInv, OneOf, OutTypes, DepTypes, QueueTypes, LoopTypes
<1>a. /\ Waits(t) <=> InQueue(t) \/ t \in pqueue \/ t \in delayed \/ t \in retry
      /\ Waits(t)' <=> InQueue(t)' \/ t \in pqueue' \/ t \in delayed' \/ t \in retry'
  BY DEF Waits, InQueue
<1>b. \A v \in Workers : v # w => /\ (Engaged(v, t)' <=> Engaged(v, t))
                                  /\ (Holds(v, t)' <=> Holds(v, t))
  BY DEF FormOf, OnlyWorker, Still, Engaged, Holds
<1>c. \A u \in Tasks : fate[u] # "live" => fate'[u] # "live"
  BY WorkerSettles
<1>d. queue' = queue => (InQueue(t)' <=> InQueue(t)) /\ (QueuedOnce(t)' <=> QueuedOnce(t))
  BY DEF InQueue, QueuedOnce
(* A step after which t is no longer fresh, or nothing happened to it.      *)
<1>e. ASSUME Stays(t), Fresh(t)' => fate'[t] = fate[t] /\ runs'[t] = runs[t],
             fate'[t] = fate[t] \/ ~Placed(t)'
      PROVE  OneOf(t)'
  BY <1>0, <1>e, StaysAlone DEF OneOf
<1>f. ASSUME pc'[w] \notin Holding, pc'[w] \in LoopPcs => hold'[w] = hold[w] /\ pc[w] \in Holding \cup LoopPcs,
             queue' = queue, pqueue' \subseteq pqueue, delayed' \subseteq delayed, retry' \subseteq retry
      PROVE  Stays(t)
  <2>1. (Engaged(w, t)' => Engaged(w, t)) /\ (Holds(w, t)' => Holds(w, t))
    BY <1>f DEF Engaged, Holds
  <2> QED
    BY <1>b, <1>d, <1>f, <2>1 DEF Stays
<1>1. CASE Idles(w) \/ Finishes(w) \/ Cuts(w) \/ Enters(w) \/ Reads(w) \/ Skips(w) \/ Cleans(w)
           \/ \E u \in Tasks : Checks(w, u) \/ Fails(w, u)
  <2>1. UNCHANGED <<Boxes, fate, runs>>
    BY <1>1 DEF Idles, Finishes, Cuts, Enters, Reads, Skips, Cleans, Checks, Fails, Boxes
  <2>2. pc'[w] \notin Holding /\ (pc'[w] \in LoopPcs => hold'[w] = hold[w] /\ pc[w] \in Holding \cup LoopPcs)
    BY <1>1 DEF Idles, Finishes, Cuts, Enters, Reads, Skips, Cleans, Checks, Fails, Outside, Holding, LoopPcs, CheckPcs, FailPcs
  <2>3. Stays(t)
    BY <1>f, <2>1, <2>2 DEF Boxes
  <2> QED
    BY <1>e, <2>1, <2>3
<1>2. CASE Kills(w)
  <2>1. UNCHANGED <<Boxes, hold, left, cur, runs>> /\ pc[w] \in CurPcs
    BY <1>2 DEF Kills, CurPcs
  <2>2. pc'[w] \notin Holding /\ (pc'[w] \in LoopPcs => hold'[w] = hold[w] /\ pc[w] \in Holding \cup LoopPcs)
    BY <1>2 DEF Kills, Holding, LoopPcs, FailPcs
  <2>3. Stays(t)
    BY <1>f, <2>1, <2>2 DEF Boxes
  <2>4. CASE fate'[t] = fate[t]
    BY <1>e, <2>1, <2>3, <2>4
  <2>5. CASE fate'[t] # fate[t]
    <3>1. t = cur[w] /\ pc[w] = "f_push" /\ pc'[w] = "f_clean"
      BY <1>2, <2>5, WorkerSettles DEF Kills, Drops, Acks, Holding
    <3>2. ~Fresh(t)'
      BY <1>c, <2>1, <3>1, NotFreshAgain DEF FormOf
    <3>3. Fresh(t)
      <4>1. LoopOf(w) /\ HasToCome(w, t) /\ IsParked(t) /\ hold[w] \in DependsOn[t]
        BY <2>1, <3>1 DEF NarrowInv, LoopOf, HasToCome, InLoop, AheadPcs, FailPcs, CurPcs
      <4> QED
        BY <4>1 DEF Fresh, Ahead
    <3>4. ~Placed(t)
      BY <1>0, <3>3 DEF Placed, Nowhere, Engaged, Holds
    <3> QED
      BY <1>e, <2>3, <3>2, <3>4, StaysAlone
  <2> QED
    BY <2>4, <2>5
<1>3. CASE Releases(w)
  <2>1. /\ UNCHANGED <<pqueue, delayed, retry, hold, left, cur, runs, fate>> /\ pc[w] = "c_push" /\ pc'[w] = "c_clean"
        /\ queue' = Append(queue, cur[w]) /\ cur[w] \in Tasks
    BY <1>0, <1>3 DEF Releases, CurPcs
  <2>2. Engaged(w, t)' <=> Engaged(w, t)
    BY <2>1 DEF Engaged, LoopPcs, CheckPcs
  <2>3. Holds(w, t)' <=> Holds(w, t)
    BY <2>1 DEF Holds, Holding
  <2>4. CASE t # cur[w]
    <3>1. Stays(t)
      BY <1>0, <1>b, <2>1, <2>2, <2>3, <2>4, QueueGrows DEF Stays
    <3> QED
      BY <1>e, <2>1, <3>1
  <2>5. CASE t = cur[w]
    <3>1. Fresh(t)
      <4>1. LoopOf(w) /\ HasToCome(w, t) /\ IsParked(t) /\ hold[w] \in DependsOn[t]
        BY <2>1, <2>5 DEF NarrowInv, LoopOf, HasToCome, InLoop, AheadPcs, CheckPcs, CurPcs
      <4> QED
        BY <4>1 DEF Fresh, Ahead
    <3>2. ~Fresh(t)'
      BY <1>c, <2>1, <2>5, NotFreshAgain DEF FormOf, CurPcs
    <3>3. Nowhere(t) /\ fate'[t] = "live"
      BY <1>0, <2>1, <3>1
    <3>4. InQueue(t)' /\ QueuedOnce(t)'
      BY <1>0, <1>a, <2>1, <2>5, <3>3, QueueGrows DEF Nowhere, Alone
    <3>5. WaitsOnly(t)'
      BY <1>a, <1>b, <2>1, <2>2, <3>3, <3>4 DEF WaitsOnly, Nowhere, Apart
    <3> QED
      BY <3>2, <3>3, <3>5, MovesAlone DEF OneOf
  <2> QED
    BY <2>4, <2>5
<1>4. ASSUME NEW u \in Tasks, Takes(w, u) PROVE OneOf(t)'
  <2>1. UNCHANGED <<delayed, retry, fate, runs>> /\ pc'[w] \in Holding /\ hold'[w] = u
    BY <1>4 DEF Takes
  <2>2. ~Engaged(w, t)
    BY <1>4 DEF Takes, Engaged, Outside, Holding, LoopPcs, CheckPcs, FailPcs
  <2>3. /\ (InQueue(t)' => InQueue(t)) /\ (QueuedOnce(t) => QueuedOnce(t)')
        /\ pqueue' \subseteq pqueue /\ Waits(u)
        /\ t = u /\ QueuedOnce(t) /\ Apart(t) => ~Waits(t)'
    <3>1. CASE u \in pqueue /\ pqueue' = pqueue \ {u} /\ queue' = queue
      BY <1>a, <1>d, <2>1, <3>1 DEF Waits, Apart
    <3>2. CASE queue # <<>> /\ u = Head(queue) /\ queue' = Tail(queue) /\ pqueue' = pqueue
      BY <1>0, <1>a, <2>1, <3>2, QueueShrinks DEF Waits, Apart, InQueue
    <3> QED
      BY <1>4, <3>1, <3>2 DEF Takes
  <2>4. CASE t # u
    <3>1. ~Engaged(w, t)' /\ ~Holds(w, t)'
      BY <2>1, <2>4 DEF Engaged, Holds
    <3>2. Stays(t)
      BY <1>b, <2>1, <2>3, <3>1 DEF Stays
    <3> QED
      BY <1>e, <2>1, <3>2
  <2>5. CASE t = u
    <3>1. \A v \in Workers : Engaged(v, t)' => v = w
      BY <1>0, <1>b, <2>3, <2>5 DEF Alone
    <3>2. HeldOnly(w, t)'
      BY <1>0, <2>3, <2>5, <3>1 DEF HeldOnly, Alone
    <3>3. ~Fresh(t)'
      BY <1>0, <2>3, <2>5 DEF Nowhere
    <3>4. fate'[t] = "live"
      BY <1>0, <2>1, <2>3, <2>5 DEF Placed
    <3> QED
      BY <3>2, <3>3, <3>4, MovesAlone DEF OneOf
  <2> QED
    BY <2>4, <2>5
<1>5. CASE Works(w) \/ Drops(w) \/ Acks(w)
  <2>1. UNCHANGED Boxes /\ pc[w] \in Holding /\ pc'[w] \in Holding \cup LoopPcs \cup Outside
        /\ (pc'[w] \in Holding \cup LoopPcs => hold'[w] = hold[w])
        /\ (t # hold[w] => fate'[t] = fate[t] /\ runs'[t] = runs[t])
    <3>1. fate \in [Tasks -> Fates]
      BY DEF NarrowInv, OutTypes, DepTypes, QueueTypes
    <3>2. CASE Works(w)
      BY <3>2 DEF Works, Others
    <3>3. CASE Drops(w)
      BY <3>1, <3>3 DEF Drops, Settle, Outside, Holding, LoopPcs, CheckPcs, FailPcs
    <3>4. CASE Acks(w)
      BY <3>1, <3>4 DEF Acks, Settle, Holding, LoopPcs
    <3> QED
      BY <1>5, <3>2, <3>3, <3>4
  <2>2. (Engaged(w, t)' => Engaged(w, t)) /\ (Holds(w, t)' => Holds(w, t))
    BY <2>1 DEF Engaged, Holds
  <2>3. Stays(t)
    BY <1>b, <1>d, <2>1, <2>2 DEF Stays, Boxes
  <2>4. CASE t # hold[w]
    BY <1>e, <2>1, <2>3, <2>4
  <2>5. CASE t = hold[w]
    <3>1. Engaged(w, t)
      BY <2>1, <2>5 DEF Engaged
    <3>2. ~Fresh(t)'
      BY <1>0, <3>1 DEF Nowhere
    <3>3. CASE Works(w)
      <4>1. fate' = fate
        BY <3>3 DEF Works
      <4> QED
        BY <1>e, <2>3, <3>2, <4>1
    <3>4. CASE Drops(w) \/ Acks(w)
      <4>1. ~Holds(w, t)'
        BY <3>4 DEF Drops, Acks, Holds, Outside, Holding
      <4>2. ~Waits(t)'
        BY <1>0, <1>a, <2>3, <3>1 DEF Alone, Stays
      <4>3. \A v \in Workers : v # w => ~Holds(v, t)'
        BY <1>0, <1>b, <3>1 DEF Alone, Engaged, Holds
      <4>4. ~Placed(t)'
        BY <4>1, <4>2, <4>3 DEF Placed
      <4> QED
        BY <1>e, <2>3, <3>2, <4>4
    <3> QED
      BY <1>5, <3>3, <3>4
  <2> QED
    BY <2>4, <2>5
<1>6. CASE Retries(w)
  <2>1. UNCHANGED <<queue, pqueue, delayed, fate, runs>> /\ retry' = retry \cup {hold[w]}
        /\ pc[w] \in Holding /\ pc'[w] = "idle"
    BY <1>6 DEF Retries, Holding
  <2>2. ~Engaged(w, t)' /\ ~Holds(w, t)'
    BY <2>1 DEF Engaged, Holds, Holding, LoopPcs, CheckPcs, FailPcs
  <2>3. CASE t # hold[w]
    <3>1. Stays(t)
      BY <1>b, <1>d, <2>1, <2>2, <2>3 DEF Stays
    <3> QED
      BY <1>e, <2>1, <3>1
  <2>4. CASE t = hold[w]
    <3>1. Engaged(w, t) /\ Holds(w, t)
      BY <2>1, <2>4 DEF Engaged, Holds
    <3>2. ~Waits(t) /\ \A v \in Workers : ~Engaged(v, t)'
      BY <1>0, <1>b, <2>2, <3>1 DEF Alone
    <3>3. WaitsOnly(t)'
      BY <1>0, <1>a, <1>d, <2>1, <3>2 DEF WaitsOnly, Alone, Apart
    <3>4. ~Fresh(t)' /\ fate'[t] = "live"
      BY <1>0, <2>1, <3>1 DEF Nowhere, Placed
    <3> QED
      BY <3>3, <3>4, MovesAlone DEF OneOf
  <2> QED
    BY <2>3, <2>4
<1> QED
  BY <1>1, <1>2, <1>3, <1>4, <1>5, <1>6 DEF FormOf, InRound, AtDependents

-----------------------------------------------------------------------------
(* Workers only take from the sets of dependencies, and only add excuses.   *)
LEMMA WorkerSets ==
    ASSUME NarrowInv, NEW w \in Workers, FormOf(w)
    PROVE  /\ \A t \in Tasks : pending'[t] \subseteq pending[t] /\ dependents'[t] \subseteq dependents[t]
           /\ excused \subseteq excused'
<1>1. /\ pending \in [Tasks -> SUBSET Tasks] /\ dependents \in [Tasks -> SUBSET Tasks]
      /\ pc[w] \in CurPcs => cur[w] \in Tasks
  BY DEF NarrowInv, OutTypes, DepTypes, SetTypes, LoopTypes
<1> USE DEF Sets
<1>2. CASE InRound(w)
  BY <1>2 DEF InRound, Idles, Takes, Works, Drops, Acks, Retries
<1>3. CASE AtDependents(w)
  <2>1. CASE Cuts(w) \/ Finishes(w) \/ Enters(w)
    BY <1>1, <2>1 DEF Cuts, Finishes, Enters
  <2>2. ASSUME NEW u \in Tasks, Checks(w, u) \/ Fails(w, u)
        PROVE  /\ \A t \in Tasks : pending'[t] \subseteq pending[t] /\ dependents'[t] \subseteq dependents[t]
               /\ excused \subseteq excused'
    BY <1>1, <2>2 DEF Checks, Fails
  <2>3. CASE Reads(w) \/ Skips(w) \/ Cleans(w) \/ Releases(w) \/ Kills(w)
    BY <1>1, <2>3 DEF Reads, Skips, Cleans, Releases, Kills
  <2> QED
    BY <1>3, <2>1, <2>2, <2>3 DEF AtDependents
<1> QED
  BY <1>2, <1>3 DEF FormOf

(* Workers leave what the client recorded.                                  *)
LEMMA WorkerCall ==
    ASSUME NarrowInv, NEW w \in Workers, FormOf(w), NEW t \in Tasks
    PROVE  CallOf(t)' /\ (IsParked(t)' <=> IsParked(t))
<1>1. UNCHANGED <<cpc, op, unlinked>>
  BY DEF FormOf, OnlyWorker
<1>2. CallOf(t) /\ DependsOn[t] \subseteq Tasks
  BY DependsOnAssumption DEF NarrowInv
<1>3. IsParked(t)' <=> IsParked(t)
  BY <1>1 DEF IsParked, Parked
<1> QED
  BY <1>1, <1>2, <1>3, WorkerSets DEF CallOf

(* What a worker that stands still knows stays true.                        *)
LEMMA LoopStill ==
    ASSUME NarrowInv, NEW w \in Workers, Still(w),
           \A t \in Tasks : /\ fate[t] # "live" => fate'[t] = fate[t]
                            /\ IsParked(t) => IsParked(t)'
    PROVE  LoopOf(w)'
<1>1. /\ LoopOf(w) /\ left[w] \subseteq Tasks
      /\ pc[w] \in Holding \cup LoopPcs => hold[w] \in Tasks
      /\ pc[w] \in CurPcs => cur[w] \in Tasks
  BY DEF NarrowInv, OutTypes, DepTypes, LoopTypes
<1>2. (pc[w] = "deps" \/ InLoop(w)) => hold[w] \in Tasks /\ fate'[hold[w]] = fate[hold[w]]
  BY <1>1 DEF LoopOf, InLoop, LoopPcs
<1> QED
  BY <1>1, <1>2 DEF LoopOf, InLoop, Still, Narrow, LoopPcs

(* A step of w keeps what w knows.                                          *)
LEMMA WorkerLoop ==
    ASSUME Undisturbed, NarrowInv, NEW w \in Workers, FormOf(w)
    PROVE  LoopOf(w)'
<1>0. /\ LoopOf(w) /\ left[w] \subseteq Tasks /\ OnlyWorker(w)
      /\ pc[w] \in Holding \cup LoopPcs => hold[w] \in Tasks
      /\ pc[w] \in CurPcs => cur[w] \in Tasks
      /\ fate \in [Tasks -> Fates]
      /\ \A t \in Tasks : (fate[t] # "live" => fate'[t] = fate[t]) /\ (IsParked(t)' <=> IsParked(t))
  BY WorkerCall, WorkerSettles DEF NarrowInv, OutTypes, DepTypes, LoopTypes, QueueTypes, FormOf
<1> USE DEF Outside, Holding, LoopPcs, CheckPcs, FailPcs, CurPcs, InLoop
<1>1. CASE pc'[w] \in Outside
  BY <1>0, <1>1 DEF LoopOf, OnlyWorker
<1>2. CASE pc'[w] \in Holding
  BY <1>2 DEF LoopOf
<1>3. CASE Acks(w)
  <2>1. /\ pc'[w] = "deps" /\ hold'[w] = hold[w] /\ out'[w] = out[w] /\ hold[w] \in Tasks /\ pc[w] = "store"
        /\ Settle(hold[w], IF out[w] = "Processed" THEN "processed" ELSE "dead")
    BY <1>0, <1>3 DEF Acks
  <2>2. fate'[hold[w]] # "live"
    BY <1>0, <2>1 DEF Settle
  <2>3. Narrow(hold[w]) => fate[hold[w]] = "live"
    BY <2>1 DEF NarrowInv, OneOf, Placed, Holds
  <2>4. Narrow(hold[w]) => fate'[hold[w]] = (IF out[w] = "Processed" THEN "processed" ELSE "dead")
    BY <1>0, <2>1, <2>3 DEF Settle
  <2> QED
    BY <2>1, <2>2, <2>4 DEF LoopOf, Narrow
<1>4. CASE Enters(w)
  <2>1. /\ pc[w] = "deps" /\ pc'[w] = (IF out[w] = "Processed" THEN "c_next" ELSE "f_next")
        /\ left'[w] = dependents[hold[w]] /\ dependents[hold[w]] # {} /\ hold'[w] = hold[w] /\ hold[w] \in Tasks
    BY <1>0, <1>4 DEF Enters
  <2>2. \A t \in dependents[hold[w]] : t \in Tasks /\ IsParked(t) /\ hold[w] \in DependsOn[t]
    BY <2>1 DEF NarrowInv, CallOf, OutTypes, DepTypes, SetTypes
  <2>3. Narrow(hold[w])
    BY <2>1, <2>2 DEF Undisturbed
  <2> QED
    BY <1>0, <2>1, <2>2, <2>3 DEF LoopOf, Narrow
<1>5. ASSUME NEW u \in Tasks, Checks(w, u) \/ Fails(w, u) PROVE LoopOf(w)'
  <2>1. /\ (pc[w] \in CheckPcs /\ pc'[w] \in CheckPcs) \/ (pc[w] \in FailPcs /\ pc'[w] \in FailPcs)
        /\ u \in left[w] /\ left'[w] = left[w] \ {u} /\ cur'[w] = u /\ hold'[w] = hold[w] /\ hold[w] \in Tasks
    BY <1>0, <1>5 DEF Checks, Fails
  <2> QED
    BY <1>0, <2>1 DEF LoopOf, Narrow
<1>6. CASE Reads(w) \/ Skips(w) \/ Cleans(w) \/ Releases(w) \/ Kills(w)
  <2>1. /\ (pc[w] \in CheckPcs /\ pc'[w] \in CheckPcs) \/ (pc[w] \in FailPcs /\ pc'[w] \in FailPcs)
        /\ pc[w] \in CurPcs
        /\ left'[w] = left[w] /\ cur'[w] = cur[w] /\ hold'[w] = hold[w] /\ hold[w] \in Tasks /\ cur[w] \in Tasks
    BY <1>0, <1>6 DEF Reads, Skips, Cleans, Releases, Kills
  <2> QED
    BY <1>0, <2>1 DEF LoopOf, Narrow
<1>7. CASE Idles(w) \/ Drops(w) \/ Retries(w) \/ Cuts(w) \/ Finishes(w)
  BY <1>1, <1>7 DEF Idles, Drops, Retries, Cuts, Finishes
<1>8. CASE Works(w) \/ \E t \in Tasks : Takes(w, t)
  BY <1>2, <1>8 DEF Works, Takes
<1> QED
  BY <1>3, <1>4, <1>5, <1>6, <1>7, <1>8 DEF FormOf, InRound, AtDependents

(* A step of a worker keeps the invariant.                                  *)
LEMMA WorkerNarrow ==
    ASSUME Undisturbed, NarrowInv, NEW w \in Workers, FormOf(w), OutTypes'
    PROVE  NarrowInv'
<1>1. \A t \in Tasks : OneOf(t)' /\ CallOf(t)'
  BY WorkerOne, WorkerCall
<1>2. ASSUME NEW v \in Workers PROVE LoopOf(v)'
  <2>1. CASE v = w
    BY <2>1, WorkerLoop
  <2>2. CASE v # w
    BY <2>2, LoopStill, WorkerSettles, WorkerCall DEF FormOf, OnlyWorker
  <2> QED
    BY <2>1, <2>2
<1> QED
  BY <1>1, <1>2 DEF NarrowInv

-----------------------------------------------------------------------------
(* No worker moves.                                                         *)
WorkersCalm == UNCHANGED <<pc, hold, out, left, cur>>

(* A step of nobody's worker that pushes no task: whatever was fresh is the *)
(* same as it was.                                                         *)
LEMMA CalmFresh ==
    ASSUME NarrowInv, WorkersCalm, NEW t \in Tasks,
           \A d \in Tasks : fate[d] # "live" => fate'[d] = fate[d],
           IsParked(t)' => IsParked(t) \/ Unseen(t), Unseen(t)' => Unseen(t)
    PROVE  Fresh(t)' => Fresh(t)
<1>1. \A d \in DependsOn[t] : Ahead(t, d)' => Ahead(t, d)
  BY DependsOnAssumption DEF Ahead, HasToCome, InLoop, WorkersCalm
<1> QED
  BY <1>1 DEF Fresh

(* Where nothing moves, nothing comes to a new place.                       *)
LEMMA CalmStays ==
    ASSUME NEW t \in Tasks, WorkersCalm, UNCHANGED Boxes
    PROVE  Stays(t)
  BY DEF WorkersCalm, Boxes, Stays, InQueue, QueuedOnce, Engaged, Holds

(* A step that moves no task.                                               *)
LEMMA CalmOne ==
    ASSUME NarrowInv, WorkersCalm, UNCHANGED <<Boxes, fate, runs>>, NEW t \in Tasks,
           IsParked(t)' => IsParked(t) \/ Unseen(t), Unseen(t)' => Unseen(t)
    PROVE  OneOf(t)'
<1>1. Fresh(t)' => Fresh(t)
  BY CalmFresh
<1>2. Stays(t)
  BY CalmStays
<1> QED
  BY <1>1, <1>2, StaysAlone DEF NarrowInv, OneOf, Narrow

(* A client that pushes its task.                                          *)
LEMMA PushOne ==
    ASSUME NarrowInv, NEW u \in Tasks, (ToPQueue(u) \/ ToQueue(u) \/ ToDelayed(u)) /\ UNCHANGED depVars,
           NEW t \in Tasks
    PROVE  OneOf(t)'
<1> SUFFICES ASSUME Narrow(t) PROVE OneOf(t)'
  BY DEF OneOf, Narrow
<1>0. /\ OneOf(t) /\ CallOf(u) /\ Alone(t) /\ (Placed(t) => fate[t] = "live")
      /\ Fresh(t) => Nowhere(t) /\ fate[t] = "live" /\ runs[t] = 0
      /\ queue \in Seq(Tasks) /\ cpc \in [Tasks -> CallSteps]
  BY DEF NarrowInv, OneOf, OutTypes, DepTypes, QueueTypes
<1>1. /\ WorkersCalm /\ UNCHANGED <<op, fate, runs, retry>> /\ cpc[u] = "push"
      /\ cpc' = [cpc EXCEPT ![u] = IF op[u] \in {"enqueue", "enqueue_delayed"} THEN "ok" ELSE "dedup"]
      /\ \/ pqueue' = pqueue \cup {u} /\ UNCHANGED <<queue, delayed>>
         \/ queue' = Append(queue, u) /\ UNCHANGED <<pqueue, delayed>>
         \/ delayed' = delayed \cup {u} /\ UNCHANGED <<queue, pqueue>>
  BY DEF ToPQueue, ToQueue, ToDelayed, WorkersCalm, workerVars, histVars, depVars
<1>2. \A w \in Workers : (Engaged(w, t)' <=> Engaged(w, t)) /\ (Holds(w, t)' <=> Holds(w, t))
  BY <1>1 DEF WorkersCalm, Engaged, Holds
<1>3. CASE t # u
  <2>1. Stays(t)
    BY <1>0, <1>1, <1>2, <1>3, QueueGrows DEF Stays, InQueue, QueuedOnce
  <2>2. Fresh(t)' => Fresh(t)
    BY <1>0, <1>1, <1>3, CalmFresh DEF IsParked, Parked, Unseen
  <2> QED
    BY <1>0, <1>1, <2>1, <2>2, StaysAlone DEF OneOf
<1>4. CASE t = u
  <2>1. Fresh(t) /\ ~IsParked(t)
    BY <1>0, <1>1, <1>4 DEF Fresh, Unseen, CallOf
  <2>2. ~Fresh(t)'
    BY <1>0, <1>1, <1>4, <2>1 DEF Fresh, Unseen, IsParked, Parked
  <2>3. ~InQueue(t) /\ t \notin pqueue /\ t \notin delayed /\ t \notin retry /\ QueuedOnce(t)
    BY <1>0, <2>1 DEF Nowhere, Waits, InQueue, Alone
  <2>4. QueuedOnce(t)' /\ Apart(t)'
    BY <1>0, <1>1, <1>4, <2>3, QueueGrows DEF Apart, InQueue, QueuedOnce
  <2>5. WaitsOnly(t)'
    BY <1>0, <1>2, <2>1, <2>4 DEF WaitsOnly, Nowhere
  <2>6. fate'[t] = "live"
    BY <1>0, <1>1, <2>1
  <2> QED
    BY <2>2, <2>5, <2>6, MovesAlone DEF OneOf
<1> QED
  BY <1>3, <1>4

(* The scheduler moves a due task.                                         *)
LEMMA DueOne ==
    ASSUME NarrowInv, NEW u \in Tasks, MoveDue(u), NEW t \in Tasks
    PROVE  OneOf(t)'
<1> SUFFICES ASSUME Narrow(t) PROVE OneOf(t)'
  BY DEF OneOf, Narrow
<1>0. /\ OneOf(t) /\ Alone(t) /\ (Placed(t) => fate[t] = "live")
      /\ Fresh(t) => Nowhere(t) /\ fate[t] = "live" /\ runs[t] = 0
      /\ queue \in Seq(Tasks)
  BY DEF NarrowInv, OneOf, OutTypes, DepTypes, QueueTypes
<1>1. /\ WorkersCalm /\ UNCHANGED <<cpc, op, fate, runs, pqueue>>
      /\ queue' = Append(queue, u)
      /\ \/ u \in delayed /\ delayed' = delayed \ {u} /\ retry' = retry
         \/ u \in retry /\ retry' = retry \ {u} /\ delayed' = delayed
  BY DEF MoveDue, MoveDelayed, MoveRetry, WorkersCalm, workerVars, clientVars, histVars, depVars
<1>2. \A w \in Workers : (Engaged(w, t)' <=> Engaged(w, t)) /\ (Holds(w, t)' <=> Holds(w, t))
  BY <1>1 DEF WorkersCalm, Engaged, Holds
<1>3. Fresh(t)' => Fresh(t)
  BY <1>1, CalmFresh DEF IsParked, Parked, Unseen
<1>4. CASE t # u
  <2>1. Stays(t)
    BY <1>0, <1>1, <1>2, <1>4, QueueGrows DEF Stays
  <2> QED
    BY <1>0, <1>1, <1>3, <2>1, StaysAlone DEF OneOf
<1>5. CASE t = u
  <2>1. Waits(t)
    BY <1>1, <1>5 DEF Waits
  <2>2. ~Fresh(t)'
    BY <1>0, <1>3, <2>1 DEF Nowhere
  <2>3. ~InQueue(t) /\ t \notin pqueue /\ t \notin delayed' /\ t \notin retry' /\ QueuedOnce(t)
    BY <1>0, <1>1, <1>5 DEF Alone, Apart
  <2>4. QueuedOnce(t)' /\ Apart(t)'
    BY <1>0, <1>1, <1>5, <2>3, QueueGrows DEF Apart
  <2>5. WaitsOnly(t)'
    BY <1>0, <1>2, <2>1, <2>4 DEF WaitsOnly, Alone
  <2>6. fate'[t] = "live"
    BY <1>0, <1>1, <2>1 DEF Placed
  <2> QED
    BY <2>2, <2>5, <2>6, MovesAlone DEF OneOf
<1> QED
  BY <1>4, <1>5

(* FlushAll empties every place where tasks wait.                           *)
LEMMA FlushOne ==
    ASSUME NarrowInv, Flush, UNCHANGED depVars, NEW t \in Tasks
    PROVE  OneOf(t)'
<1> SUFFICES ASSUME Narrow(t) PROVE OneOf(t)'
  BY DEF OneOf, Narrow
<1>0. /\ OneOf(t) /\ Alone(t) /\ (Placed(t) => fate[t] = "live")
      /\ Fresh(t) => Nowhere(t) /\ fate[t] = "live" /\ runs[t] = 0
      /\ fate \in [Tasks -> Fates]
  BY DEF NarrowInv, OneOf, OutTypes, DepTypes, QueueTypes
<1>1. /\ WorkersCalm /\ UNCHANGED <<cpc, op, runs, pqueue, delayed, retry>>
      /\ queue' = <<>>
      /\ \A u \in Tasks : fate'[u] = (IF InQueue(u) /\ fate[u] = "live" THEN "flushed" ELSE fate[u])
  BY DEF Flush, WorkersCalm, workerVars, clientVars, depVars, InQueue
<1>2. \A w \in Workers : (Engaged(w, t)' <=> Engaged(w, t)) /\ (Holds(w, t)' <=> Holds(w, t))
  BY <1>1 DEF WorkersCalm, Engaged, Holds
<1>3. Fresh(t)' => Fresh(t)
  BY <1>1, CalmFresh DEF IsParked, Parked, Unseen
<1>4. ~InQueue(t)' /\ QueuedOnce(t)'
  BY <1>1 DEF InQueue, QueuedOnce, ItemsOf
<1>5. Stays(t)
  BY <1>1, <1>2, <1>4 DEF Stays
<1>6. CASE ~InQueue(t)
  BY <1>0, <1>1, <1>3, <1>5, <1>6, StaysAlone DEF OneOf
<1>7. CASE InQueue(t)
  <2>1. Waits(t) /\ ~Waits(t)'
    BY <1>0, <1>1, <1>4, <1>7 DEF Waits, InQueue, Alone, Apart
  <2>2. ~Placed(t)' /\ ~Fresh(t)'
    BY <1>0, <1>2, <1>3, <2>1 DEF Placed, Alone, Engaged, Holds, Nowhere
  <2> QED
    BY <1>0, <1>5, <2>2, StaysAlone DEF OneOf
<1> QED
  BY <1>6, <1>7

-----------------------------------------------------------------------------
(* A step of the client that submits t.                                     *)
LEMMA SubmitNarrow ==
    ASSUME Undisturbed, NarrowInv, NEW t \in Tasks, SubmitDeps(t), OutTypes'
    PROVE  NarrowInv' /\ \A u \in Tasks : IsParked(u) => IsParked(u)'
<1>0. /\ \A u \in Tasks : CallOf(u)
      /\ cpc \in [Tasks -> CallSteps] /\ op \in [Tasks -> SubmitOps \cup {"none"}]
      /\ pending \in [Tasks -> SUBSET Tasks] /\ dependents \in [Tasks -> SUBSET Tasks]
      /\ unlinked \in [Tasks -> SUBSET Tasks]
      /\ DependsOn \in [Tasks -> SUBSET Tasks]
  BY DependsOnAssumption DEF NarrowInv, OutTypes, DepTypes, QueueTypes, SetTypes
<1>a. ASSUME WorkersCalm, fate' = fate, \A u \in Tasks : IsParked(u) => IsParked(u)' PROVE \A w \in Workers : LoopOf(w)'
  BY <1>a, LoopStill DEF WorkersCalm, Still
<1> USE DEF redisVars, workerVars, histVars, depVars
<1>1. ASSUME NEW o \in Ops, PlainStore(t, o) PROVE NarrowInv' /\ \A u \in Tasks : IsParked(u) => IsParked(u)'
  <2>1. /\ cpc' = [cpc EXCEPT ![t] = IF o = "enqueue" THEN "dedup" ELSE "push"]
        /\ op' = [op EXCEPT ![t] = o] /\ cpc[t] = "new" /\ ~Parked(t, o)
        /\ WorkersCalm /\ UNCHANGED <<Boxes, fate, runs, pending, dependents, unlinked>>
    BY <1>1 DEF PlainStore, Store, WorkersCalm, Boxes
  <2>2. \A u \in Tasks : (IsParked(u)' <=> IsParked(u)) /\ (Unseen(u)' => Unseen(u))
    BY <1>0, <2>1 DEF IsParked, Parked, Unseen, CallOf
  <2>3. \A u \in Tasks : OneOf(u)'
    BY <2>1, <2>2, CalmOne
  <2>4. \A u \in Tasks : CallOf(u)'
    BY <1>0, <2>1, <2>2 DEF CallOf
  <2> QED
    BY <1>a, <2>1, <2>2, <2>3, <2>4 DEF NarrowInv
<1>2. CASE StoreParked(t)
  <2>1. /\ cpc' = [cpc EXCEPT ![t] = "link"] /\ cpc[t] = "new" /\ op' = [op EXCEPT ![t] = "enqueue"]
        /\ DependsOn[t] # {}
        /\ pending' = [pending EXCEPT ![t] = DependsOn[t]]
        /\ unlinked' = [unlinked EXCEPT ![t] = DependsOn[t]]
        /\ WorkersCalm /\ UNCHANGED <<Boxes, fate, runs, dependents>>
    BY <1>2 DEF StoreParked, WorkersCalm, Boxes, Parked
  <2>2. \A u \in Tasks : /\ IsParked(u)' => IsParked(u) \/ Unseen(u)
                         /\ Unseen(u)' => Unseen(u)
                         /\ IsParked(u) => IsParked(u)'
                         /\ IsParked(t)'
                         /\ u # t => (IsParked(u)' <=> IsParked(u))
    BY <1>0, <2>1 DEF IsParked, Parked, Unseen, CallOf
  <2>3. \A u \in Tasks : OneOf(u)'
    BY <2>1, <2>2, CalmOne
  <2>4. CallOf(t)'
    BY <1>0, <2>1, <2>2 DEF CallOf
  <2>5. \A u \in Tasks : u # t => CallOf(u)'
    BY <1>0, <2>1, <2>2 DEF CallOf
  <2> QED
    BY <1>a, <2>1, <2>2, <2>3, <2>4, <2>5 DEF NarrowInv
<1>3. ASSUME NEW d \in Tasks, Link(t, d) PROVE NarrowInv' /\ \A u \in Tasks : IsParked(u) => IsParked(u)'
  <2>1. /\ cpc' = [cpc EXCEPT ![t] = IF unlinked[t] = {d} THEN "ok" ELSE "link"] /\ cpc[t] = "link"
        /\ d \in unlinked[t]
        /\ dependents' = [dependents EXCEPT ![d] = @ \cup {t}]
        /\ unlinked' = [unlinked EXCEPT ![t] = @ \ {d}]
        /\ WorkersCalm /\ UNCHANGED <<Boxes, fate, runs, op, pending>>
    BY <1>3 DEF Link, WorkersCalm, Boxes
  <2>2. \A u \in Tasks : (IsParked(u)' <=> IsParked(u)) /\ (Unseen(u)' => Unseen(u))
    BY <1>0, <2>1 DEF IsParked, Parked, Unseen, CallOf
  <2>3. \A u \in Tasks : OneOf(u)'
    BY <2>1, <2>2, CalmOne
  <2>4. \A u \in Tasks : CallOf(u)'
    BY <1>0, <2>1, <2>2 DEF CallOf
  <2> QED
    BY <1>a, <2>1, <2>2, <2>3, <2>4 DEF NarrowInv
<1>4. CASE (Dedup(t) \/ ToPQueue(t) \/ ToQueue(t) \/ ToDelayed(t)) /\ UNCHANGED depVars
  <2>1. PICK next \in {"rejected", "push", "ok", "dedup"} :
           /\ cpc' = [cpc EXCEPT ![t] = next] /\ cpc[t] \in {"dedup", "push"}
           /\ next = "push" => cpc[t] = "dedup" /\ op[t] = "enqueue"
           /\ WorkersCalm /\ UNCHANGED <<fate, runs, op, pending, dependents, unlinked>>
    BY <1>4 DEF Dedup, ToPQueue, ToQueue, ToDelayed, WorkersCalm
  <2>2. \A u \in Tasks : IsParked(u)' <=> IsParked(u)
    BY <2>1 DEF IsParked, Parked
  <2>3. ASSUME NEW u \in Tasks PROVE OneOf(u)'
    <3>1. CASE Dedup(t)
      <4>1. UNCHANGED Boxes
        BY <3>1 DEF Dedup, Boxes
      <4>2. Unseen(u)' => Unseen(u)
        BY <1>0, <2>1, <3>1 DEF Unseen, Dedup
      <4> QED
        BY <2>1, <2>2, <4>1, <4>2, CalmOne
    <3>2. CASE ~Dedup(t)
      BY <1>4, <3>2, PushOne
    <3> QED
      BY <3>1, <3>2
  <2>4. \A u \in Tasks : CallOf(u)'
    BY <1>0, <2>1, <2>2 DEF CallOf
  <2> QED
    BY <1>a, <2>1, <2>2, <2>3, <2>4 DEF NarrowInv
<1> QED
  BY <1>1, <1>2, <1>3, <1>4 DEF SubmitDeps

(* A step of the environment, or of the scheduler.                          *)
EventStep ==
    \/ \E t \in Tasks : MoveDue(t) \/ (Expire(t) /\ UNCHANGED depVars)
    \/ \E b \in BOOLEAN : SetPause(b) /\ UNCHANGED depVars
    \/ Flush /\ UNCHANGED depVars
    \/ UNCHANGED allVars

(* What such a step leaves alone.                                           *)
LEMMA EventCalm ==
    ASSUME EventStep, fate \in [Tasks -> Fates]
    PROVE  /\ WorkersCalm
           /\ UNCHANGED <<cpc, op, pending, dependents, unlinked, excused, runs>>
           /\ \A t \in Tasks : /\ fate[t] # "live" => fate'[t] = fate[t]
                               /\ fate'[t] # fate[t] => fate'[t] = "flushed"
                               /\ IsParked(t)' <=> IsParked(t)
<1>1. WorkersCalm /\ UNCHANGED <<cpc, op, pending, dependents, unlinked, excused, runs>>
  BY DEF EventStep, MoveDue, MoveDelayed, MoveRetry, Expire, SetPause, Flush, WorkersCalm, allVars, vars,
     redisVars, workerVars, clientVars, histVars, depVars
<1>2. \A t \in Tasks : /\ fate[t] # "live" => fate'[t] = fate[t]
                       /\ fate'[t] # fate[t] => fate'[t] = "flushed"
  BY DEF EventStep, MoveDue, MoveDelayed, MoveRetry, Expire, SetPause, Flush, allVars, vars, histVars
<1> QED
  BY <1>1, <1>2 DEF IsParked, Parked

(* It keeps the invariant.                                                  *)
LEMMA EventNarrow ==
    ASSUME NarrowInv, EventStep, OutTypes'
    PROVE  NarrowInv'
<1>0. /\ fate \in [Tasks -> Fates] /\ \A t \in Tasks : CallOf(t)
  BY DEF NarrowInv, OutTypes, DepTypes, QueueTypes
<1>1. ASSUME NEW t \in Tasks PROVE OneOf(t)'
  <2>1. CASE \E u \in Tasks : MoveDue(u)
    BY <2>1, DueOne
  <2>2. CASE Flush /\ UNCHANGED depVars
    BY <2>2, FlushOne
  <2>3. CASE ~(\E u \in Tasks : MoveDue(u)) /\ ~(Flush /\ UNCHANGED depVars)
    <3>1. UNCHANGED <<Boxes, fate, runs>>
      BY <2>3 DEF EventStep, Expire, SetPause, Boxes, allVars, vars, redisVars, histVars
    <3>2. Unseen(t)' <=> Unseen(t)
      BY <1>0, EventCalm DEF Unseen
    <3> QED
      BY <1>0, <3>1, <3>2, CalmOne, EventCalm
  <2> QED
    BY <2>1, <2>2, <2>3
<1>2. \A t \in Tasks : CallOf(t)'
  BY <1>0, EventCalm DEF CallOf
<1>3. \A w \in Workers : LoopOf(w)'
  BY <1>0, EventCalm, LoopStill DEF WorkersCalm, Still
<1> QED
  BY <1>1, <1>2, <1>3 DEF NarrowInv

(* Without administrators a step is one of a client, a worker or the rest.  *)
LEMMA StepKinds ==
    ASSUME Undisturbed, [DepNext]_allVars
    PROVE  \/ \E t \in Tasks : SubmitDeps(t)
           \/ \E w \in Workers : WorkerStep(w)
           \/ EventStep
<1>1. CASE OtherEvents
  <2>1. ASSUME NEW w \in Workers, BeforeFails(w), UNCHANGED depVars PROVE WorkerStep(w)
    BY <2>1 DEF WorkerStep
  <2>2. ASSUME NEW t \in Tasks, Expire(t), UNCHANGED depVars PROVE EventStep
    BY <2>2 DEF EventStep
  <2>3. ASSUME NEW b \in BOOLEAN, SetPause(b), UNCHANGED depVars PROVE EventStep
    BY <2>3, Zenon DEF EventStep
  <2>4. CASE Flush /\ UNCHANGED depVars
    BY <2>4 DEF EventStep
  <2> QED
    BY <1>1, <2>1, <2>2, <2>3, <2>4, Zenon DEF OtherEvents
<1>2. CASE \E t \in Tasks : SubmitDeps(t) \/ MoveDue(t)
  BY <1>2 DEF EventStep
<1>3. CASE \E w \in Workers : RunDeps(w) \/ SkipDependent(w) \/ AbandonDeps(w)
  BY <1>3 DEF WorkerStep
<1>4. CASE UNCHANGED allVars
  BY <1>4 DEF EventStep
<1> QED
  BY <1>1, <1>2, <1>3, <1>4 DEF Undisturbed, DepNext

(* Every step keeps the invariant.                                          *)
LEMMA NarrowStep ==
    ASSUME Undisturbed, NarrowInv, [DepNext]_allVars
    PROVE  NarrowInv'
<1>1. OutTypes'
  BY OutTypesStep DEF NarrowInv
<1> QED
  BY <1>1, StepKinds, SubmitNarrow, WorkerKinds, WorkerNarrow, EventNarrow

(* It holds initially.                                                      *)
LEMMA NarrowInit == DepInit => NarrowInv
<1> SUFFICES ASSUME DepInit PROVE NarrowInv
  OBVIOUS
<1>1. OutTypes
  BY DepTypesInit DEF DepInit, Init, OutTypes
<1>2. \A w \in Workers : pc[w] = "idle" /\ hold[w] = NoTask
  BY DEF DepInit, Init
<1>3. \A w \in Workers : LoopOf(w)
  BY <1>2 DEF LoopOf, LoopPcs, CheckPcs, FailPcs, CurPcs, InLoop
<1>4. \A t \in Tasks : CallOf(t)
  BY DEF DepInit, Init, CallOf, IsParked, Parked
<1>5. ASSUME NEW t \in Tasks PROVE OneOf(t)
  <2>1. Nowhere(t) /\ \A w \in Workers : ~Engaged(w, t)
    BY <1>2 DEF DepInit, Init, Nowhere, Waits, ItemsOf, Engaged, Holding, LoopPcs, CheckPcs, FailPcs
  <2>2. QueuedOnce(t) /\ Apart(t) /\ fate[t] = "live" /\ runs[t] = 0
    BY DEF DepInit, Init, QueuedOnce, Apart, InQueue, ItemsOf
  <2> QED
    BY <2>1, <2>2 DEF OneOf, Alone, Nowhere
<1> QED
  BY <1>1, <1>3, <1>4, <1>5 DEF NarrowInv

(* A task that is alone is in one place.                                    *)
LEMMA AloneInOnePlace ==
    ASSUME NEW t \in Tasks, Alone(t), NEW p \in Places(t), NEW q \in Places(t)
    PROVE  p = q
<1> DEFINE Queued(x) == \E i \in DOMAIN queue : queue[i] = t /\ x = <<"queue", i>>
           AtWorker(x) == \E w \in Workers : Holds(w, t) /\ x = <<"worker", w>>
           InZSet(x) == \/ t \in pqueue /\ x = <<"zset", "pqueue">>
                        \/ t \in delayed /\ x = <<"zset", "delayed">>
                        \/ t \in retry /\ x = <<"zset", "retry">>
<1>1. ASSUME NEW x \in Places(t) PROVE Queued(x) \/ AtWorker(x) \/ InZSet(x)
  BY <1>1 DEF Places, HeldBy, Holds
<1>2. \A w \in Workers : Holds(w, t) => Engaged(w, t)
  BY DEF Holds, Engaged
<1>3. \A x : /\ Queued(x) => InQueue(t)
             /\ InZSet(x) => t \in pqueue \cup delayed \cup retry
             /\ AtWorker(x) => ~Waits(t)
  BY <1>2 DEF ItemsOf, Alone, InQueue
<1>4. Queued(p) /\ Queued(q) => p = q
  BY DEF Alone, QueuedOnce
<1>5. AtWorker(p) /\ AtWorker(q) => p = q
  BY <1>2 DEF Alone
<1>6. InZSet(p) /\ InZSet(q) => p = q
  BY DEF Alone, Apart
<1>7. InQueue(t) => t \notin pqueue \cup delayed \cup retry
  BY DEF Alone, Apart
<1> HIDE DEF Queued, AtWorker, InZSet
<1> QED
  BY <1>1, <1>3, <1>4, <1>5, <1>6, <1>7 DEF Waits, InQueue

(* Where no task has two dependencies, however they fan out, the loops over  *)
(* dependents put none of them into two places.                             *)
THEOREM OneCopyOfDependents ==
    ASSUME Admins = {}, \A t \in Tasks : Narrow(t)
    PROVE  DepSpec => []SingleCopy
<1>1. Undisturbed
  BY DependsOnAssumption DEF Undisturbed
<1>2. DepInit => NarrowInv
  BY NarrowInit
<1>3. NarrowInv /\ [DepNext]_allVars => NarrowInv'
  BY <1>1, NarrowStep
<1>4. NarrowInv => SingleCopy
  BY AloneInOnePlace DEF NarrowInv, OneOf, SingleCopy
<1> QED
  BY <1>2, <1>3, <1>4, PTL DEF DepSpec

-----------------------------------------------------------------------------
(* Where a worker's step leaves a task: nothing but the release of a        *)
(* dependent brings one in, and nothing but its end takes one out.          *)
LEMMA WorkerPlaces ==
    ASSUME NarrowInv, NEW w \in Workers, FormOf(w), NEW t \in Tasks
    PROVE  /\ Placed(t)' => Placed(t) \/ (t = cur[w] /\ Releases(w))
           /\ Placed(t) => Placed(t)' \/ fate'[t] # "live"
           /\ t = cur[w] /\ Releases(w) => Placed(t)'
<1>0. /\ queue \in Seq(Tasks) /\ fate \in [Tasks -> Fates]
      /\ pc[w] \in CurPcs => cur[w] \in Tasks
      /\ pc[w] \in Holding \cup LoopPcs => hold[w] \in Tasks
  BY DEF NarrowInv, OutTypes, DepTypes, QueueTypes, LoopTypes
<1>a. /\ Waits(t) <=> InQueue(t) \/ t \in pqueue \/ t \in delayed \/ t \in retry
      /\ Waits(t)' <=> InQueue(t)' \/ t \in pqueue' \/ t \in delayed' \/ t \in retry'
  BY DEF Waits, InQueue
<1>b. \A v \in Workers : v # w => (Holds(v, t)' <=> Holds(v, t))
  BY DEF FormOf, OnlyWorker, Still, Holds
<1>c. UNCHANGED Boxes => (Waits(t)' <=> Waits(t))
  BY DEF Boxes, Waits
<1>1. CASE Idles(w) \/ Finishes(w) \/ Cuts(w) \/ Enters(w) \/ Reads(w) \/ Skips(w) \/ Cleans(w) \/ Kills(w)
           \/ \E u \in Tasks : Checks(w, u) \/ Fails(w, u)
  <2>1. UNCHANGED Boxes
    BY <1>1 DEF Idles, Finishes, Cuts, Enters, Reads, Skips, Cleans, Kills, Checks, Fails, Boxes
  <2>2. pc[w] \notin Holding /\ pc'[w] \notin Holding /\ ~Releases(w)
    BY <1>1 DEF Idles, Finishes, Cuts, Enters, Reads, Skips, Cleans, Kills, Checks, Fails, Releases, Outside, Holding,
       LoopPcs, CheckPcs, FailPcs
  <2> QED
    BY <1>b, <1>c, <2>1, <2>2 DEF Placed, Holds
<1>2. CASE Releases(w)
  <2>1. /\ UNCHANGED <<pqueue, delayed, retry>> /\ pc[w] = "c_push" /\ pc'[w] = "c_clean"
        /\ queue' = Append(queue, cur[w]) /\ cur[w] \in Tasks
    BY <1>0, <1>2 DEF Releases, CurPcs
  <2>2. Waits(t)' <=> Waits(t) \/ t = cur[w]
    BY <1>0, <1>a, <2>1, QueueGrows
  <2>3. ~Holds(w, t) /\ ~Holds(w, t)'
    BY <2>1 DEF Holds, Holding
  <2> QED
    BY <1>2, <1>b, <2>2, <2>3 DEF Placed
<1>3. ASSUME NEW u \in Tasks, Takes(w, u)
      PROVE ~Releases(w) /\ (Placed(t)' <=> Placed(t))
  <2>1. UNCHANGED <<delayed, retry>> /\ pc'[w] \in Holding /\ hold'[w] = u
    BY <1>3 DEF Takes
  <2>2. ~Holds(w, t) /\ (Holds(w, t)' <=> t = u) /\ ~Releases(w)
    BY <1>3, <2>1 DEF Takes, Holds, Outside, Holding, Releases
  <2>3. (Waits(t)' => Waits(t)) /\ Waits(u) /\ (Waits(t) => Waits(t)' \/ t = u)
    <3>1. CASE u \in pqueue /\ pqueue' = pqueue \ {u} /\ queue' = queue
      BY <1>a, <2>1, <3>1 DEF Waits, InQueue
    <3>2. CASE queue # <<>> /\ u = Head(queue) /\ queue' = Tail(queue) /\ pqueue' = pqueue
      BY <1>0, <1>a, <2>1, <3>2, QueueShrinks DEF Waits, InQueue
    <3> QED
      BY <1>3, <3>1, <3>2 DEF Takes
  <2> QED
    BY <1>b, <2>2, <2>3 DEF Placed
<1>4. CASE Works(w)
  <2>1. UNCHANGED Boxes /\ hold'[w] = hold[w] /\ pc[w] \in Holding /\ pc'[w] \in Holding
    BY <1>4 DEF Works
  <2>2. ~Releases(w) /\ (Holds(w, t)' <=> Holds(w, t))
    BY <2>1 DEF Releases, Holding, Holds
  <2> QED
    BY <1>b, <1>c, <2>1, <2>2 DEF Placed
<1>5. CASE Drops(w) \/ Acks(w)
  <2>1. UNCHANGED Boxes /\ pc[w] \in Holding /\ pc'[w] \notin Holding /\ fate'[hold[w]] # "live"
    BY <1>0, <1>5 DEF Drops, Acks, Settle, Boxes, Holding, Outside
  <2>2. ~Releases(w) /\ ~Holds(w, t)' /\ (Holds(w, t) => fate'[t] # "live")
    BY <2>1 DEF Releases, Holding, Holds
  <2> QED
    BY <1>b, <1>c, <2>1, <2>2 DEF Placed
<1>6. CASE Retries(w)
  <2>1. UNCHANGED <<queue, pqueue, delayed>> /\ retry' = retry \cup {hold[w]}
        /\ pc[w] = "retry" /\ pc'[w] = "idle"
    BY <1>6 DEF Retries
  <2>2. Waits(t)' <=> Waits(t) \/ t = hold[w]
    BY <1>a, <2>1 DEF InQueue
  <2>3. ~Releases(w) /\ ~Holds(w, t)' /\ (Holds(w, t) <=> t = hold[w])
    BY <2>1 DEF Releases, Holding, Holds
  <2> QED
    BY <1>b, <2>2, <2>3 DEF Placed
<1> QED
  BY <1>1, <1>2, <1>3, <1>4, <1>5, <1>6 DEF FormOf, InRound, AtDependents

(* The same of the steps that are no worker's.                              *)
LEMMA EventPlaces ==
    ASSUME NarrowInv, EventStep, NEW t \in Tasks
    PROVE  /\ Placed(t)' => Placed(t)
           /\ Placed(t) => Placed(t)' \/ fate'[t] # "live"
<1>0. queue \in Seq(Tasks) /\ fate \in [Tasks -> Fates]
  BY DEF NarrowInv, OutTypes, DepTypes, QueueTypes
<1>a. /\ Waits(t) <=> InQueue(t) \/ t \in pqueue \/ t \in delayed \/ t \in retry
      /\ Waits(t)' <=> InQueue(t)' \/ t \in pqueue' \/ t \in delayed' \/ t \in retry'
  BY DEF Waits, InQueue
<1>b. \A w \in Workers : Holds(w, t)' <=> Holds(w, t)
  BY <1>0, EventCalm DEF WorkersCalm, Holds
<1>1. ASSUME NEW u \in Tasks, MoveDue(u) PROVE Waits(t)' <=> Waits(t)
  <2>1. /\ queue' = Append(queue, u) /\ pqueue' = pqueue
        /\ \/ u \in delayed /\ delayed' = delayed \ {u} /\ retry' = retry
           \/ u \in retry /\ retry' = retry \ {u} /\ delayed' = delayed
    BY <1>1 DEF MoveDue, MoveDelayed, MoveRetry
  <2> QED
    BY <1>0, <1>a, <2>1, QueueGrows
<1>2. CASE Flush
  <2>1. /\ UNCHANGED <<pqueue, delayed, retry>> /\ queue' = <<>>
        /\ InQueue(t) => fate'[t] # "live"
    BY <1>2 DEF Flush, InQueue
  <2>2. ~InQueue(t)'
    BY <2>1 DEF InQueue, ItemsOf
  <2> QED
    BY <1>a, <1>b, <2>1, <2>2 DEF Placed
<1>3. CASE ~Flush /\ ~\E u \in Tasks : MoveDue(u)
  <2>1. UNCHANGED Boxes
    BY <1>3 DEF EventStep, Expire, SetPause, Boxes, allVars, vars, redisVars
  <2>2. Waits(t)' <=> Waits(t)
    BY <2>1 DEF Boxes, Waits
  <2> QED
    BY <1>b, <2>2 DEF Placed
<1> QED
  BY <1>1, <1>2, <1>3, <1>b DEF Placed

(* Submitting places only tasks without dependencies.                       *)
LEMMA SubmitPlaces ==
    ASSUME NarrowInv, NEW t \in Tasks, SubmitDeps(t), NEW u \in Tasks
    PROVE  /\ Placed(u)' => Placed(u) \/ (u = t /\ ~IsParked(u)')
           /\ Placed(u) => Placed(u)'
           /\ WorkersCalm /\ fate' = fate /\ runs' = runs
           /\ u # t => data'[u] = data[u] /\ (IsParked(u)' <=> IsParked(u))
           /\ IsParked(t) => data'[t] = data[t]
           /\ excused \subseteq excused'
<1>0. /\ queue \in Seq(Tasks) /\ CallOf(t) /\ data \in [Tasks -> Nat \cup {Missing, WrongType}]
      /\ op \in [Tasks -> SubmitOps \cup {"none"}]
  BY DEF NarrowInv, OutTypes, DepTypes, QueueTypes
<1>a. /\ Waits(u) <=> InQueue(u) \/ u \in pqueue \/ u \in delayed \/ u \in retry
      /\ Waits(u)' <=> InQueue(u)' \/ u \in pqueue' \/ u \in delayed' \/ u \in retry'
  BY DEF Waits, InQueue
<1> USE DEF redisVars, workerVars, histVars, depVars
<1>1. WorkersCalm /\ fate' = fate /\ runs' = runs /\ excused \subseteq excused'
  BY DEF SubmitDeps, PlainStore, Store, StoreParked, Link, Dedup, ToPQueue, ToQueue, ToDelayed, WorkersCalm
<1>2. /\ u # t => data'[u] = data[u] /\ (IsParked(u)' <=> IsParked(u))
      /\ IsParked(t) => data'[t] = data[t]
  <2>1. CASE StoreParked(t) \/ \E o \in Ops : PlainStore(t, o)
    BY <1>0, <2>1 DEF PlainStore, Store, StoreParked, IsParked, Parked, CallOf
  <2>2. CASE (\E d \in Tasks : Link(t, d)) \/ Dedup(t) \/ ToPQueue(t) \/ ToQueue(t) \/ ToDelayed(t)
    BY <2>2 DEF Link, Dedup, ToPQueue, ToQueue, ToDelayed, IsParked, Parked
  <2> QED
    BY <2>1, <2>2 DEF SubmitDeps
<1>3. \A w \in Workers : Holds(w, u)' <=> Holds(w, u)
  BY <1>1 DEF WorkersCalm, Holds
<1>4. CASE ToPQueue(t) \/ ToQueue(t) \/ ToDelayed(t)
  <2>1. cpc[t] = "push" /\ op' = op
    BY <1>4 DEF ToPQueue, ToQueue, ToDelayed
  <2>2. ~IsParked(t) /\ ~IsParked(t)'
    BY <1>0, <2>1 DEF CallOf, IsParked, Parked
  <2>3. Waits(u)' <=> Waits(u) \/ u = t
    BY <1>0, <1>a, <1>4, QueueGrows DEF ToPQueue, ToQueue, ToDelayed, InQueue
  <2> QED
    BY <1>1, <1>2, <1>3, <2>2, <2>3 DEF Placed
<1>5. CASE ~(ToPQueue(t) \/ ToQueue(t) \/ ToDelayed(t))
  <2>1. UNCHANGED Boxes
    BY <1>5 DEF SubmitDeps, PlainStore, Store, StoreParked, Link, Dedup, Boxes
  <2>2. Waits(u)' <=> Waits(u)
    BY <2>1 DEF Boxes, Waits
  <2> QED
    BY <1>1, <1>2, <1>3, <2>2 DEF Placed
<1> QED
  BY <1>4, <1>5

-----------------------------------------------------------------------------
(* Nothing runs before its dependencies.                                   *)

(* One of the dependencies is dead.                                         *)
DeadDep(t) == \E d \in DependsOn[t] : fate[d] = "dead"

(* All dependencies were processed, or one of them is dead.                 *)
Ready(t) == DeadDep(t) \/ \A d \in DependsOn[t] : fate[d] = "processed"

(* What is no longer pending was processed, and t is nowhere before it is   *)
(* ready.                                                                   *)
WaitsInOrder(t) ==
    IsParked(t) =>
        /\ DeadDep(t) \/ \A d \in DependsOn[t] \ pending[t] : fate[d] = "processed"
        /\ Placed(t) => Ready(t)

(* A worker about to release the dependent in its hand is right to.         *)
FoundReady(w) == pc[w] \in {"c_queue", "c_push", "c_clean"} => Ready(cur[w])

(* A task whose call has not begun is nowhere.                              *)
NewNowhere(t) == cpc[t] = "new" => ~Placed(t)

(* The invariant behind NeverEarly.                                         *)
OrderInv ==
    /\ NarrowInv
    /\ \A t \in Tasks : WaitsInOrder(t) /\ NewNowhere(t)
    /\ \A w \in Workers : FoundReady(w)

(* Fates are final, so a ready task stays ready.                            *)
LEMMA ReadyStays ==
    ASSUME NEW t \in Tasks, \A d \in Tasks : fate[d] # "live" => fate'[d] = fate[d]
    PROVE  /\ DeadDep(t) => DeadDep(t)'
           /\ Ready(t) => Ready(t)'
  BY DependsOnAssumption DEF DeadDep, Ready

(* A step of a worker keeps the order.                                      *)
LEMMA WorkerOrder ==
    ASSUME OrderInv, NEW w \in Workers, FormOf(w), NarrowInv'
    PROVE  OrderInv'
<1>0. /\ NarrowInv /\ LoopOf(w) /\ DependsOn \in [Tasks -> SUBSET Tasks] /\ pending \in [Tasks -> SUBSET Tasks]
      /\ pc[w] \in CurPcs => cur[w] \in Tasks
      /\ InLoop(w) => hold[w] \in Tasks
      /\ \A d \in Tasks : fate[d] # "live" => fate'[d] = fate[d]
      /\ \A t \in Tasks : IsParked(t)' <=> IsParked(t)
  BY DependsOnAssumption, WorkerSettles, WorkerCall DEF OrderInv, NarrowInv, OutTypes, DepTypes, SetTypes, LoopTypes, InLoop, LoopPcs
<1>1. ASSUME NEW t \in Tasks, IsParked(t), NEW d \in pending[t] \ pending'[t] PROVE fate[d] = "processed" \/ Ready(t)
  <2>1. CASE InRound(w)
    BY <1>1, <2>1 DEF InRound, Idles, Takes, Works, Drops, Acks, Retries, Sets
  <2>2. ASSUME NEW u \in Tasks, Checks(w, u) PROVE fate[d] = "processed"
    <3>1. pc[w] \in CheckPcs /\ d = hold[w]
      BY <1>0, <1>1, <2>2 DEF Checks, CheckPcs
    <3> QED
      BY <1>0, <3>1 DEF LoopOf
  <2>3. CASE Cleans(w)
    <3>1. t = cur[w] /\ pc[w] \in {"c_clean", "f_clean"}
      BY <1>0, <1>1, <2>3 DEF Cleans
    <3>2. pc[w] = "f_clean" => Ready(t)
      BY <1>0, <3>1 DEF LoopOf, CurPcs, FailPcs, Ready, DeadDep
    <3> QED
      BY <3>1, <3>2 DEF OrderInv, FoundReady
  <2>4. ASSUME NEW u \in Tasks, Fails(w, u) PROVE FALSE
    BY <1>1, <2>4 DEF Fails, Sets
  <2>5. CASE Cuts(w) \/ Finishes(w) \/ Enters(w) \/ Reads(w) \/ Skips(w) \/ Releases(w) \/ Kills(w)
    BY <1>1, <2>5 DEF Cuts, Finishes, Enters, Reads, Skips, Releases, Kills, Sets
  <2> QED
    BY <2>1, <2>2, <2>3, <2>4, <2>5 DEF FormOf, AtDependents
<1>2. ASSUME NEW t \in Tasks PROVE WaitsInOrder(t)'
  <2> SUFFICES ASSUME IsParked(t) PROVE WaitsInOrder(t)'
    BY <1>0 DEF WaitsInOrder
  <2>1. WaitsInOrder(t)
    BY DEF OrderInv
  <2>2. (DeadDep(t) => DeadDep(t)') /\ (Ready(t) => Ready(t)')
    BY <1>0, ReadyStays
  <2>3. DeadDep(t)' \/ \A d \in DependsOn[t] \ pending'[t] : fate'[d] = "processed"
    <3>1. CASE DeadDep(t)
      BY <2>2, <3>1
    <3>2. CASE Ready(t) /\ ~DeadDep(t)
      BY <2>2, <3>2 DEF Ready
    <3>3. CASE ~Ready(t)
      <4>1. ASSUME NEW d \in DependsOn[t] \ pending'[t] PROVE fate[d] = "processed" /\ d \in Tasks
        BY <1>0, <1>1, <2>1, <3>3, <4>1 DEF WaitsInOrder, Ready
      <4> QED
        BY <1>0, <4>1
    <3> QED
      BY <3>1, <3>2, <3>3
  <2>4. ASSUME Placed(t)' PROVE Ready(t)'
    <3>1. Placed(t) \/ (t = cur[w] /\ Releases(w))
      BY <1>0, <2>4, WorkerPlaces
    <3>2. t = cur[w] /\ Releases(w) => Ready(t)
      BY DEF OrderInv, FoundReady, Releases
    <3> QED
      BY <2>1, <2>2, <3>1, <3>2 DEF WaitsInOrder
  <2> QED
    BY <2>3, <2>4 DEF WaitsInOrder
<1>3. ASSUME NEW v \in Workers PROVE FoundReady(v)'
  <2>0. pc[v] \in CurPcs => cur[v] \in Tasks
    BY DEF OrderInv, NarrowInv, OutTypes, DepTypes, LoopTypes
  <2>1. CASE v # w
    BY <1>0, <2>0, <2>1, ReadyStays DEF OrderInv, FoundReady, FormOf, OnlyWorker, Still, CurPcs
  <2>2. CASE v = w
    <3> SUFFICES ASSUME pc'[w] \in {"c_queue", "c_push", "c_clean"} PROVE Ready(cur[w])' 
      BY <2>2 DEF FoundReady
    <3>1. CASE Reads(w) /\ pc[w] = "c_card"
      <4>1. pending[cur[w]] = {} /\ IsParked(cur[w]) /\ cur[w] \in Tasks /\ cur'[w] = cur[w]
        BY <1>0, <3>1 DEF Reads, LoopOf, CurPcs
      <4>2. Ready(cur[w])
        BY <4>1 DEF OrderInv, WaitsInOrder, Ready
      <4> QED
        BY <1>0, <4>1, <4>2, ReadyStays
    <3>2. CASE (Reads(w) /\ pc[w] = "c_queue") \/ Releases(w)
      <4>1. pc[w] \in {"c_queue", "c_push"} /\ cur'[w] = cur[w] /\ cur[w] \in Tasks
        BY <1>0, <3>2 DEF Reads, Releases, CurPcs
      <4>2. Ready(cur[w])
        BY <4>1 DEF OrderInv, FoundReady
      <4> QED
        BY <1>0, <4>1, <4>2, ReadyStays
    <3>3. ~InRound(w)
      BY DEF InRound, Idles, Takes, Works, Drops, Acks, Retries, Outside, Holding
    <3>4. ~(Cuts(w) \/ Finishes(w) \/ Enters(w) \/ Skips(w) \/ Cleans(w) \/ Kills(w) \/ \E t \in Tasks : Checks(w, t) \/ Fails(w, t))
      BY DEF Cuts, Finishes, Enters, Skips, Cleans, Kills, Checks, Fails
    <3> QED
      BY <3>1, <3>2, <3>3, <3>4 DEF FormOf, AtDependents, Reads
  <2> QED
    BY <2>1, <2>2
<1>4. ASSUME NEW t \in Tasks PROVE NewNowhere(t)'
  <2>1. cpc' = cpc /\ NewNowhere(t)
    BY DEF OrderInv, FormOf, OnlyWorker
  <2>2. t = cur[w] /\ Releases(w) => cpc[t] # "new"
    BY <1>0 DEF LoopOf, Releases, CurPcs, NarrowInv, CallOf
  <2> QED
    BY <1>0, <2>1, <2>2, WorkerPlaces DEF NewNowhere
<1> QED
  BY <1>2, <1>3, <1>4 DEF OrderInv

(* So does a step in which no worker moves.                                 *)
LEMMA CalmReady ==
    ASSUME OrderInv, WorkersCalm, \A d \in Tasks : fate[d] # "live" => fate'[d] = fate[d], NEW w \in Workers
    PROVE  FoundReady(w)'
<1>1. pc[w] \in CurPcs => cur[w] \in Tasks
  BY DEF OrderInv, NarrowInv, OutTypes, DepTypes, LoopTypes
<1> QED
  BY <1>1, ReadyStays DEF OrderInv, FoundReady, WorkersCalm, CurPcs

(* A step of the client keeps the order.                                    *)
LEMMA SubmitOrder ==
    ASSUME OrderInv, NEW t \in Tasks, SubmitDeps(t), NarrowInv'
    PROVE  OrderInv'
<1>0. NarrowInv /\ DependsOn \in [Tasks -> SUBSET Tasks]
      /\ pending \in [Tasks -> SUBSET Tasks]
  BY DependsOnAssumption DEF OrderInv, NarrowInv, OutTypes, DepTypes, SetTypes
<1>1. ASSUME NEW u \in Tasks PROVE WaitsInOrder(u)'
  <2> SUFFICES ASSUME IsParked(u)' PROVE WaitsInOrder(u)'
    BY DEF WaitsInOrder
  <2>1. fate' = fate /\ (Placed(u)' => Placed(u)) /\ (DeadDep(u)' <=> DeadDep(u)) /\ (Ready(u)' <=> Ready(u))
    BY <1>0, SubmitPlaces DEF DeadDep, Ready
  <2>2. CASE StoreParked(t) /\ u = t
    <3>1. pending'[u] = DependsOn[u]
      BY <1>0, <2>2 DEF StoreParked
    <3>2. ~Placed(u)
      BY <2>2 DEF StoreParked, OrderInv, NewNowhere
    <3> QED
      BY <2>1, <3>1, <3>2 DEF WaitsInOrder
  <2>3. CASE ~(StoreParked(t) /\ u = t)
    <3>1. pending'[u] = pending[u]
      BY <1>0, <2>3 DEF SubmitDeps, PlainStore, Store, StoreParked, Link, Dedup, ToPQueue, ToQueue, ToDelayed, depVars
    <3>2. IsParked(u)
      <4>1. CASE u # t
        BY <1>0, <4>1, SubmitPlaces
      <4>2. ASSUME NEW o \in Ops, PlainStore(t, o), u = t PROVE FALSE
        BY <1>0, <4>2 DEF PlainStore, Store, IsParked, Parked, NarrowInv, OutTypes
      <4>3. CASE op' = op
        BY <4>3 DEF IsParked, Parked
      <4> QED
        BY <2>3, <4>1, <4>2, <4>3 DEF SubmitDeps, Link, Dedup, ToPQueue, ToQueue, ToDelayed
    <3> QED
      BY <2>1, <3>1, <3>2 DEF OrderInv, WaitsInOrder
  <2> QED
    BY <2>2, <2>3
<1>2. \A w \in Workers : FoundReady(w)'
  BY <1>0, SubmitPlaces, CalmReady
<1>3. ASSUME NEW u \in Tasks PROVE NewNowhere(u)'
  <2>1. cpc \in [Tasks -> CallSteps]
    BY <1>0 DEF NarrowInv, OutTypes, DepTypes, QueueTypes
  <2>2. cpc'[t] # "new" /\ (u # t => cpc'[u] = cpc[u])
    BY <2>1 DEF SubmitDeps, PlainStore, Store, StoreParked, Link, Dedup, ToPQueue, ToQueue, ToDelayed
  <2> QED
    BY <1>0, <2>2, SubmitPlaces DEF OrderInv, NewNowhere
<1> QED
  BY <1>1, <1>2, <1>3 DEF OrderInv

(* So does a step of neither.                                               *)
LEMMA EventOrder ==
    ASSUME OrderInv, EventStep, NarrowInv'
    PROVE  OrderInv'
<1>0. NarrowInv /\ fate \in [Tasks -> Fates]
  BY DEF OrderInv, NarrowInv, OutTypes, DepTypes, QueueTypes
<1>1. ASSUME NEW t \in Tasks PROVE WaitsInOrder(t)' /\ NewNowhere(t)'
  <2>1. /\ pending' = pending /\ cpc' = cpc /\ (IsParked(t)' <=> IsParked(t))
        /\ \A d \in Tasks : fate[d] # "live" => fate'[d] = fate[d]
    BY <1>0, EventCalm
  <2>2. (DeadDep(t) => DeadDep(t)') /\ (Ready(t) => Ready(t)') /\ (Placed(t)' => Placed(t))
    BY <1>0, <2>1, ReadyStays, EventPlaces
  <2> QED
    BY <2>1, <2>2, DependsOnAssumption DEF OrderInv, WaitsInOrder, NewNowhere
<1>2. \A w \in Workers : FoundReady(w)'
  BY <1>0, EventCalm, CalmReady
<1> QED
  BY <1>1, <1>2 DEF OrderInv

(* The order holds initially.                                               *)
LEMMA OrderInit == DepInit => OrderInv
<1> SUFFICES ASSUME DepInit PROVE OrderInv
  OBVIOUS
<1>1. \A t \in Tasks : ~Placed(t) /\ ~IsParked(t)
  BY DEF DepInit, Init, Placed, Waits, ItemsOf, Holds, Holding, IsParked, Parked
<1> QED
  BY <1>1, NarrowInit DEF OrderInv, WaitsInOrder, NewNowhere, FoundReady, DepInit, Init

(* Every step keeps the order.                                              *)
LEMMA OrderStep ==
    ASSUME Undisturbed, OrderInv, [DepNext]_allVars
    PROVE  OrderInv'
<1>1. NarrowInv /\ NarrowInv'
  BY NarrowStep DEF OrderInv
<1> QED
  BY <1>1, StepKinds, SubmitOrder, WorkerKinds, WorkerOrder, EventOrder

(* A task is in one of its places exactly when it waits or is held.         *)
LEMMA PlacesAndPlaced == ASSUME NEW t \in Tasks PROVE Places(t) # {} => Placed(t)
<1> SUFFICES ASSUME NEW p \in Places(t) PROVE Placed(t)
  OBVIOUS
<1>1. CASE \E i \in DOMAIN queue : queue[i] = t
  BY <1>1 DEF Placed, Waits, ItemsOf
<1>2. CASE \E w \in HeldBy(t) : TRUE
  BY <1>2 DEF Placed, HeldBy, Holds
<1>3. CASE t \in pqueue \cup delayed \cup retry
  BY <1>3 DEF Placed, Waits
<1> QED
  BY <1>1, <1>2, <1>3 DEF Places

(* check_dependents and fail_dependents: however clients link and workers    *)
(* end, fail and die, no dependent is handed to a handler before all of its *)
(* dependencies were processed, or one of them is dead -- as long as nobody *)
(* removes or revives tasks by hand and what others depend on has at most   *)
(* one dependency itself.                                                  *)
THEOREM NeverRunsEarly == ASSUME Undisturbed PROVE DepSpec => []NeverEarly
<1>1. DepInit => OrderInv
  BY OrderInit
<1>2. OrderInv /\ [DepNext]_allVars => OrderInv'
  BY OrderStep
<1>3. OrderInv => NeverEarly
  BY PlacesAndPlaced DEF OrderInv, WaitsInOrder, NeverEarly, IsParked, Ready, DeadDep
<1> QED
  BY <1>1, <1>2, <1>3, PTL DEF DepSpec

-----------------------------------------------------------------------------
(* Nothing is forgotten.                                                   *)

(* A dependency that has no end of its own.                                 *)
Bad(d) == fate[d] \in {"flushed", "abandoned", "unloadable"} \/ (fate[d] = "dead" /\ runs[d] = 0)

(* There is a known reason why t may wait for ever, or it is about to die.  *)
Doomed(t) ==
    \/ t \in excused \/ data[t] = Missing \/ \E d \in DependsOn[t] : Bad(d)
    \/ \E w \in Workers : pc[w] \in {"f_store", "f_push"} /\ cur[w] = t

(* t has a fate, a place, or a reason to have neither.                      *)
Resolved(t) == fate[t] # "live" \/ Placed(t) \/ Doomed(t)

(* A worker will come to t when it has finished d.                          *)
Coming(t, d) ==
    \/ d \in unlinked[t]
    \/ t \in dependents[d] /\ ~Visited(d)
    \/ \E w \in Workers : hold[w] = d /\ InLoop(w) /\ t \in left[w]

(* A worker has t in its hand and is about to release it.                   *)
InHand(t) == \E w \in Workers : cur[w] = t /\ pc[w] \in {"c_card", "c_queue", "c_push"}

(* For a task that is not resolved, everything pending will lead a worker   *)
(* to it, and one that has nothing pending is in the hand of a worker.      *)
StillReached(t) ==
    IsParked(t) /\ ~Resolved(t) =>
        /\ \A d \in pending[t] : Coming(t, d)
        /\ pending[t] = {} => InHand(t)

(* A worker deletes what was pending only for a dependent that is resolved. *)
DealtWith(w) == pc[w] \in {"c_clean", "f_clean"} => Resolved(cur[w])

(* The invariant behind StrandedForCause.                                   *)
ReachInv ==
    /\ NarrowInv
    /\ \A t \in Tasks : StillReached(t)
    /\ \A w \in Workers : DealtWith(w)

(* Which data a worker writes.                                             *)
LEMMA WorkerData ==
    ASSUME NarrowInv, NEW w \in Workers, FormOf(w), NEW t \in Tasks
    PROVE  /\ data'[t] # data[t] => \/ t = hold[w] /\ (Works(w) \/ Acks(w))
                                    \/ t = cur[w] /\ pc'[w] = "f_push"
           /\ runs'[t] # runs[t] => t = hold[w] /\ Works(w)
<1>1. CASE InRound(w)
  BY <1>1 DEF InRound, Idles, Takes, Works, Drops, Acks, Retries, Others
<1>2. CASE AtDependents(w)
  BY <1>2 DEF AtDependents, Cuts, Finishes, Enters, Checks, Fails, Reads, Skips, Cleans, Releases, Kills, Others
<1> QED
  BY <1>1, <1>2 DEF FormOf

(* A dependency that came to a bad end stays so.                            *)
LEMMA BadStays ==
    ASSUME Undisturbed, NarrowInv, NEW w \in Workers, FormOf(w), NEW t \in Tasks, NEW d \in DependsOn[t], Bad(d)
    PROVE  Bad(d)'
<1>1. d \in Tasks /\ Narrow(d)
  BY DependsOnAssumption DEF Undisturbed
<1>2. fate'[d] = fate[d] /\ fate[d] # "live"
  BY <1>1, WorkerSettles DEF Bad
<1>3. ~(d = hold[w] /\ Works(w))
  <2>1. d = hold[w] /\ Works(w) => Placed(d)
    BY DEF Works, Placed, Holds
  <2> QED
    BY <1>1, <1>2, <2>1 DEF NarrowInv, OneOf
<1> QED
  BY <1>1, <1>2, <1>3, WorkerData DEF Bad

(* A loop that is cut off, or goes on after an error, has its dependents    *)
(* recorded.                                                               *)
LEMMA WorkerExcuses ==
    ASSUME NarrowInv, NEW w \in Workers, FormOf(w), NEW t \in Tasks
    PROVE  /\ Cuts(w) /\ pc[w] # "deps" /\ (t = cur[w] \/ t \in left[w]) => t \in excused'
           /\ Cuts(w) /\ pc[w] = "deps" /\ t \in dependents[hold[w]] => t \in excused'
           /\ Skips(w) /\ t = cur[w] => t \in excused'
<1>1. t # NoTask
  BY ConstantsAssumption
<1> QED
  BY <1>1 DEF Cuts, Skips, Unvisited

(* A step of a worker keeps a task resolved.                                *)
LEMMA WorkerResolved ==
    ASSUME Undisturbed, NarrowInv, NEW w \in Workers, FormOf(w), NEW t \in Tasks, Resolved(t)
    PROVE  Resolved(t)'
<1>0. fate \in [Tasks -> Fates] /\ LoopOf(w)
  BY DEF NarrowInv, OutTypes, DepTypes, QueueTypes
<1>1. CASE fate[t] # "live"
  BY <1>1, WorkerSettles DEF Resolved
<1>2. CASE Placed(t)
  BY <1>2, WorkerPlaces DEF Resolved
<1>3. CASE t \in excused
  BY <1>3, WorkerSets DEF Resolved, Doomed
<1>4. CASE \E d \in DependsOn[t] : Bad(d)
  BY <1>4, BadStays DEF Resolved, Doomed
<1>5. CASE data[t] = Missing
  <2>1. CASE data'[t] = data[t]
    BY <1>5, <2>1 DEF Resolved, Doomed
  <2>2. CASE t = hold[w] /\ (Works(w) \/ Acks(w))
    <3>1. Placed(t)
      BY <2>2 DEF Works, Acks, Placed, Holds, Holding
    <3> QED
      BY <1>2, <3>1
  <2>3. CASE t = cur[w] /\ pc'[w] = "f_push"
    <3>1. cur'[w] = cur[w]
      BY <2>3 DEF FormOf, InRound, AtDependents, Idles, Takes, Works, Drops, Acks, Retries, Outside, Holding,
         Cuts, Finishes, Enters, Checks, Fails, Reads, Skips, Cleans, Releases, Kills
    <3> QED
      BY <2>3, <3>1 DEF Resolved, Doomed
  <2> QED
    BY <2>1, <2>2, <2>3, WorkerData
<1>6. ASSUME NEW v \in Workers, pc[v] \in {"f_store", "f_push"}, cur[v] = t PROVE Resolved(t)'
  <2>1. CASE v # w
    BY <1>6, <2>1 DEF FormOf, OnlyWorker, Still, Resolved, Doomed
  <2>2. CASE v = w
    <3>1. ~InRound(w)
      BY <1>6, <2>2 DEF InRound, Idles, Takes, Works, Drops, Acks, Retries, Outside, Holding
    <3>2. CASE Cuts(w) \/ Skips(w)
      BY <1>6, <2>2, <3>2, WorkerExcuses DEF Resolved, Doomed
    <3>3. CASE Kills(w)
      <4>1. CASE pc'[w] = "f_push"
        BY <1>6, <2>2, <3>3, <4>1 DEF Kills, Resolved, Doomed
      <4>2. CASE pc'[w] # "f_push"
        BY <1>0, <1>6, <2>2, <3>3, <4>2 DEF Kills, Settle, Resolved
      <4> QED
        BY <4>1, <4>2
    <3>4. ~(Finishes(w) \/ Enters(w) \/ Reads(w) \/ Cleans(w) \/ Releases(w) \/ \E u \in Tasks : Checks(w, u) \/ Fails(w, u))
      BY <1>6, <2>2 DEF Finishes, Enters, Reads, Cleans, Releases, Checks, Fails
    <3> QED
      BY <3>1, <3>2, <3>3, <3>4 DEF FormOf, AtDependents
  <2> QED
    BY <2>1, <2>2
<1> QED
  BY <1>1, <1>2, <1>3, <1>4, <1>5, <1>6 DEF Resolved, Doomed

-----------------------------------------------------------------------------
(* What will lead a worker to t still does after a step of a worker.        *)
LEMMA WorkerComing ==
    ASSUME Undisturbed, NarrowInv, NEW w \in Workers, FormOf(w), NEW t \in Tasks, IsParked(t), ~Resolved(t)',
           NEW d \in pending'[t], Coming(t, d)
    PROVE  Coming(t, d)'
<1>0. /\ fate \in [Tasks -> Fates] /\ dependents \in [Tasks -> SUBSET Tasks] /\ pending \in [Tasks -> SUBSET Tasks]
      /\ OnlyWorker(w) /\ LoopOf(w)
      /\ pc[w] \in Holding \cup LoopPcs => hold[w] \in Tasks
  BY DEF NarrowInv, OutTypes, DepTypes, QueueTypes, SetTypes, LoopTypes, FormOf
<1>1. d \in DependsOn[t] /\ d \in Tasks /\ Narrow(d) /\ OneOf(d)
  <2>1. d \in pending[t] /\ CallOf(t)
    BY WorkerSets DEF NarrowInv
  <2> QED
    BY <2>1, DependsOnAssumption DEF Undisturbed, NarrowInv, CallOf
<1>2. ~Bad(d)' /\ t \notin excused' /\ data'[t] # Missing /\ ~Placed(t)'
      /\ \A v \in Workers : pc'[v] \in {"f_store", "f_push"} => cur'[v] # t
  BY <1>1 DEF Resolved, Doomed
<1>3. CASE d \in unlinked[t]
  BY <1>0, <1>3 DEF OnlyWorker, Coming
<1>4. CASE t \in dependents[d] /\ ~Visited(d)
  <2>1. CASE fate[d] = "live"
    <3>1. t \in dependents'[d]
      <4>1. ~(Finishes(w) /\ hold[w] = d)
        BY <1>0, <2>1 DEF LoopOf, Finishes, LoopPcs, CheckPcs, FailPcs
      <4>2. CASE Finishes(w)
        BY <1>0, <1>1, <1>4, <4>1, <4>2 DEF Finishes
      <4>3. CASE ~Finishes(w)
        BY <1>4, <4>3 DEF FormOf, InRound, AtDependents, Idles, Takes, Works, Drops, Acks, Retries, Sets,
           Cuts, Enters, Checks, Fails, Reads, Skips, Cleans, Releases, Kills
      <4> QED
        BY <4>2, <4>3
    <3>2. ~Visited(d)'
      <4>1. CASE fate'[d] = "live"
        BY <4>1 DEF Visited
      <4>2. CASE fate'[d] # "live" /\ d = hold[w] /\ Drops(w)
        BY <1>0, <1>2, <2>1, <4>2 DEF Drops, Settle, Bad
      <4>3. CASE fate'[d] # "live" /\ d = hold[w] /\ Acks(w)
        BY <4>3 DEF Acks, Visited
      <4>4. CASE fate'[d] = "dead" /\ d = cur[w] /\ Kills(w) /\ pc[w] = "f_push"
        <5>1. Fresh(d)
          BY <1>0, <4>4 DEF Fresh, Ahead, HasToCome, InLoop, AheadPcs, CurPcs, FailPcs, LoopOf
        <5>2. runs[d] = 0 /\ runs' = runs
          BY <1>1, <4>4, <5>1 DEF OneOf, Kills
        <5> QED
          BY <1>2, <4>4, <5>2 DEF Bad
      <4> QED
        BY <1>1, <2>1, <4>1, <4>2, <4>3, <4>4, WorkerSettles
    <3> QED
      BY <3>1, <3>2 DEF Coming
  <2>2. CASE fate[d] # "live"
    <3>1. PICK v \in Workers : hold[v] = d /\ pc[v] \in Holding \cup {"deps"}
      BY <1>4, <2>2 DEF Visited
    <3>2. pc[v] = "deps"
      <4>1. pc[v] \in Holding => Placed(d)
        BY <3>1 DEF Placed, Holds
      <4> QED
        BY <1>1, <2>2, <3>1, <4>1 DEF OneOf
    <3>3. CASE v # w
      <4>1. hold[w] = d => pc[w] \notin LoopPcs
        BY <1>1, <3>1, <3>2, <3>3 DEF OneOf, Alone, Engaged, LoopPcs
      <4>2. t \in dependents'[d]
        <5>1. CASE Finishes(w)
          BY <1>0, <1>1, <1>4, <4>1, <5>1 DEF Finishes, LoopPcs, CheckPcs, FailPcs
        <5>2. CASE ~Finishes(w)
          BY <1>4, <5>2 DEF FormOf, InRound, AtDependents, Idles, Takes, Works, Drops, Acks, Retries, Sets,
             Cuts, Enters, Checks, Fails, Reads, Skips, Cleans, Releases, Kills
        <5> QED
          BY <5>1, <5>2
      <4>3. ~Visited(d)'
        BY <1>0, <3>1, <3>2, <3>3 DEF Visited, OnlyWorker, Still
      <4> QED
        BY <4>2, <4>3 DEF Coming
    <3>4. CASE v = w
      <4>1. pc[w] = "deps" /\ hold[w] = d /\ t \in dependents[hold[w]]
        BY <1>4, <3>1, <3>2, <3>4
      <4>2. ~Cuts(w)
        BY <1>2, <4>1, WorkerExcuses
      <4>3. Enters(w)
        BY <4>1, <4>2 DEF FormOf, InRound, AtDependents, Idles, Takes, Works, Drops, Acks, Retries, Outside, Holding,
           Finishes, Checks, Fails, Reads, Skips, Cleans, Releases, Kills
      <4>4. hold'[w] = d /\ InLoop(w)' /\ t \in left'[w]
        BY <4>1, <4>3 DEF Enters, InLoop, CheckPcs, FailPcs
      <4> QED
        BY <4>4 DEF Coming
    <3> QED
      BY <3>3, <3>4
  <2> QED
    BY <2>1, <2>2
<1>5. ASSUME NEW v \in Workers, hold[v] = d, InLoop(v), t \in left[v] PROVE Coming(t, d)'
  <2>1. CASE v # w
    BY <1>0, <1>5, <2>1 DEF OnlyWorker, Still, Coming, InLoop
  <2>2. CASE v = w
    <3>1. ~InRound(w) /\ ~Enters(w) /\ ~Cuts(w) /\ ~Finishes(w)
      <4>1. pc[w] \in CheckPcs \cup FailPcs /\ t \in left[w]
        BY <1>5, <2>2 DEF InLoop
      <4>2. ~Cuts(w)
        BY <1>2, <4>1, WorkerExcuses DEF CheckPcs, FailPcs
      <4> QED
        BY <4>1, <4>2 DEF InRound, Idles, Takes, Works, Drops, Acks, Retries, Outside, Holding, CheckPcs, FailPcs,
           Enters, Finishes
    <3>2. ASSUME NEW u \in Tasks, Checks(w, u) PROVE Coming(t, d)'
      <4>1. u # t
        BY <1>0, <1>5, <2>2, <3>2 DEF Checks
      <4> QED
        BY <1>5, <2>2, <3>2, <4>1 DEF Checks, Coming, InLoop, CheckPcs
    <3>3. ASSUME NEW u \in Tasks, Fails(w, u) PROVE Coming(t, d)'
      <4>1. u # t
        BY <1>2, <3>3 DEF Fails
      <4> QED
        BY <1>5, <2>2, <3>3, <4>1 DEF Fails, Coming, InLoop, FailPcs
    <3>4. CASE Reads(w) \/ Skips(w) \/ Cleans(w) \/ Releases(w) \/ Kills(w)
      <4>1. hold'[w] = hold[w] /\ left'[w] = left[w] /\ pc'[w] \in CheckPcs \cup FailPcs
        BY <3>4 DEF Reads, Skips, Cleans, Releases, Kills, CheckPcs, FailPcs
      <4> QED
        BY <1>5, <2>2, <4>1 DEF Coming, InLoop
    <3> QED
      BY <3>1, <3>2, <3>3, <3>4 DEF FormOf, AtDependents
  <2> QED
    BY <2>1, <2>2
<1> QED
  BY <1>3, <1>4, <1>5 DEF Coming

(* Who takes the last pending dependency from t has t in its hand.          *)
LEMMA WorkerInHand ==
    ASSUME Undisturbed, ReachInv, NEW w \in Workers, FormOf(w), NEW t \in Tasks, IsParked(t), ~Resolved(t)',
           pending'[t] = {}
    PROVE  InHand(t)'
<1>0. /\ pending \in [Tasks -> SUBSET Tasks] /\ OnlyWorker(w) /\ NarrowInv /\ ~Resolved(t)
      /\ (pc[w] \in CurPcs => cur[w] \in Tasks)
  BY WorkerResolved DEF ReachInv, NarrowInv, OutTypes, DepTypes, SetTypes, LoopTypes, FormOf
<1>2. t \notin excused' /\ data'[t] # Missing /\ ~Placed(t)'
  BY DEF Resolved, Doomed
<1>3. CASE pending[t] = {}
  <2>1. PICK v \in Workers : cur[v] = t /\ pc[v] \in {"c_card", "c_queue", "c_push"}
    BY <1>0, <1>3 DEF ReachInv, StillReached, InHand
  <2>2. CASE v # w
    BY <1>0, <2>1, <2>2 DEF OnlyWorker, Still, InHand
  <2>3. CASE v = w
    <3>1. ~InRound(w) /\ ~(Finishes(w) \/ Enters(w) \/ Cleans(w) \/ Kills(w) \/ \E u \in Tasks : Checks(w, u) \/ Fails(w, u))
      BY <2>1, <2>3 DEF InRound, Idles, Takes, Works, Drops, Acks, Retries, Outside, Holding,
         Finishes, Enters, Cleans, Kills, Checks, Fails
    <3>2. ~Cuts(w) /\ ~Skips(w)
      BY <1>0, <1>2, <2>1, <2>3, WorkerExcuses
    <3>3. ~Releases(w)
      BY <1>0, <1>2, <2>1, <2>3, WorkerPlaces
    <3>4. CASE Reads(w)
      BY <1>2, <1>3, <2>1, <2>3, <3>4 DEF Reads, InHand
    <3> QED
      BY <3>1, <3>2, <3>3, <3>4 DEF FormOf, AtDependents
  <2> QED
    BY <2>2, <2>3
<1>4. CASE pending[t] # {}
  <2>1. ASSUME NEW u \in Tasks, Checks(w, u) PROVE InHand(t)'
    <3>1. u = t
      BY <1>0, <1>4, <2>1 DEF Checks
    <3> QED
      BY <2>1, <3>1 DEF Checks, InHand
  <2>2. ~Cleans(w)
    <3>1. Cleans(w) => cur[w] = t
      BY <1>0, <1>4 DEF Cleans, CurPcs
    <3> QED
      BY <1>0, <3>1 DEF Cleans, ReachInv, DealtWith
  <2>3. ASSUME NEW u \in Tasks, Fails(w, u) PROVE FALSE
    BY <1>4, <2>3 DEF Fails, Sets
  <2>4. ~InRound(w) /\ ~(Cuts(w) \/ Finishes(w) \/ Enters(w) \/ Reads(w) \/ Skips(w) \/ Releases(w) \/ Kills(w))
    BY <1>4 DEF InRound, Idles, Takes, Works, Drops, Acks, Retries, Sets,
       Cuts, Finishes, Enters, Reads, Skips, Releases, Kills
  <2> QED
    BY <2>1, <2>2, <2>3, <2>4 DEF FormOf, AtDependents
<1> QED
  BY <1>3, <1>4

(* A worker that turns to the deletion has resolved the dependent.          *)
LEMMA WorkerDealt ==
    ASSUME Undisturbed, ReachInv, NEW w \in Workers, FormOf(w), NEW v \in Workers
    PROVE  DealtWith(v)'
<1>0. /\ NarrowInv /\ OnlyWorker(w) /\ fate \in [Tasks -> Fates]
      /\ (pc[v] \in CurPcs => cur[v] \in Tasks)
  BY DEF ReachInv, NarrowInv, OutTypes, DepTypes, LoopTypes, QueueTypes, FormOf
<1>1. CASE v # w
  BY <1>0, <1>1, WorkerResolved DEF ReachInv, DealtWith, OnlyWorker, Still, CurPcs
<1>2. CASE v = w
  <2>1. ~InRound(w) \/ pc'[w] \notin {"c_clean", "f_clean"}
    BY DEF InRound, Idles, Takes, Works, Drops, Acks, Retries, Outside, Holding
  <2>2. CASE Reads(w) \/ \E u \in Tasks : Fails(w, u)
    BY <2>2, <1>2 DEF Reads, Fails, DealtWith, Resolved, Doomed
  <2>3. CASE Releases(w)
    <3>1. cur[w] \in Tasks /\ cur'[w] = cur[w]
      BY <1>0, <1>2, <2>3 DEF Releases, CurPcs
    <3> QED
      BY <1>0, <1>2, <2>3, <3>1, WorkerPlaces DEF DealtWith, Resolved
  <2>4. CASE Kills(w)
    BY <1>0, <1>2, <2>4 DEF Kills, Settle, DealtWith, Resolved, CurPcs
  <2>5. CASE Cuts(w) \/ Finishes(w) \/ Enters(w) \/ Skips(w) \/ Cleans(w) \/ \E u \in Tasks : Checks(w, u)
    BY <1>2, <2>5 DEF Cuts, Finishes, Enters, Skips, Cleans, Checks, DealtWith
  <2> QED
    BY <1>2, <2>1, <2>2, <2>3, <2>4, <2>5 DEF FormOf, AtDependents, DealtWith
<1> QED
  BY <1>1, <1>2

(* A step of a worker forgets nobody.                                       *)
LEMMA WorkerReach ==
    ASSUME Undisturbed, ReachInv, NEW w \in Workers, FormOf(w), NarrowInv'
    PROVE  ReachInv'
<1>1. ASSUME NEW t \in Tasks PROVE StillReached(t)'
  <2> SUFFICES ASSUME IsParked(t), ~Resolved(t)' PROVE StillReached(t)'
    BY WorkerCall DEF StillReached, ReachInv
  <2>1. ~Resolved(t) /\ NarrowInv
    BY WorkerResolved DEF ReachInv
  <2>2. ASSUME NEW d \in pending'[t] PROVE Coming(t, d)'
    <3>1. d \in pending[t]
      BY <2>1, WorkerSets
    <3>2. Coming(t, d)
      BY <2>1, <3>1 DEF ReachInv, StillReached
    <3> QED
      BY <2>1, <3>2, WorkerComing
  <2>3. pending'[t] = {} => InHand(t)'
    BY WorkerInHand
  <2> QED
    BY <2>2, <2>3 DEF StillReached
<1> QED
  BY <1>1, WorkerDealt DEF ReachInv

-----------------------------------------------------------------------------
(* What was resolved stays so when a client or the environment moves.       *)
LEMMA CalmResolved ==
    ASSUME WorkersCalm, NEW t \in Tasks, runs' = runs, excused \subseteq excused',
           \A d \in Tasks : fate[d] # "live" => fate'[d] = fate[d],
           Placed(t) => Placed(t)' \/ fate'[t] # "live",
           data'[t] = data[t] \/ data'[t] = Missing
    PROVE  Resolved(t) => Resolved(t)'
<1>1. \A d \in DependsOn[t] : Bad(d) => Bad(d)'
  BY DependsOnAssumption DEF Bad
<1> QED
  BY <1>1 DEF Resolved, Doomed, WorkersCalm

(* A step of the client forgets nobody.                                     *)
LEMMA SubmitReach ==
    ASSUME ReachInv, NEW t \in Tasks, SubmitDeps(t), NarrowInv'
    PROVE  ReachInv'
<1>0. /\ NarrowInv /\ CallOf(t) /\ DependsOn \in [Tasks -> SUBSET Tasks] /\ DependsOn[t] \subseteq Tasks
      /\ pending \in [Tasks -> SUBSET Tasks] /\ dependents \in [Tasks -> SUBSET Tasks] /\ unlinked \in [Tasks -> SUBSET Tasks]
      /\ op \in [Tasks -> SubmitOps \cup {"none"}]
  BY DependsOnAssumption DEF ReachInv, NarrowInv, OutTypes, DepTypes, SetTypes
<1>1. /\ WorkersCalm /\ fate' = fate /\ runs' = runs /\ excused \subseteq excused'
      /\ \A u \in Tasks : u # t => data'[u] = data[u] /\ (IsParked(u)' <=> IsParked(u))
      /\ IsParked(t) => data'[t] = data[t]
  BY <1>0, SubmitPlaces
<1>2. ASSUME NEW u \in Tasks, IsParked(u) PROVE Resolved(u) => Resolved(u)'
  <2>1. (Placed(u) => Placed(u)') /\ data'[u] = data[u]
    BY <1>0, <1>1, <1>2, SubmitPlaces
  <2> QED
    BY <1>1, <2>1, CalmResolved
<1>3. \A d \in Tasks : Visited(d)' <=> Visited(d)
  BY <1>1 DEF Visited, WorkersCalm
<1>4. ASSUME NEW u \in Tasks PROVE StillReached(u)'
  <2> SUFFICES ASSUME IsParked(u)', ~Resolved(u)' PROVE StillReached(u)'
    BY DEF StillReached
  <2>1. CASE StoreParked(t) /\ u = t
    <3>1. pending'[u] = DependsOn[u] /\ unlinked'[u] = DependsOn[u] /\ DependsOn[u] # {}
      BY <1>0, <2>1 DEF StoreParked, Parked
    <3> QED
      BY <3>1 DEF StillReached, Coming
  <2>2. CASE ~(StoreParked(t) /\ u = t)
    <3>1. pending'[u] = pending[u]
      BY <1>0, <2>2 DEF SubmitDeps, PlainStore, Store, StoreParked, Link, Dedup, ToPQueue, ToQueue, ToDelayed, depVars
    <3>2. IsParked(u)
      <4>1. CASE u # t
        BY <1>1, <4>1
      <4>2. ASSUME NEW o \in Ops, PlainStore(t, o), u = t PROVE FALSE
        BY <1>0, <4>2 DEF PlainStore, Store, IsParked, Parked
      <4>3. CASE op' = op
        BY <4>3 DEF IsParked, Parked
      <4> QED
        BY <2>2, <4>1, <4>2, <4>3 DEF SubmitDeps, Link, Dedup, ToPQueue, ToQueue, ToDelayed
    <3>3. StillReached(u) /\ ~Resolved(u) /\ pending[u] \subseteq Tasks
      BY <1>0, <1>2, <3>2 DEF ReachInv
    <3>4. ASSUME NEW d \in pending[u] PROVE Coming(u, d)'
      <4>0. d \in Tasks
        BY <3>3
      <4>1. Coming(u, d)
        BY <3>2, <3>3 DEF StillReached
      <4>2. ASSUME NEW e \in Tasks, Link(t, e) PROVE Coming(u, d)'
        <5>1. /\ dependents' = [dependents EXCEPT ![e] = @ \cup {t}]
              /\ unlinked' = [unlinked EXCEPT ![t] = @ \ {e}]
              /\ Visited(e) => t \in excused'
          BY <4>2 DEF Link
        <5>2. CASE d \in unlinked[u] /\ u = t /\ d = e
          <6>1. t \in dependents'[e] /\ ~Visited(e)'
            BY <1>0, <1>3, <5>1, <5>2 DEF Resolved, Doomed
          <6> QED
            BY <5>2, <6>1 DEF Coming
        <5>3. CASE d \in unlinked[u] /\ ~(u = t /\ d = e)
          BY <1>0, <4>0, <5>1, <5>3 DEF Coming
        <5>4. CASE u \in dependents[d] /\ ~Visited(d)
          BY <1>0, <1>3, <4>0, <5>1, <5>4 DEF Coming
        <5>5. CASE d \notin unlinked[u] /\ ~(u \in dependents[d] /\ ~Visited(d))
          BY <1>1, <4>1, <5>5 DEF Coming, WorkersCalm, InLoop
        <5> QED
          BY <5>2, <5>3, <5>4, <5>5
      <4>3. CASE ~\E e \in Tasks : Link(t, e)
        <5>1. dependents' = dependents /\ unlinked'[u] = unlinked[u]
          BY <1>0, <2>2, <4>3 DEF SubmitDeps, PlainStore, Store, StoreParked, Dedup, ToPQueue, ToQueue, ToDelayed, depVars
        <5> QED
          BY <1>1, <1>3, <4>0, <4>1, <5>1 DEF Coming, WorkersCalm, InLoop
      <4> QED
        BY <4>2, <4>3
    <3>5. pending[u] = {} => InHand(u)'
      BY <1>1, <3>2, <3>3 DEF StillReached, InHand, WorkersCalm
    <3> QED
      BY <3>1, <3>4, <3>5 DEF StillReached
  <2> QED
    BY <2>1, <2>2
<1>5. ASSUME NEW w \in Workers PROVE DealtWith(w)'
  <2>1. pc[w] \in {"c_clean", "f_clean"} => cur[w] \in Tasks /\ IsParked(cur[w])
    BY <1>0 DEF NarrowInv, LoopOf, CurPcs, OutTypes, DepTypes, LoopTypes
  <2> QED
    BY <1>1, <1>2, <2>1 DEF ReachInv, DealtWith, WorkersCalm
<1> QED
  BY <1>4, <1>5 DEF ReachInv

(* A step of neither forgets nobody.                                        *)
LEMMA EventReach ==
    ASSUME ReachInv, EventStep, NarrowInv'
    PROVE  ReachInv'
<1>0. /\ NarrowInv /\ fate \in [Tasks -> Fates] /\ data \in [Tasks -> Nat \cup {Missing, WrongType}]
      /\ pending \in [Tasks -> SUBSET Tasks]
  BY DEF ReachInv, NarrowInv, OutTypes, DepTypes, QueueTypes, SetTypes
<1>1. /\ WorkersCalm
      /\ UNCHANGED <<cpc, op, pending, dependents, unlinked, excused, runs>>
      /\ \A t \in Tasks : /\ fate[t] # "live" => fate'[t] = fate[t]
                          /\ fate'[t] # fate[t] => fate'[t] = "flushed"
                          /\ IsParked(t)' <=> IsParked(t)
  BY <1>0, EventCalm
<1>2. ASSUME NEW t \in Tasks PROVE Resolved(t) => Resolved(t)'
  <2>1. data'[t] = data[t] \/ data'[t] = Missing
    BY <1>0 DEF EventStep, MoveDue, MoveDelayed, MoveRetry, Expire, SetPause, Flush, allVars, vars, redisVars
  <2> QED
    BY <1>0, <1>1, <2>1, CalmResolved, EventPlaces
<1>3. ASSUME NEW t \in Tasks PROVE StillReached(t)'
  <2> SUFFICES ASSUME IsParked(t), ~Resolved(t)' PROVE StillReached(t)'
    BY <1>1 DEF StillReached
  <2>1. StillReached(t) /\ ~Resolved(t) /\ pending[t] \subseteq DependsOn[t] /\ DependsOn[t] \subseteq Tasks
    BY <1>0, <1>2, DependsOnAssumption DEF ReachInv, NarrowInv, CallOf
  <2>2. ASSUME NEW d \in pending[t] PROVE Coming(t, d)'
    <3>1. Coming(t, d) /\ d \in Tasks /\ ~Bad(d)'
      BY <2>1 DEF StillReached, Resolved, Doomed
    <3>2. fate'[d] = fate[d]
      BY <1>1, <3>1 DEF Bad
    <3>3. Visited(d)' <=> Visited(d)
      BY <1>1, <3>2 DEF Visited, WorkersCalm
    <3> QED
      BY <1>1, <3>1, <3>3 DEF Coming, WorkersCalm, InLoop
  <2>3. pending[t] = {} => InHand(t)'
    BY <1>1, <2>1 DEF StillReached, InHand, WorkersCalm
  <2> QED
    BY <1>1, <2>2, <2>3 DEF StillReached
<1>4. ASSUME NEW w \in Workers PROVE DealtWith(w)'
  <2>1. pc[w] \in {"c_clean", "f_clean"} => cur[w] \in Tasks
    BY <1>0 DEF NarrowInv, CurPcs, OutTypes, DepTypes, LoopTypes
  <2> QED
    BY <1>1, <1>2, <2>1 DEF ReachInv, DealtWith, WorkersCalm
<1> QED
  BY <1>3, <1>4 DEF ReachInv

(* No step forgets anybody.                                                 *)
LEMMA ReachStep ==
    ASSUME Undisturbed, ReachInv, [DepNext]_allVars
    PROVE  ReachInv'
<1>1. NarrowInv /\ NarrowInv'
  BY NarrowStep DEF ReachInv
<1> QED
  BY <1>1, StepKinds, SubmitReach, WorkerKinds, WorkerReach, EventReach

(* Nobody is forgotten initially.                                           *)
LEMMA ReachInit == DepInit => ReachInv
<1> SUFFICES ASSUME DepInit PROVE ReachInv
  OBVIOUS
<1> QED
  BY NarrowInit DEF DepInit, Init, ReachInv, StillReached, DealtWith, IsParked, Parked

(* A task that is placed has a place.                                       *)
LEMMA PlacedHasPlace == ASSUME NEW t \in Tasks PROVE Placed(t) => Places(t) # {}
<1>1. ASSUME NEW i \in DOMAIN queue, queue[i] = t PROVE <<"queue", i>> \in Places(t)
  BY <1>1 DEF Places
<1>2. ASSUME NEW w \in Workers, Holds(w, t) PROVE <<"worker", w>> \in Places(t)
  BY <1>2 DEF Places, HeldBy, Holds
<1>3. /\ t \in pqueue => <<"zset", "pqueue">> \in Places(t)
      /\ t \in delayed => <<"zset", "delayed">> \in Places(t)
      /\ t \in retry => <<"zset", "retry">> \in Places(t)
  BY DEF Places
<1> QED
  BY <1>1, <1>2, <1>3 DEF Placed, Waits, ItemsOf

(* A dependent that nobody comes to any more is lost for a known reason.    *)
LEMMA ReachMeans == ReachInv => StrandedForCause
<1> SUFFICES ASSUME ReachInv, NEW t \in Tasks,
                    Parked(t, op[t]), cpc[t] = "ok", fate[t] = "live", Places(t) = {},
                    \A d \in DependsOn[t] : ~StillVisited(t, d)
             PROVE  \/ t \in excused \/ data[t] = Missing
                    \/ \E d \in DependsOn[t] :
                          \/ fate[d] \in {"cancelled", "flushed", "abandoned", "unloadable"}
                          \/ fate[d] = "dead" /\ runs[d] = 0
  BY DEF StrandedForCause
<1>1. /\ IsParked(t) /\ ~Placed(t) /\ unlinked[t] = {} /\ pending[t] \subseteq DependsOn[t]
      /\ \A w \in Workers : LoopOf(w)
  BY PlacedHasPlace DEF IsParked, ReachInv, NarrowInv, CallOf
<1>2. ~\E w \in Workers : cur[w] = t /\ pc[w] \in CurPcs
  BY <1>1 DEF LoopOf, StillVisited
<1>3. ASSUME ~Resolved(t) PROVE FALSE
  <2>1. CASE pending[t] = {}
    BY <1>1, <1>2, <1>3, <2>1 DEF ReachInv, StillReached, InHand, CurPcs
  <2>2. ASSUME NEW d \in pending[t] PROVE FALSE
    BY <1>1, <1>3, <2>2 DEF ReachInv, StillReached, Coming, StillVisited
  <2> QED
    BY <2>1, <2>2
<1> QED
  BY <1>1, <1>2, <1>3 DEF Resolved, Doomed, Bad, CurPcs

(* However clients link late, loops break and workers die, a dependent that *)
(* is nowhere and that no worker will come to is there for one of the known *)
(* reasons, under the assumptions of NeverRunsEarly.                        *)
THEOREM OnlyStrandedForCause == ASSUME Undisturbed PROVE DepSpec => []StrandedForCause
<1>1. DepInit => ReachInv
  BY ReachInit
<1>2. ReachInv /\ [DepNext]_allVars => ReachInv'
  BY ReachStep
<1> QED
  BY <1>1, <1>2, ReachMeans, PTL DEF DepSpec

=============================================================================
