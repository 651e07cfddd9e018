-------------------------- MODULE TaskQueue_proofs --------------------------
(***************************************************************************)
(* Theorems of TaskQueue, for every number of tasks, workers and calls of   *)
(* cancel_task and every value of the other constants: the types, that no    *)
(* task is in two places, how often a handler starts; then what becomes of a *)
(* task, and that the queue implements TaskLifecycle.                        *)
(***************************************************************************)
EXTENDS TaskQueue, FiniteSetTheorems, WellFoundedInduction, TLAPS

(* The type invariant is inductive only with what the program counters of   *)
(* workers and administrators say of the task they hold.                    *)
HoldsTask ==
    /\ \A w \in Workers : pc[w] \in Holding \cup {"deps"} => hold[w] \in Tasks
    /\ \A a \in Admins : apc[a] \in CancelPcs => atask[a] \in Tasks

TypeInv == TypeOK /\ HoldsTask

-----------------------------------------------------------------------------
(* The queue operations as sets of items.                                  *)

Injective(s) == \A i, j \in DOMAIN s : s[i] = s[j] => i = j

(* RPUSH adds its argument, and keeps a list without repetitions one when   *)
(* the argument is new.                                                    *)
LEMMA AppendFacts ==
    ASSUME NEW s \in Seq(Tasks), NEW t \in Tasks
    PROVE  /\ Append(s, t) \in Seq(Tasks)
           /\ ItemsOf(Append(s, t)) = ItemsOf(s) \cup {t}
           /\ Injective(s) /\ t \notin ItemsOf(s) => Injective(Append(s, t))
<1>1. Append(s, t) \in Seq(Tasks)
  OBVIOUS
<1>2. /\ DOMAIN s = 1 .. Len(s) /\ Len(s) \in Nat
      /\ DOMAIN Append(s, t) = 1 .. Len(s) + 1
      /\ \A i \in 1 .. Len(s) : Append(s, t)[i] = s[i]
      /\ Append(s, t)[Len(s) + 1] = t
  OBVIOUS
<1>3. ItemsOf(Append(s, t)) \subseteq ItemsOf(s) \cup {t}
  BY <1>2, SMT DEF ItemsOf
<1>4. ItemsOf(s) \subseteq ItemsOf(Append(s, t)) /\ t \in ItemsOf(Append(s, t))
  BY <1>2, SMT DEF ItemsOf
<1>5. Injective(s) /\ t \notin ItemsOf(s) => Injective(Append(s, t))
  BY <1>2, SMT DEF ItemsOf, Injective
<1> QED
  BY <1>1, <1>3, <1>4, <1>5

(* BLPOP takes the head and leaves the rest, which no longer holds the head *)
(* when nothing was repeated.                                              *)
LEMMA PopFacts ==
    ASSUME NEW s \in Seq(Tasks), s # <<>>
    PROVE  /\ Head(s) \in Tasks /\ Head(s) \in ItemsOf(s)
           /\ Tail(s) \in Seq(Tasks)
           /\ ItemsOf(Tail(s)) \subseteq ItemsOf(s)
           /\ Injective(s) => Injective(Tail(s)) /\ Head(s) \notin ItemsOf(Tail(s))
<1>1. Len(s) \in Nat \ {0} /\ DOMAIN s = 1 .. Len(s) /\ Head(s) = s[1] /\ Head(s) \in Tasks
  OBVIOUS
<1>2. Tail(s) \in Seq(Tasks)
  OBVIOUS
<1>3. /\ DOMAIN Tail(s) = 1 .. Len(s) - 1
      /\ \A i \in 1 .. Len(s) - 1 : Tail(s)[i] = s[i + 1]
  BY <1>1
<1>4. Head(s) \in ItemsOf(s)
  BY <1>1 DEF ItemsOf
<1>5. ItemsOf(Tail(s)) \subseteq ItemsOf(s)
  BY <1>1, <1>3, SMT DEF ItemsOf
<1>6. Injective(s) => Injective(Tail(s)) /\ Head(s) \notin ItemsOf(Tail(s))
  BY <1>1, <1>3, SMT DEF ItemsOf, Injective
<1> QED
  BY <1>1, <1>2, <1>4, <1>5, <1>6

(* A set of numbers that has a member has a least one.                      *)
LEMMA LeastExists ==
    ASSUME NEW T \in SUBSET Nat, T # {}
    PROVE  \E m \in T : \A n \in T : m <= n
<1> DEFINE R == OpToRel(<, Nat)
<1>1. IsWellFoundedOn(R, Nat)
  BY NatLessThanWellFounded
<1>2. \A x, y \in Nat : x < y => <<x, y>> \in R
  BY DEF OpToRel
<1> HIDE DEF R
<1>3. PICK m \in T : \A n \in T : <<n, m>> \notin R
  BY <1>1, WFMin
<1>4. ASSUME NEW n \in T PROVE m <= n
  <2>1. ~(n < m)
    BY <1>2, <1>3
  <2> QED
    BY <2>1, SMT
<1> QED
  BY <1>4

(* LREM only removes: nothing appears and nothing is repeated that was not. *)
LEMMA LRemFacts ==
    ASSUME NEW s \in Seq(Tasks), NEW t \in Tasks
    PROVE  /\ LRem(s, t) \in Seq(Tasks)
           /\ ItemsOf(LRem(s, t)) \subseteq ItemsOf(s)
           /\ Injective(s) => Injective(LRem(s, t))
<1>1. CASE t \notin ItemsOf(s)
  BY <1>1 DEF LRem
<1>2. CASE t \in ItemsOf(s)
  <2> DEFINE k == CHOOSE i \in DOMAIN s : s[i] = t /\ \A j \in 1 .. i - 1 : s[j] # t
             r == [i \in 1 .. Len(s) - 1 |-> IF i < k THEN s[i] ELSE s[i + 1]]
  <2>1. LRem(s, t) = r
    BY <1>2 DEF LRem
  <2>2. Len(s) \in Nat \ {0} /\ DOMAIN s = 1 .. Len(s) /\ \A i \in 1 .. Len(s) : s[i] \in Tasks
    BY <1>2 DEF ItemsOf
  <2> HIDE DEF k
  <2>3. \A i \in 1 .. Len(s) - 1 : i \in 1 .. Len(s) /\ i + 1 \in 1 .. Len(s)
    BY <2>2, SMT
  <2>4. r \in [1 .. Len(s) - 1 -> Tasks]
    BY <2>2, <2>3
  <2>5. r \in Seq(Tasks)
    BY <2>2, <2>4, SMT
  <2>6. ItemsOf(r) \subseteq ItemsOf(s)
    BY <2>2, <2>3 DEF ItemsOf
  <2>7. Injective(s) => Injective(r)
    <3> SUFFICES ASSUME Injective(s), NEW i \in 1 .. Len(s) - 1, NEW j \in 1 .. Len(s) - 1,
                        r[i] = r[j]
                 PROVE  i = j
      BY DEF Injective
    <3> DEFINE at(n) == IF n < k THEN n ELSE n + 1
    <3>1. s[at(i)] = s[at(j)] /\ at(i) \in DOMAIN s /\ at(j) \in DOMAIN s
      BY <2>2, <2>3
    <3>2. at(i) = at(j)
      BY <3>1 DEF Injective
    <3>3. i \in Nat /\ j \in Nat
      BY <2>2, SMT
    <3> DEFINE T == {n \in DOMAIN s : s[n] = t}
    <3>4. PICK m \in T : \A n \in T : m <= n
      <4>1. T \in SUBSET Nat /\ T # {}
        BY <1>2, <2>2 DEF ItemsOf
      <4> QED
        BY <4>1, LeastExists
    <3>5. m \in DOMAIN s /\ s[m] = t /\ \A n \in 1 .. m - 1 : s[n] # t
      BY <2>2, <3>4, SMT
    <3>6. k \in Nat
      BY <2>2, <3>5 DEF k
    <3> QED
      BY <3>2, <3>3, <3>6, SMT
  <2> QED
    BY <2>1, <2>5, <2>6, <2>7
<1> QED
  BY <1>1, <1>2

(* The LREM of the counted lists.                                          *)
LEMMA LRemCountType ==
    ASSUME NEW f \in [Tasks -> Nat], NEW t \in Tasks
    PROVE  LRemCount(f, t) \in [Tasks -> Nat]
  BY DEF LRemCount

-----------------------------------------------------------------------------
(* Type correctness.                                                       *)

LEMMA TypeInit == Init => TypeInv
<1> SUFFICES ASSUME Init PROVE TypeInv
  OBVIOUS
<1>1. queue \in Seq(Tasks)
  BY DEF Init
<1>2. TypeOK
  BY <1>1 DEF Init, TypeOK, WorkerPcs, Fates
<1>3. HoldsTask
  BY DEF Init, HoldsTask, Holding, CancelPcs
<1> QED
  BY <1>2, <1>3 DEF TypeInv

LEMMA SettleType ==
    ASSUME fate \in [Tasks -> Fates], NEW t \in Tasks, NEW why \in Fates, Settle(t, why)
    PROVE  fate' \in [Tasks -> Fates]
<1>1. fate' = [fate EXCEPT ![t] = IF fate[t] = "live" THEN why ELSE fate[t]]
  BY DEF Settle
<1>2. (IF fate[t] = "live" THEN why ELSE fate[t]) \in Fates
  OBVIOUS
<1> QED
  BY <1>1, <1>2

LEMMA TypeStep == TypeInv /\ [Next]_vars => TypeInv'
<1> SUFFICES ASSUME TypeInv, [Next]_vars PROVE TypeInv'
  OBVIOUS
<1> USE ConstantsAssumption DEF TypeInv, TypeOK, HoldsTask, redisVars, clientVars, workerVars,
        adminVars, histVars, Missing, WrongType, Holding, WorkerPcs, CancelPcs, RequeuePcs,
        SubmitOps, Fates
<1>1. ASSUME NEW t \in Tasks, NEW o \in Ops, Store(t, o) PROVE TypeInv'
  BY <1>1 DEF Store
<1>2. ASSUME NEW t \in Tasks, Dedup(t) PROVE TypeInv'
  BY <1>2 DEF Dedup
<1>3. ASSUME NEW t \in Tasks, ToPQueue(t) PROVE TypeInv'
  BY <1>3 DEF ToPQueue
<1>4. ASSUME NEW t \in Tasks, ToQueue(t) PROVE TypeInv'
  BY <1>4, AppendFacts DEF ToQueue
<1>5. ASSUME NEW t \in Tasks, ToDelayed(t) PROVE TypeInv'
  BY <1>5 DEF ToDelayed
<1>6. ASSUME NEW t \in Tasks, MoveDelayed(t) PROVE TypeInv'
  BY <1>6, AppendFacts DEF MoveDelayed
<1>7. ASSUME NEW t \in Tasks, MoveRetry(t) PROVE TypeInv'
  BY <1>7, AppendFacts DEF MoveRetry
<1>8. ASSUME NEW t \in Tasks, Expire(t) PROVE TypeInv'
  BY <1>8 DEF Expire
<1>9. ASSUME NEW w \in Workers, PDequeue(w) PROVE TypeInv'
  <2>1. CASE pqueue' = pqueue /\ active' = active /\ hold' = hold /\ pc' = [pc EXCEPT ![w] = "check"]
    BY <1>9, <2>1 DEF PDequeue
  <2>2. ASSUME NEW t \in Tasks,
               pqueue' = pqueue \ {t}, active' = [active EXCEPT ![t] = @ + 1],
               hold' = [hold EXCEPT ![w] = t], pc' = [pc EXCEPT ![w] = "pload"]
        PROVE  TypeInv'
    BY <1>9, <2>2 DEF PDequeue
  <2> QED
    BY <1>9, <2>1, <2>2 DEF PDequeue
<1>10. ASSUME NEW w \in Workers, CheckPause(w) PROVE TypeInv'
  BY <1>10 DEF CheckPause
<1>11. ASSUME NEW w \in Workers, BlPop(w) PROVE TypeInv'
  <2>1. CASE queue # <<>>
    <3>1. Head(queue) \in Tasks /\ Tail(queue) \in Seq(Tasks)
      BY <2>1, PopFacts
    <3>2. /\ hold' = [hold EXCEPT ![w] = Head(queue)] /\ queue' = Tail(queue)
          /\ pc' = [pc EXCEPT ![w] = "popped"]
          /\ took' = [took EXCEPT ![w] = IF paused THEN took[w] + 1 ELSE took[w]]
          /\ UNCHANGED <<pqueue, delayed, retry, active, dead, dedup, data, paused, cnt, out,
                         cpc, op, apc, atask, runs, fate>>
      BY <1>11, <2>1 DEF BlPop
    <3>3. took' \in [Workers -> Nat] /\ pc' \in [Workers -> WorkerPcs]
      BY <3>2
    <3>4. hold' \in [Workers -> Tasks \cup {NoTask}]
      BY <3>1, <3>2
    <3>5. HoldsTask'
      BY <3>1, <3>2
    <3> QED
      BY <3>1, <3>2, <3>3, <3>4, <3>5
  <2>2. CASE queue = <<>>
    <3>1. pc' = [pc EXCEPT ![w] = "idle"] /\ queue' = queue /\ hold' = hold /\ took' = took
      BY <1>11, <2>2 DEF BlPop
    <3>2. UNCHANGED <<pqueue, delayed, retry, active, dead, dedup, data, paused, cnt, out,
                      cpc, op, apc, atask, runs, fate>>
      BY <1>11 DEF BlPop
    <3> QED
      BY <3>1, <3>2
  <2> QED
    BY <2>1, <2>2
<1>12. ASSUME NEW w \in Workers, PushActive(w) PROVE TypeInv'
  <2>1. hold[w] \in Tasks
    BY <1>12 DEF PushActive
  <2>2. active' \in [Tasks -> Nat]
    BY <1>12, <2>1 DEF PushActive
  <2> QED
    BY <1>12, <2>1, <2>2 DEF PushActive
<1>13. ASSUME NEW w \in Workers, Load(w) PROVE TypeInv'
  <2>1. hold[w] \in Tasks
    BY <1>13 DEF Load
  <2> DEFINE d == data[hold[w]]
  <2>a. d \in Nat \cup {-1, -2}
    BY <2>1
  <2> HIDE DEF d
  <2>b. (d >= 0 => d \in Nat /\ ~(d < 0)) /\ (d < 0 => ~(d >= 0)) /\ (d >= 0 \/ d < 0)
    BY <2>a, SMT
  <2> USE DEF d
  <2>2. CASE data[hold[w]] >= 0
    <3>1. data[hold[w]] \in Nat
      BY <2>b, <2>2
    <3>2. ~(data[hold[w]] < 0)
      BY <2>b, <2>2
    <3>3. /\ cnt' = [cnt EXCEPT ![w] = data[hold[w]]] /\ pc' = [pc EXCEPT ![w] = "before"]
          /\ UNCHANGED <<redisVars, clientVars, hold, out, adminVars, histVars>>
      BY <1>13, <3>2 DEF Load
    <3> QED
      BY <2>1, <3>1, <3>3
  <2>3. CASE data[hold[w]] < 0
    <3>1. ~(data[hold[w]] >= 0)
      BY <2>b, <2>3
    <3>2. /\ Release(w, IF pc[w] = "pload" THEN "check" ELSE "idle")
          /\ Settle(hold[w], "unloadable")
          /\ UNCHANGED <<redisVars, clientVars, adminVars, runs, took>>
      BY <1>13, <3>1 DEF Load
    <3>3. fate' \in [Tasks -> Fates]
      BY <2>1, <3>2, SettleType
    <3> QED
      BY <3>2, <3>3 DEF Release
  <2> QED
    BY <2>b, <2>2, <2>3
<1>14. ASSUME NEW w \in Workers, Start(w) PROVE TypeInv'
  BY <1>14 DEF Start
<1>15. ASSUME NEW w \in Workers, Succeed(w) PROVE TypeInv'
  BY <1>15 DEF Succeed
<1>16. ASSUME NEW w \in Workers, Fail(w) PROVE TypeInv'
  <2>1. /\ pc' \in [Workers -> WorkerPcs] /\ cnt' \in [Workers -> Nat]
        /\ out' \in [Workers -> {"none", "Processed", "Retry", "Dead"}]
    BY <1>16 DEF Fail
  <2>2. \A v \in Workers : pc'[v] \in Holding \cup {"deps"} => hold'[v] \in Tasks
    BY <1>16 DEF Fail
  <2> QED
    BY <1>16, <2>1, <2>2 DEF Fail
<1>17. ASSUME NEW w \in Workers, AckRemove(w) PROVE TypeInv'
  BY <1>17, LRemCountType DEF AckRemove
<1>18. ASSUME NEW w \in Workers, AckStore(w) PROVE TypeInv'
  <2>1. hold[w] \in Tasks
    BY <1>18 DEF AckStore
  <2>2. data' \in [Tasks -> Nat \cup {Missing, WrongType}]
    BY <1>18, <2>1 DEF AckStore
  <2>3. fate' \in [Tasks -> Fates]
    BY <1>18, <2>1, SettleType DEF AckStore
  <2> QED
    BY <1>18, <2>1, <2>2, <2>3 DEF AckStore
<1>19. ASSUME NEW w \in Workers, ScheduleRetry(w) PROVE TypeInv'
  BY <1>19 DEF ScheduleRetry, Release
<1>20. ASSUME NEW w \in Workers, BeforeFails(w) PROVE TypeInv'
  BY <1>20 DEF BeforeFails, Release, Settle
<1>21. ASSUME NEW w \in Workers, Abandon(w) PROVE TypeInv'
  BY <1>21 DEF Abandon, Release, Settle
<1>22. ASSUME NEW w \in Workers, NoDependents(w) PROVE TypeInv'
  BY <1>22 DEF NoDependents, Release
<1>23. ASSUME NEW a \in Admins, NEW t \in Tasks, StartCancel(a, t) PROVE TypeInv'
  BY <1>23 DEF StartCancel, Call
<1>24. ASSUME NEW a \in Admins, CancelStep(a) PROVE TypeInv'
  <2>1. atask[a] \in Tasks
    BY <1>24 DEF CancelStep, NextPlace
  <2>2. queue' \in Seq(Tasks)
    BY <1>24, <2>1, LRemFacts DEF CancelStep
  <2>3. active' \in [Tasks -> Nat] /\ dead' \in [Tasks -> Nat]
    BY <1>24, <2>1, LRemCountType DEF CancelStep
  <2>4. fate' \in [Tasks -> Fates]
    BY <1>24, <2>1, SettleType DEF CancelStep
  <2>5. PICK next \in CancelPcs \cup {"returned"} : Call(a, next, atask[a])
    <3>1. apc[a] \in DOMAIN NextPlace /\ NextPlace[apc[a]] \in CancelPcs \cup {"returned"}
      BY <1>24 DEF CancelStep, NextPlace
    <3> QED
      BY <1>24, <3>1 DEF CancelStep
  <2>6. /\ apc' \in [Admins -> CancelPcs \cup RequeuePcs \cup {"idle", "returned"}]
        /\ atask' \in [Admins -> Tasks \cup {NoTask}]
        /\ \A c \in Admins : apc'[c] \in CancelPcs => atask'[c] \in Tasks
    BY <2>1, <2>5 DEF Call
  <2>7. /\ pqueue' \subseteq Tasks /\ delayed' \subseteq Tasks /\ retry' \subseteq Tasks
        /\ UNCHANGED <<dedup, data, paused, cpc, op, pc, hold, cnt, out, runs, took>>
    BY <1>24 DEF CancelStep
  <2> QED
    BY <2>2, <2>3, <2>4, <2>6, <2>7
<1>25. ASSUME NEW a \in Admins, CancelClean(a) PROVE TypeInv'
  <2>1. atask[a] \in Tasks
    BY <1>25 DEF CancelClean
  <2>2. data' \in [Tasks -> Nat \cup {Missing, WrongType}]
    BY <1>25, <2>1 DEF CancelClean
  <2>3. PICK next \in {"returned", "unique"} : Call(a, next, atask[a])
    BY <1>25 DEF CancelClean
  <2> QED
    BY <1>25, <2>1, <2>2, <2>3 DEF CancelClean, Call
<1>26. ASSUME NEW a \in Admins, CancelUnique(a) PROVE TypeInv'
  BY <1>26 DEF CancelUnique, Call
<1>27. ASSUME NEW b \in BOOLEAN, SetPause(b) PROVE TypeInv'
  BY <1>27 DEF SetPause
<1>28. CASE Flush
  BY <1>28 DEF Flush
<1>29. CASE UNCHANGED vars
  BY <1>29 DEF vars
<1> QED
  BY <1>1, <1>2, <1>3, <1>4, <1>5, <1>6, <1>7, <1>8, <1>9, <1>10, <1>11, <1>12, <1>13, <1>14, <1>15, <1>16, <1>17, <1>18, <1>19, <1>20, <1>21, <1>22, <1>23, <1>24, <1>25, <1>26, <1>27, <1>28, <1>29 DEF Next, Core, Submit, Take, Process, Ack, Cancel

(* Every variable keeps its type, and whoever works on a task holds one.    *)
THEOREM TypeCorrect == Spec => []TypeOK
<1>1. Init => TypeInv
  BY TypeInit
<1>2. TypeInv /\ [Next]_vars => TypeInv'
  BY TypeStep
<1>3. TypeInv => TypeOK
  BY DEF TypeInv
<1> QED
  BY <1>1, <1>2, <1>3, PTL DEF Spec

-----------------------------------------------------------------------------
(* A task is in one place.                                                 *)

Waits(t) == t \in ItemsOf(queue) \cup pqueue \cup delayed \cup retry
Holds(w, t) == hold[w] = t /\ pc[w] \in Holding

(* The client has not yet made the task visible.                           *)
Unseen(t) == cpc[t] \in {"new", "push"} \/ (cpc[t] = "dedup" /\ op[t] = "enqueue")

(* SingleCopy by container, and with what makes it inductive: a task that   *)
(* the client has not pushed yet is nowhere.                                *)
QueueOnce == Injective(queue)
ContainersApart ==
    \A t \in Tasks :
        /\ t \in ItemsOf(queue) => t \notin pqueue \cup delayed \cup retry
        /\ t \in pqueue => t \notin delayed \cup retry
        /\ t \in delayed => t \notin retry
HeldNotWaiting == \A t \in Tasks, w \in Workers : Holds(w, t) => ~Waits(t)
OneHolder == \A t \in Tasks : \A v, w \in Workers : Holds(v, t) /\ Holds(w, t) => v = w
UnseenNowhere == \A t \in Tasks : Unseen(t) => ~Waits(t) /\ \A w \in Workers : ~Holds(w, t)

CopyInv == QueueOnce /\ ContainersApart /\ HeldNotWaiting /\ OneHolder /\ UnseenNowhere

LEMMA CopyInit == Init => CopyInv
<1> SUFFICES ASSUME Init PROVE CopyInv
  OBVIOUS
<1>1. ItemsOf(queue) = {} /\ Injective(queue)
  BY DEF Init, ItemsOf, Injective
<1>2. \A w \in Workers, t \in Tasks : ~Holds(w, t)
  BY DEF Init, Holds, Holding
<1> QED
  BY <1>1, <1>2 DEF Init, CopyInv, QueueOnce, ContainersApart, HeldNotWaiting, OneHolder,
     UnseenNowhere, Waits

(* A step that puts no task into a container or a hand, and submits none,   *)
(* preserves the invariant.                                                *)
LEMMA CopyShrink ==
    ASSUME CopyInv,
           Injective(queue'), ItemsOf(queue') \subseteq ItemsOf(queue),
           pqueue' \subseteq pqueue, delayed' \subseteq delayed, retry' \subseteq retry,
           \A w \in Workers, t \in Tasks : Holds(w, t)' => Holds(w, t),
           \A t \in Tasks : Unseen(t)' => Unseen(t)
    PROVE  CopyInv'
<1>1. \A t \in Tasks : Waits(t)' => Waits(t)
  BY DEF Waits
<1>2. QueueOnce' /\ ContainersApart'
  BY DEF CopyInv, QueueOnce, ContainersApart
<1>3. HeldNotWaiting'
  BY <1>1 DEF CopyInv, HeldNotWaiting
<1>4. OneHolder'
  BY DEF CopyInv, OneHolder
<1>5. UnseenNowhere'
  BY <1>1 DEF CopyInv, UnseenNowhere
<1> QED
  BY <1>2, <1>3, <1>4, <1>5 DEF CopyInv

(* A task that was nowhere but in `from`, and that is now nowhere but in    *)
(* `to`, while no other task moved: every way in which a task changes hands.*)
LEMMA CopyMove ==
    ASSUME CopyInv, NEW t \in Tasks,
           QueueOnce', ContainersApart', HeldNotWaiting', OneHolder', ~Unseen(t)',
           \A u \in Tasks \ {t} : Unseen(u)' => Unseen(u),
           \A u \in Tasks \ {t} : Waits(u)' => Waits(u),
           \A u \in Tasks \ {t}, w \in Workers : Holds(w, u)' => Holds(w, u)
    PROVE  CopyInv'
  BY DEF CopyInv, UnseenNowhere

(* The steps that leave every container alone.                              *)
Quiet ==
    \/ \E t \in Tasks : (\E o \in Ops : Store(t, o)) \/ Dedup(t) \/ Expire(t)
    \/ \E w \in Workers :
          \/ CheckPause(w) \/ PushActive(w) \/ Load(w) \/ Process(w) \/ AckRemove(w)
          \/ AckStore(w) \/ BeforeFails(w) \/ Abandon(w) \/ NoDependents(w)
    \/ \E a \in Admins : (\E t \in Tasks : StartCancel(a, t)) \/ CancelClean(a) \/ CancelUnique(a)
    \/ \E b \in BOOLEAN : SetPause(b)
    \/ UNCHANGED vars

LEMMA QuietStep == TypeInv /\ CopyInv /\ Quiet => CopyInv'
<1> SUFFICES ASSUME TypeInv, CopyInv, Quiet PROVE CopyInv'
  OBVIOUS
<1> DEFINE Same == UNCHANGED <<queue, pqueue, delayed, retry>>
           Hands == \A w \in Workers, t \in Tasks : Holds(w, t)' => Holds(w, t)
           Calls == \A t \in Tasks : Unseen(t)' => Unseen(t)
<1> USE DEF TypeInv, TypeOK, redisVars, clientVars, workerVars, adminVars, histVars, Holds, Unseen,
        Holding, WorkerPcs
<1>1. ASSUME NEW t \in Tasks, NEW o \in Ops, Store(t, o) PROVE Same /\ Hands /\ Calls
  BY <1>1 DEF Store
<1>2. ASSUME NEW t \in Tasks, Dedup(t) PROVE Same /\ Hands /\ Calls
  BY <1>2 DEF Dedup
<1>3. ASSUME NEW t \in Tasks, Expire(t) PROVE Same /\ Hands /\ Calls
  BY <1>3 DEF Expire
<1>4. ASSUME NEW w \in Workers, CheckPause(w) PROVE Same /\ Hands /\ Calls
  BY <1>4 DEF CheckPause
<1>5. ASSUME NEW w \in Workers, PushActive(w) PROVE Same /\ Hands /\ Calls
  BY <1>5 DEF PushActive
<1>6. ASSUME NEW w \in Workers, Load(w) PROVE Same /\ Hands /\ Calls
  BY <1>6 DEF Load, Release
<1>7. ASSUME NEW w \in Workers, Start(w) PROVE Same /\ Hands /\ Calls
  BY <1>7 DEF Start
<1>8. ASSUME NEW w \in Workers, Succeed(w) PROVE Same /\ Hands /\ Calls
  BY <1>8 DEF Succeed
<1>9. ASSUME NEW w \in Workers, Fail(w) PROVE Same /\ Hands /\ Calls
  BY <1>9 DEF Fail
<1>10. ASSUME NEW w \in Workers, AckRemove(w) PROVE Same /\ Hands /\ Calls
  BY <1>10 DEF AckRemove
<1>11. ASSUME NEW w \in Workers, AckStore(w) PROVE Same /\ Hands /\ Calls
  BY <1>11 DEF AckStore
<1>12. ASSUME NEW w \in Workers, BeforeFails(w) PROVE Same /\ Hands /\ Calls
  BY <1>12 DEF BeforeFails, Release
<1>13. ASSUME NEW w \in Workers, Abandon(w) PROVE Same /\ Hands /\ Calls
  BY <1>13 DEF Abandon, Release
<1>14. ASSUME NEW w \in Workers, NoDependents(w) PROVE Same /\ Hands /\ Calls
  BY <1>14 DEF NoDependents, Release
<1>15. ASSUME NEW a \in Admins, NEW t \in Tasks, StartCancel(a, t) PROVE Same /\ Hands /\ Calls
  BY <1>15 DEF StartCancel
<1>16. ASSUME NEW a \in Admins, CancelClean(a) PROVE Same /\ Hands /\ Calls
  BY <1>16 DEF CancelClean
<1>17. ASSUME NEW a \in Admins, CancelUnique(a) PROVE Same /\ Hands /\ Calls
  BY <1>17 DEF CancelUnique
<1>18. ASSUME NEW b \in BOOLEAN, SetPause(b) PROVE Same /\ Hands /\ Calls
  BY <1>18 DEF SetPause
<1>19. ASSUME UNCHANGED vars PROVE Same /\ Hands /\ Calls
  BY <1>19 DEF vars
<1> HIDE DEF TypeInv, TypeOK, redisVars, clientVars, workerVars, adminVars, histVars, Holds, Unseen,
        Holding, WorkerPcs
<1>20. Same /\ Hands /\ Calls
  BY <1>1, <1>2, <1>3, <1>4, <1>5, <1>6, <1>7, <1>8, <1>9, <1>10, <1>11, <1>12, <1>13, <1>14, <1>15, <1>16, <1>17, <1>18, <1>19 DEF Quiet, Process
<1>21. Injective(queue') /\ ItemsOf(queue') \subseteq ItemsOf(queue)
  BY <1>20 DEF CopyInv, QueueOnce
<1> QED
  BY <1>20, <1>21, CopyShrink

(* The steps that only remove.                                             *)
LEMMA FlushStep == TypeInv /\ CopyInv /\ Flush => CopyInv'
<1> SUFFICES ASSUME TypeInv, CopyInv, Flush PROVE CopyInv'
  OBVIOUS
<1>1. ItemsOf(queue') = {} /\ Injective(queue')
  BY DEF Flush, ItemsOf, Injective
<1> QED
  BY <1>1, CopyShrink DEF Flush, Holds, Unseen, workerVars, clientVars

LEMMA CancelShrinks ==
    ASSUME TypeInv, CopyInv, NEW a \in Admins, CancelStep(a)
    PROVE  CopyInv'
<1>1. atask[a] \in Tasks
  BY DEF TypeInv, HoldsTask, CancelStep, NextPlace, CancelPcs
<1>2. Injective(queue') /\ ItemsOf(queue') \subseteq ItemsOf(queue)
  BY <1>1, LRemFacts DEF CancelStep, TypeInv, TypeOK, CopyInv, QueueOnce
<1>3. pqueue' \subseteq pqueue /\ delayed' \subseteq delayed /\ retry' \subseteq retry
  BY DEF CancelStep
<1>4. UNCHANGED <<pc, hold, cpc, op>>
  BY DEF CancelStep, workerVars, clientVars
<1> QED
  BY <1>2, <1>3, <1>4, CopyShrink DEF Holds, Unseen

-----------------------------------------------------------------------------
(* The steps that move a task.                                             *)

(* A task that nobody holds and that waits nowhere goes to one container.   *)
LEMMA PushedOnce ==
    ASSUME TypeInv, CopyInv, NEW t \in Tasks, ~Waits(t), \A w \in Workers : ~Holds(w, t)',
           \/ queue' = Append(queue, t) /\ UNCHANGED <<pqueue, delayed, retry>>
           \/ pqueue' = pqueue \cup {t} /\ UNCHANGED <<queue, delayed, retry>>
           \/ delayed' = delayed \cup {t} /\ UNCHANGED <<queue, pqueue, retry>>
           \/ retry' = retry \cup {t} /\ UNCHANGED <<queue, pqueue, delayed>>,
           \A u \in Tasks, w \in Workers : Holds(w, u)' => Holds(w, u),
           \A u \in Tasks \ {t} : Unseen(u)' => Unseen(u),
           ~Unseen(t)'
    PROVE  CopyInv'
<1>1. QueueOnce' /\ ItemsOf(queue') \subseteq ItemsOf(queue) \cup {t}
  <2>1. CASE queue' = Append(queue, t)
    BY <2>1, AppendFacts DEF TypeInv, TypeOK, CopyInv, QueueOnce, Waits
  <2>2. CASE queue' = queue
    BY <2>2 DEF CopyInv, QueueOnce
  <2> QED
    BY <2>1, <2>2
<1>2. queue' = queue \/ UNCHANGED <<pqueue, delayed, retry>>
  OBVIOUS
<1>3. \A u \in Tasks \ {t} : Waits(u)' => Waits(u)
  BY <1>1 DEF Waits
<1>4. ContainersApart'
  BY <1>1 DEF CopyInv, ContainersApart, Waits
<1>5. HeldNotWaiting' /\ OneHolder'
  BY <1>3 DEF CopyInv, HeldNotWaiting, OneHolder
<1> QED
  BY <1>1, <1>3, <1>4, <1>5, CopyMove

(* A waiting task is taken out of its container by one worker.              *)
LEMMA TakenOnce ==
    ASSUME TypeInv, CopyInv, NEW t \in Tasks, NEW w \in Workers, Waits(t), ~Waits(t)',
           Injective(queue'), ItemsOf(queue') \subseteq ItemsOf(queue),
           pqueue' \subseteq pqueue, delayed' \subseteq delayed, retry' \subseteq retry,
           \A v \in Workers, u \in Tasks : Holds(v, u)' => Holds(v, u) \/ (v = w /\ u = t),
           UNCHANGED <<cpc, op>>
    PROVE  CopyInv'
<1>1. \A u \in Tasks : Waits(u)' => Waits(u)
  BY DEF Waits
<1>2. QueueOnce' /\ ContainersApart'
  BY DEF CopyInv, QueueOnce, ContainersApart
<1>3. HeldNotWaiting' /\ OneHolder'
  BY <1>1 DEF CopyInv, HeldNotWaiting, OneHolder
<1>4. \A u \in Tasks : Unseen(u)' <=> Unseen(u)
  BY DEF Unseen
<1>5. ~Unseen(t)
  BY DEF CopyInv, UnseenNowhere
<1> QED
  BY <1>1, <1>2, <1>3, <1>4, <1>5, CopyMove

(* A task that is due goes from its ZSet to the queue.                      *)
LEMMA DueOnce ==
    ASSUME TypeInv, CopyInv, NEW t \in Tasks, t \in delayed \cup retry,
           queue' = Append(queue, t), pqueue' = pqueue,
           delayed' = delayed \ {t}, retry' = retry \ {t},
           UNCHANGED <<pc, hold, cpc, op>>
    PROVE  CopyInv'
<1>1. t \notin ItemsOf(queue) /\ t \notin pqueue /\ Waits(t)
  BY DEF CopyInv, ContainersApart, Waits
<1>2. QueueOnce' /\ ItemsOf(queue') = ItemsOf(queue) \cup {t}
  BY <1>1, AppendFacts DEF TypeInv, TypeOK, CopyInv, QueueOnce
<1>3. \A u \in Tasks : Waits(u)' <=> Waits(u)
  BY <1>1, <1>2 DEF Waits
<1>4. \A u \in Tasks : /\ Unseen(u)' <=> Unseen(u)
                      /\ \A w \in Workers : Holds(w, u)' <=> Holds(w, u)
  BY DEF Unseen, Holds
<1>5. ContainersApart'
  BY <1>1, <1>2 DEF CopyInv, ContainersApart
<1>6. HeldNotWaiting' /\ OneHolder' /\ UnseenNowhere'
  BY <1>3, <1>4 DEF CopyInv, HeldNotWaiting, OneHolder, UnseenNowhere
<1> QED
  BY <1>2, <1>5, <1>6 DEF CopyInv

LEMMA CopyStep == TypeInv /\ CopyInv /\ [Next]_vars => CopyInv'
<1> SUFFICES ASSUME TypeInv, CopyInv, [Next]_vars PROVE CopyInv'
  OBVIOUS
<1>1. ASSUME NEW t \in Tasks, ToPQueue(t) \/ ToQueue(t) \/ ToDelayed(t) PROVE CopyInv'
  <2>1. Unseen(t) /\ UNCHANGED <<pc, hold, op, retry>>
    BY <1>1 DEF ToPQueue, ToQueue, ToDelayed, Unseen, workerVars
  <2>2. ~Waits(t) /\ \A w \in Workers : ~Holds(w, t)
    BY <2>1 DEF CopyInv, UnseenNowhere
  <2>3. /\ cpc' = [cpc EXCEPT ![t] = cpc'[t]] /\ cpc'[t] \in {"ok", "dedup"}
        /\ cpc'[t] = "dedup" => op[t] # "enqueue"
    BY <1>1 DEF ToPQueue, ToQueue, ToDelayed, TypeInv, TypeOK
  <2>4. ~Unseen(t)' /\ \A u \in Tasks \ {t} : Unseen(u)' => Unseen(u)
    BY <2>1, <2>3 DEF Unseen, TypeInv, TypeOK
  <2>5. \A w \in Workers, u \in Tasks : Holds(w, u)' <=> Holds(w, u)
    BY <2>1 DEF Holds
  <2>6. \/ queue' = Append(queue, t) /\ UNCHANGED <<pqueue, delayed, retry>>
        \/ pqueue' = pqueue \cup {t} /\ UNCHANGED <<queue, delayed, retry>>
        \/ delayed' = delayed \cup {t} /\ UNCHANGED <<queue, pqueue, retry>>
    BY <1>1 DEF ToPQueue, ToQueue, ToDelayed
  <2> QED
    BY <2>2, <2>4, <2>5, <2>6, PushedOnce
<1>2. ASSUME NEW w \in Workers, ScheduleRetry(w) PROVE CopyInv'
  <2>0. PICK t \in Tasks : t = hold[w]
    BY <1>2 DEF ScheduleRetry, TypeInv, HoldsTask, Holding
  <2>1. Holds(w, t)
    BY <1>2, <2>0 DEF ScheduleRetry, Holding, Holds
  <2>2. ~Waits(t) /\ ~Unseen(t)
    BY <2>1 DEF CopyInv, HeldNotWaiting, UnseenNowhere
  <2>3. \A v \in Workers, u \in Tasks : Holds(v, u)' => Holds(v, u) /\ v # w
    BY <1>2 DEF ScheduleRetry, Release, Holds, Holding, TypeInv, TypeOK
  <2>4. \A v \in Workers : ~Holds(v, t)'
    BY <2>1, <2>3 DEF CopyInv, OneHolder
  <2>5. /\ retry' = retry \cup {t} /\ UNCHANGED <<queue, pqueue, delayed, cpc, op>>
    BY <1>2, <2>0 DEF ScheduleRetry, clientVars
  <2>6. \A u \in Tasks : Unseen(u)' <=> Unseen(u)
    BY <2>5 DEF Unseen
  <2> QED
    BY <2>1, <2>2, <2>3, <2>4, <2>5, <2>6, PushedOnce
<1>3. ASSUME NEW t \in Tasks, MoveDelayed(t) \/ MoveRetry(t) PROVE CopyInv'
  <2>1. t \in delayed \cup retry /\ (t \in delayed => t \notin retry)
    BY <1>3 DEF MoveDelayed, MoveRetry, CopyInv, ContainersApart
  <2>2. /\ queue' = Append(queue, t) /\ pqueue' = pqueue
        /\ delayed' = delayed \ {t} /\ retry' = retry \ {t}
        /\ UNCHANGED <<pc, hold, cpc, op>>
    BY <1>3, <2>1 DEF MoveDelayed, MoveRetry, clientVars, workerVars
  <2> QED
    BY <2>1, <2>2, DueOnce
<1>4. ASSUME NEW w \in Workers, PDequeue(w) PROVE CopyInv'
  <2>1. UNCHANGED <<queue, delayed, retry, cpc, op>>
    BY <1>4 DEF PDequeue, clientVars
  <2>2. CASE pqueue' = pqueue /\ hold' = hold /\ pc' = [pc EXCEPT ![w] = "check"]
    <3>1. \A v \in Workers, u \in Tasks : Holds(v, u)' => Holds(v, u)
      BY <2>2 DEF Holds, Holding, TypeInv, TypeOK
    <3>2. \A u \in Tasks : Unseen(u)' <=> Unseen(u)
      BY <2>1 DEF Unseen
    <3> QED
      BY <2>1, <2>2, <3>1, <3>2, CopyShrink DEF CopyInv, QueueOnce
  <2>3. ASSUME NEW t \in pqueue, pqueue' = pqueue \ {t}, hold' = [hold EXCEPT ![w] = t],
               pc' = [pc EXCEPT ![w] = "pload"]
        PROVE  CopyInv'
    <3>1. t \in Tasks /\ Waits(t) /\ ~Waits(t)'
      BY <2>1, <2>3 DEF TypeInv, TypeOK, Waits, CopyInv, ContainersApart
    <3>2. \A v \in Workers, u \in Tasks : Holds(v, u)' => Holds(v, u) \/ (v = w /\ u = t)
      BY <2>3 DEF Holds, TypeInv, TypeOK
    <3> QED
      BY <2>1, <2>3, <3>1, <3>2, TakenOnce DEF CopyInv, QueueOnce
  <2> QED
    BY <1>4, <2>2, <2>3 DEF PDequeue
<1>5. ASSUME NEW w \in Workers, BlPop(w) PROVE CopyInv'
  <2>1. UNCHANGED <<pqueue, delayed, retry, cpc, op>>
    BY <1>5 DEF BlPop, clientVars
  <2>2. CASE queue = <<>>
    <3>1. queue' = queue /\ hold' = hold /\ pc' = [pc EXCEPT ![w] = "idle"]
      BY <1>5, <2>2 DEF BlPop
    <3>2. \A v \in Workers, u \in Tasks : Holds(v, u)' => Holds(v, u)
      BY <3>1 DEF Holds, Holding, TypeInv, TypeOK
    <3>3. \A u \in Tasks : Unseen(u)' <=> Unseen(u)
      BY <2>1 DEF Unseen
    <3> QED
      BY <2>1, <3>1, <3>2, <3>3, CopyShrink DEF CopyInv, QueueOnce
  <2>3. CASE queue # <<>>
    <3>0. PICK t \in Tasks : t = Head(queue)
      BY <2>3, PopFacts DEF TypeInv, TypeOK
    <3>1. /\ t \in ItemsOf(queue)
          /\ ItemsOf(Tail(queue)) \subseteq ItemsOf(queue)
          /\ Injective(Tail(queue)) /\ t \notin ItemsOf(Tail(queue))
      BY <2>3, <3>0, PopFacts DEF TypeInv, TypeOK, CopyInv, QueueOnce
    <3>2. queue' = Tail(queue) /\ hold' = [hold EXCEPT ![w] = t] /\ pc' = [pc EXCEPT ![w] = "popped"]
      BY <1>5, <2>3, <3>0 DEF BlPop
    <3>3. Waits(t) /\ ~Waits(t)'
      BY <2>1, <3>1, <3>2 DEF Waits, CopyInv, ContainersApart
    <3>4. \A v \in Workers, u \in Tasks : Holds(v, u)' => Holds(v, u) \/ (v = w /\ u = t)
      BY <3>2 DEF Holds, TypeInv, TypeOK
    <3> QED
      BY <2>1, <3>1, <3>2, <3>3, <3>4, TakenOnce
  <2> QED
    BY <2>2, <2>3
<1>6. Quiet => CopyInv'
  BY QuietStep
<1>7. Flush => CopyInv'
  BY FlushStep
<1>8. ASSUME NEW a \in Admins, CancelStep(a) PROVE CopyInv'
  BY <1>8, CancelShrinks
<1> QED
  BY <1>1, <1>2, <1>3, <1>4, <1>5, <1>6, <1>7, <1>8
     DEF Next, Core, Submit, Take, Process, Ack, Cancel, Quiet

(* CopyInv is SingleCopy said container by container.                       *)
LEMMA CopyImplies == TypeInv /\ CopyInv => SingleCopy
<1> SUFFICES ASSUME TypeInv, CopyInv, NEW t \in Tasks, NEW p \in Places(t), NEW q \in Places(t)
             PROVE  p = q
  BY DEF SingleCopy
<1> DEFINE InQueue(x) == \E i \in DOMAIN queue : queue[i] = t /\ x = <<"queue", i>>
           InHand(x) == \E w \in Workers : Holds(w, t) /\ x = <<"worker", w>>
           InZSet(x) == \/ t \in pqueue /\ x = <<"zset", "pqueue">>
                        \/ t \in delayed /\ x = <<"zset", "delayed">>
                        \/ t \in retry /\ x = <<"zset", "retry">>
<1>1. ASSUME NEW x \in Places(t) PROVE InQueue(x) \/ InHand(x) \/ InZSet(x)
  BY <1>1 DEF Places, HeldBy, Holds
<1>2. \A x : /\ InQueue(x) => t \in ItemsOf(queue)
             /\ InZSet(x) => t \in pqueue \cup delayed \cup retry
             /\ InHand(x) => ~Waits(t)
  BY DEF ItemsOf, CopyInv, HeldNotWaiting
<1>3. InQueue(p) /\ InQueue(q) => p = q
  BY DEF CopyInv, QueueOnce, Injective
<1>4. InHand(p) /\ InHand(q) => p = q
  BY DEF CopyInv, OneHolder
<1>5. InZSet(p) /\ InZSet(q) => p = q
  BY DEF CopyInv, ContainersApart
<1>6. t \in ItemsOf(queue) => t \notin pqueue \cup delayed \cup retry
  BY DEF CopyInv, ContainersApart
<1> HIDE DEF InQueue, InHand, InZSet
<1> QED
  BY <1>1, <1>2, <1>3, <1>4, <1>5, <1>6 DEF Waits

(* No interleaving of clients, workers, scheduler and cancellations, and no *)
(* crash, lost key or failed command, puts a task into two places.          *)
THEOREM OneCopy == Spec => []SingleCopy
<1>1. Init => TypeInv /\ CopyInv
  BY TypeInit, CopyInit
<1>2. TypeInv /\ CopyInv /\ [Next]_vars => (TypeInv /\ CopyInv)'
  BY TypeStep, CopyStep
<1>3. TypeInv /\ CopyInv => SingleCopy
  BY CopyImplies
<1> QED
  BY <1>1, <1>2, <1>3, PTL DEF Spec

-----------------------------------------------------------------------------
(* The retry counter.                                                      *)

(* A task in this state may be handed to a worker: an attempt is left, and  *)
(* the counter in Redis, while it is there, is right.                       *)
Sound(t) == runs[t] < Limit /\ (data[t] >= 0 => data[t] = runs[t])

TaskCounted(t) ==
    /\ runs[t] <= Limit
    /\ Waits(t) \/ Unseen(t) => Sound(t)
    /\ Unseen(t) => runs[t] = 0

(* What the copy in the hands of a worker says, at each step of its round.  *)
HandCounted(w) ==
    /\ pc[w] \in {"popped", "pload", "load", "retry"} => Sound(hold[w])
    /\ pc[w] = "before" => cnt[w] = runs[hold[w]] /\ runs[hold[w]] < Limit
    /\ pc[w] = "running" => cnt[w] + 1 = runs[hold[w]]
    /\ pc[w] \in {"ack", "store"} /\ out[w] = "Retry" =>
          cnt[w] = runs[hold[w]] /\ cnt[w] < MaxRetry

CountInv == (\A t \in Tasks : TaskCounted(t)) /\ (\A w \in Workers : HandCounted(w))

LEMMA LimitFacts == Limit \in Nat /\ Limit > 0 /\ MaxRetry \in Nat /\ MaxRetry <= Limit
  BY ConstantsAssumption DEF Limit

LEMMA CountInit == Init => CountInv
  BY LimitFacts DEF Init, CountInv, TaskCounted, HandCounted, Sound, Missing

(* Steps of clients and of the scheduler: they start no handler, put into   *)
(* the queue only what was waiting or unseen, and at most delete data.      *)
LEMMA CountClient ==
    ASSUME TypeInv, CountInv, UNCHANGED <<runs, workerVars>>,
           \A t \in Tasks : data'[t] \in {data[t], Missing},
           \A t \in Tasks : Waits(t)' => Waits(t) \/ Unseen(t),
           \A t \in Tasks : Unseen(t)' => Unseen(t)
    PROVE  CountInv'
<1>1. ASSUME NEW t \in Tasks, Sound(t) PROVE Sound(t)'
  <2>1. ~(Missing >= 0)
    BY DEF Missing
  <2> QED
    BY <1>1, <2>1 DEF Sound
<1>2. ASSUME NEW t \in Tasks PROVE TaskCounted(t)'
  <2>1. TaskCounted(t) /\ runs' = runs
    BY DEF CountInv
  <2> QED
    BY <1>1, <2>1 DEF TaskCounted
<1>3. ASSUME NEW w \in Workers PROVE HandCounted(w)'
  <2>1. HandCounted(w) /\ UNCHANGED <<pc, hold, cnt, out, runs>>
    BY DEF CountInv, workerVars
  <2>2. pc[w] \in {"popped", "pload", "load", "retry"} => hold[w] \in Tasks
    BY DEF TypeInv, HoldsTask, Holding
  <2>3. pc[w] \in {"popped", "pload", "load", "retry"} => Sound(hold[w])'
    BY <1>1, <2>1, <2>2 DEF HandCounted, Sound
  <2> QED
    BY <2>1, <2>3 DEF HandCounted
<1> QED
  BY <1>2, <1>3 DEF CountInv

(* Steps of one worker other than the start of a handler and the HSET of an *)
(* acknowledgement.                                                        *)
LEMMA CountWorker ==
    ASSUME CountInv, NEW w \in Workers, UNCHANGED <<runs, data>>,
           \A v \in Workers \ {w} : /\ pc'[v] = pc[v] /\ hold'[v] = hold[v]
                                    /\ cnt'[v] = cnt[v] /\ out'[v] = out[v],
           \A t \in Tasks : Waits(t)' => Waits(t) \/ Sound(t),
           \A t \in Tasks : Unseen(t)' => Unseen(t),
           HandCounted(w)'
    PROVE  CountInv'
<1>1. \A t \in Tasks : TaskCounted(t)'
  BY DEF CountInv, TaskCounted, Sound
<1>2. \A v \in Workers \ {w} : HandCounted(v)'
  BY DEF CountInv, HandCounted, Sound
<1> QED
  BY <1>1, <1>2 DEF CountInv

(* The client and scheduler steps, and steps that change nothing here.      *)
LEMMA CountClientStep ==
    ASSUME TypeInv, CopyInv, CountInv,
           \/ \E t \in Tasks : \/ Dedup(t) \/ ToPQueue(t) \/ ToQueue(t) \/ ToDelayed(t)
                              \/ MoveDelayed(t) \/ MoveRetry(t) \/ Expire(t)
           \/ \E a \in Admins : Cancel(a)
           \/ \E b \in BOOLEAN : SetPause(b)
           \/ Flush
           \/ UNCHANGED vars
    PROVE  CountInv'
<1> DEFINE Data == \A t \in Tasks : data'[t] \in {data[t], Missing}
           Wait == \A t \in Tasks : Waits(t)' => Waits(t) \/ Unseen(t)
           See == \A t \in Tasks : Unseen(t)' => Unseen(t)
           Goal == UNCHANGED <<runs, workerVars>> /\ Data /\ Wait /\ See
<1>1. ASSUME NEW t \in Tasks, Dedup(t) PROVE Goal
  BY <1>1 DEF Dedup, TypeInv, TypeOK, Waits, Unseen, workerVars, histVars
<1>2. ASSUME NEW t \in Tasks, ToPQueue(t) \/ ToDelayed(t) PROVE Goal
  BY <1>2 DEF ToPQueue, ToDelayed, TypeInv, TypeOK, Waits, Unseen, workerVars, histVars
<1>3. ASSUME NEW t \in Tasks, ToQueue(t) PROVE Goal
  <2>1. ItemsOf(queue') = ItemsOf(queue) \cup {t}
    BY <1>3, AppendFacts DEF ToQueue, TypeInv, TypeOK
  <2> QED
    BY <1>3, <2>1 DEF ToQueue, TypeInv, TypeOK, Waits, Unseen, workerVars, histVars
<1>4. ASSUME NEW t \in Tasks, MoveDelayed(t) \/ MoveRetry(t) PROVE Goal
  <2>1. ItemsOf(queue') = ItemsOf(queue) \cup {t}
    BY <1>4, AppendFacts DEF MoveDelayed, MoveRetry, TypeInv, TypeOK
  <2> QED
    BY <1>4, <2>1 DEF MoveDelayed, MoveRetry, Waits, Unseen, workerVars, clientVars, histVars
<1>5. ASSUME NEW t \in Tasks, Expire(t) PROVE Goal
  BY <1>5 DEF Expire, TypeInv, TypeOK, Waits, Unseen, workerVars, clientVars, histVars
<1>6. ASSUME NEW a \in Admins, Cancel(a) PROVE Goal
  <2>1. ASSUME NEW t \in Tasks, StartCancel(a, t) PROVE Goal
    BY <2>1 DEF StartCancel, Waits, Unseen, redisVars, workerVars, clientVars, histVars
  <2>2. CASE CancelStep(a)
    <3>1. atask[a] \in Tasks
      BY <2>2 DEF TypeInv, HoldsTask, CancelStep, NextPlace, CancelPcs
    <3>2. ItemsOf(queue') \subseteq ItemsOf(queue)
      BY <2>2, <3>1, LRemFacts DEF CancelStep, TypeInv, TypeOK
    <3>3. pqueue' \subseteq pqueue /\ delayed' \subseteq delayed /\ retry' \subseteq retry
      BY <2>2 DEF CancelStep
    <3>4. UNCHANGED <<runs, workerVars, cpc, op, data>>
      BY <2>2 DEF CancelStep, clientVars
    <3> QED
      BY <3>2, <3>3, <3>4 DEF Waits, Unseen
  <2>3. CASE CancelClean(a)
    BY <2>3 DEF CancelClean, TypeInv, TypeOK, Waits, Unseen, workerVars, clientVars, histVars
  <2>4. CASE CancelUnique(a)
    BY <2>4 DEF CancelUnique, Waits, Unseen, workerVars, clientVars, histVars
  <2> QED
    BY <1>6, <2>1, <2>2, <2>3, <2>4 DEF Cancel
<1>7. ASSUME NEW b \in BOOLEAN, SetPause(b) PROVE Goal
  BY <1>7 DEF SetPause, Waits, Unseen, workerVars, clientVars, histVars
<1>8. ASSUME Flush PROVE Goal
  <2>1. ItemsOf(queue') = {}
    BY <1>8 DEF Flush, ItemsOf
  <2> QED
    BY <1>8, <2>1 DEF Flush, Waits, Unseen, workerVars, clientVars, histVars
<1>9. ASSUME UNCHANGED vars PROVE Goal
  BY <1>9 DEF vars, redisVars, Waits, Unseen, workerVars, clientVars, histVars
<1>10. Goal
  BY <1>1, <1>2, <1>3, <1>4, <1>5, <1>6, <1>7, <1>8, <1>9
<1> HIDE DEF Data, Wait, See
<1> QED
  BY <1>10, CountClient DEF Data, Wait, See

LEMMA CountStore ==
    ASSUME TypeInv, CopyInv, CountInv, NEW t \in Tasks, NEW o \in Ops, Store(t, o)
    PROVE  CountInv'
<1>1. /\ UNCHANGED <<queue, pqueue, delayed, retry, pc, hold, cnt, out, runs>>
      /\ \A u \in Tasks \ {t} : data'[u] = data[u] /\ (Unseen(u)' => Unseen(u))
      /\ data'[t] \in {0, WrongType}
  BY DEF Store, workerVars, histVars, TypeInv, TypeOK, Unseen
<1>2. Unseen(t) /\ runs[t] = 0 /\ \A w \in Workers : ~Holds(w, t)
  BY DEF Store, Unseen, CountInv, TaskCounted, CopyInv, UnseenNowhere
<1>3. ~(WrongType >= 0)
  BY DEF WrongType
<1>4. Sound(t)'
  BY <1>1, <1>2, <1>3, LimitFacts DEF Sound
<1>5. \A u \in Tasks \ {t} : Sound(u)' <=> Sound(u)
  BY <1>1 DEF Sound
<1>6. \A u \in Tasks : Waits(u)' <=> Waits(u)
  BY <1>1 DEF Waits
<1>7. ASSUME NEW u \in Tasks PROVE TaskCounted(u)'
  <2>1. TaskCounted(u) /\ runs' = runs
    BY <1>1 DEF CountInv
  <2>2. CASE u = t
    BY <1>2, <1>4, <2>1, <2>2 DEF TaskCounted
  <2>3. CASE u # t
    BY <1>1, <1>5, <1>6, <2>1, <2>3 DEF TaskCounted
  <2> QED
    BY <2>2, <2>3
<1>8. ASSUME NEW w \in Workers PROVE HandCounted(w)'
  <2>1. HandCounted(w)
    BY DEF CountInv
  <2>2. pc[w] \in {"popped", "pload", "load", "retry"} => hold[w] \in Tasks \ {t}
    BY <1>2 DEF TypeInv, HoldsTask, Holding, Holds
  <2> QED
    BY <1>1, <2>1, <2>2 DEF HandCounted, Sound
<1> QED
  BY <1>7, <1>8 DEF CountInv

(* The start of a handler: the attempt it counts was still to be had.       *)
LEMMA CountStart ==
    ASSUME TypeInv, CopyInv, CountInv, NEW w \in Workers, Start(w)
    PROVE  CountInv'
<1>0. PICK t \in Tasks : t = hold[w]
  BY DEF Start, TypeInv, HoldsTask, Holding
<1>1. /\ Holds(w, t) /\ pc[w] = "before" /\ cnt[w] = runs[t] /\ runs[t] < Limit
      /\ runs[t] \in Nat
  BY <1>0 DEF Start, Holds, Holding, CountInv, HandCounted, TypeInv, TypeOK
<1>2. /\ UNCHANGED <<queue, pqueue, delayed, retry, data, cpc, op, hold, cnt, out>>
      /\ \A v \in Workers \ {w} : pc'[v] = pc[v]
      /\ pc'[w] = "running"
      /\ \A u \in Tasks \ {t} : runs'[u] = runs[u]
      /\ runs'[t] = runs[t] + 1
  BY <1>0 DEF Start, redisVars, clientVars, TypeInv, TypeOK
<1>3. ~Waits(t)' /\ ~Unseen(t)'
  BY <1>1, <1>2 DEF CopyInv, HeldNotWaiting, UnseenNowhere, Waits, Unseen
<1>4. runs'[t] <= Limit
  BY <1>1, <1>2, LimitFacts
<1>5. ASSUME NEW u \in Tasks \ {t} PROVE TaskCounted(u)'
  BY <1>2 DEF CountInv, TaskCounted, Sound, Waits, Unseen
<1>6. ASSUME NEW v \in Workers \ {w} PROVE HandCounted(v)'
  <2>1. HandCounted(v)
    BY DEF CountInv
  <2>2. pc[v] \in Holding => hold[v] \in Tasks \ {t}
    BY <1>1 DEF TypeInv, HoldsTask, CopyInv, OneHolder, Holds
  <2> QED
    BY <1>2, <2>1, <2>2 DEF HandCounted, Sound, Holding
<1>7. HandCounted(w)'
  BY <1>0, <1>1, <1>2 DEF HandCounted
<1> QED
  BY <1>3, <1>4, <1>5, <1>6, <1>7 DEF CountInv, TaskCounted

(* The HSET of an acknowledgement: what it writes is the number of runs     *)
(* whenever the task is to wait for another one.                            *)
LEMMA CountAckStore ==
    ASSUME TypeInv, CopyInv, CountInv, NEW w \in Workers, AckStore(w)
    PROVE  CountInv'
<1>0. PICK t \in Tasks : t = hold[w]
  BY DEF AckStore, TypeInv, HoldsTask, Holding
<1>1. Holds(w, t) /\ pc[w] = "store" /\ (out[w] = "Retry" => cnt[w] = runs[t] /\ cnt[w] < MaxRetry)
  BY <1>0 DEF AckStore, Holds, Holding, CountInv, HandCounted
<1>2. /\ UNCHANGED <<queue, pqueue, delayed, retry, cpc, op, hold, cnt, out, runs>>
      /\ \A v \in Workers \ {w} : pc'[v] = pc[v]
      /\ pc'[w] = IF out[w] = "Retry" THEN "retry" ELSE "deps"
      /\ \A u \in Tasks \ {t} : data'[u] = data[u]
      /\ data'[t] = cnt[w]
  BY <1>0 DEF AckStore, clientVars, TypeInv, TypeOK
<1>3. ~Waits(t)' /\ ~Unseen(t)'
  BY <1>1, <1>2 DEF CopyInv, HeldNotWaiting, UnseenNowhere, Waits, Unseen
<1>4. ASSUME NEW u \in Tasks PROVE TaskCounted(u)'
  <2>1. TaskCounted(u)
    BY DEF CountInv
  <2> QED
    BY <1>2, <1>3, <2>1 DEF TaskCounted, Sound, Waits, Unseen
<1>5. ASSUME NEW v \in Workers \ {w} PROVE HandCounted(v)'
  <2>1. HandCounted(v)
    BY DEF CountInv
  <2>2. pc[v] \in Holding => hold[v] \in Tasks \ {t}
    BY <1>1 DEF TypeInv, HoldsTask, CopyInv, OneHolder, Holds
  <2> QED
    BY <1>2, <2>1, <2>2 DEF HandCounted, Sound, Holding
<1>6. HandCounted(w)'
  <2>1. CASE out[w] = "Retry"
    <3>1. runs[t] < Limit
      BY <1>1, <2>1, LimitFacts DEF TypeInv, TypeOK
    <3> QED
      BY <1>0, <1>1, <1>2, <2>1, <3>1 DEF HandCounted, Sound
  <2>2. CASE out[w] # "Retry"
    BY <1>2, <2>2 DEF HandCounted
  <2> QED
    BY <2>1, <2>2
<1> QED
  BY <1>4, <1>5, <1>6 DEF CountInv

LEMMA CountWorkerStep ==
    ASSUME TypeInv, CopyInv, CountInv, NEW w \in Workers,
           \/ Take(w) \/ Succeed(w) \/ Fail(w) \/ AckRemove(w) \/ ScheduleRetry(w)
           \/ BeforeFails(w) \/ Abandon(w) \/ NoDependents(w)
    PROVE  CountInv'
<1> DEFINE Others == \A v \in Workers \ {w} : /\ pc'[v] = pc[v] /\ hold'[v] = hold[v]
                                             /\ cnt'[v] = cnt[v] /\ out'[v] = out[v]
           Wait == \A t \in Tasks : Waits(t)' => Waits(t) \/ Sound(t)
           Goal == UNCHANGED <<runs, data, cpc, op>> /\ Others /\ Wait /\ HandCounted(w)'
<1>0. HandCounted(w) /\ (pc[w] \in Holding \cup {"deps"} => hold[w] \in Tasks)
  BY DEF CountInv, TypeInv, HoldsTask
<1> USE DEF redisVars, clientVars, adminVars, histVars
<1>1. ASSUME CheckPause(w) \/ PushActive(w) \/ Succeed(w) \/ AckRemove(w) PROVE Goal
  BY <1>0, <1>1 DEF CheckPause, PushActive, Succeed, AckRemove, TypeInv, TypeOK, Waits,
     HandCounted, Sound
<1>2. ASSUME BeforeFails(w) \/ Abandon(w) \/ NoDependents(w) PROVE Goal
  BY <1>2 DEF BeforeFails, Abandon, NoDependents, Release, TypeInv, TypeOK, Waits, HandCounted
<1>3. ASSUME ScheduleRetry(w) PROVE Goal
  <2>1. Sound(hold[w])
    BY <1>0, <1>3 DEF ScheduleRetry, HandCounted
  <2> QED
    BY <1>3, <2>1 DEF ScheduleRetry, Release, TypeInv, TypeOK, Waits, HandCounted
<1>4. ASSUME Fail(w) PROVE Goal
  <2>1. /\ UNCHANGED <<queue, pqueue, delayed, retry, data, runs, cpc, op, hold>>
        /\ pc' = [pc EXCEPT ![w] = "ack"] /\ cnt' = [cnt EXCEPT ![w] = cnt[w] + 1]
        /\ out' = [out EXCEPT ![w] = IF can_retry(cnt[w] + 1) THEN "Retry" ELSE "Dead"]
    BY <1>4 DEF Fail
  <2>2. cnt[w] + 1 = runs[hold[w]]
    BY <1>0, <1>4 DEF Fail, HandCounted
  <2>3. cnt'[w] = cnt[w] + 1 /\ pc'[w] = "ack" /\ (out'[w] = "Retry" => cnt[w] + 1 < MaxRetry)
    BY <2>1 DEF TypeInv, TypeOK, can_retry
  <2>4. HandCounted(w)'
    BY <2>1, <2>2, <2>3 DEF HandCounted
  <2> QED
    BY <2>1, <2>4 DEF TypeInv, TypeOK, Waits
<1>5. ASSUME Load(w) PROVE Goal
  <2>1. hold[w] \in Tasks /\ Sound(hold[w])
    BY <1>0, <1>5 DEF Load, HandCounted, Holding
  <2>2. CASE pc' = [pc EXCEPT ![w] = "before"]
    <3>1. data[hold[w]] >= 0 /\ cnt' = [cnt EXCEPT ![w] = data[hold[w]]] /\ UNCHANGED <<hold, out>>
      BY <1>5, <2>2 DEF Load, Release, TypeInv, TypeOK
    <3>2. cnt'[w] = runs[hold[w]] /\ pc'[w] = "before" /\ runs[hold[w]] < Limit
      BY <2>1, <2>2, <3>1 DEF Sound, TypeInv, TypeOK
    <3> QED
      BY <1>5, <2>2, <3>1, <3>2 DEF Load, TypeInv, TypeOK, Waits, HandCounted
  <2>3. CASE Release(w, IF pc[w] = "pload" THEN "check" ELSE "idle")
    BY <1>5, <2>3 DEF Load, Release, TypeInv, TypeOK, Waits, HandCounted
  <2> QED
    BY <1>5, <2>2, <2>3 DEF Load
<1>6. ASSUME PDequeue(w) PROVE Goal
  <2>1. CASE pqueue' = pqueue /\ hold' = hold /\ pc' = [pc EXCEPT ![w] = "check"]
    BY <1>6, <2>1 DEF PDequeue, TypeInv, TypeOK, Waits, HandCounted
  <2>2. ASSUME NEW t \in pqueue, pqueue' = pqueue \ {t}, hold' = [hold EXCEPT ![w] = t],
               pc' = [pc EXCEPT ![w] = "pload"]
        PROVE  Goal
    <3>1. Sound(t)
      BY <2>2 DEF CountInv, TaskCounted, Waits, TypeInv, TypeOK
    <3>2. pc'[w] = "pload" /\ hold'[w] = t
      BY <2>2 DEF TypeInv, TypeOK
    <3>3. UNCHANGED <<queue, delayed, retry, data, runs, cpc, op, cnt, out>>
      BY <1>6 DEF PDequeue
    <3>4. HandCounted(w)'
      BY <3>1, <3>2, <3>3 DEF HandCounted, Sound
    <3> QED
      BY <2>2, <3>3, <3>4 DEF TypeInv, TypeOK, Waits
  <2> QED
    BY <1>6, <2>1, <2>2 DEF PDequeue
<1>7. ASSUME BlPop(w) PROVE Goal
  <2>1. CASE queue = <<>>
    BY <1>7, <2>1 DEF BlPop, TypeInv, TypeOK, Waits, HandCounted
  <2>2. CASE queue # <<>>
    <3>1. /\ Head(queue) \in Tasks /\ Head(queue) \in ItemsOf(queue)
          /\ ItemsOf(Tail(queue)) \subseteq ItemsOf(queue)
      BY <2>2, PopFacts DEF TypeInv, TypeOK
    <3>2. /\ queue' = Tail(queue) /\ hold' = [hold EXCEPT ![w] = Head(queue)]
          /\ pc' = [pc EXCEPT ![w] = "popped"]
          /\ UNCHANGED <<pqueue, delayed, retry, data, runs, cpc, op, cnt, out>>
      BY <1>7, <2>2 DEF BlPop
    <3>3. Sound(Head(queue))
      BY <3>1 DEF CountInv, TaskCounted, Waits
    <3>4. pc'[w] = "popped" /\ hold'[w] = Head(queue)
      BY <3>2 DEF TypeInv, TypeOK
    <3>5. HandCounted(w)'
      BY <3>2, <3>3, <3>4 DEF HandCounted, Sound
    <3> QED
      BY <3>1, <3>2, <3>5 DEF TypeInv, TypeOK, Waits
  <2> QED
    BY <2>1, <2>2
<1>8. Goal
  BY <1>1, <1>2, <1>3, <1>4, <1>5, <1>6, <1>7 DEF Take
<1>9. \A t \in Tasks : Unseen(t)' => Unseen(t)
  BY <1>8 DEF Unseen
<1> HIDE DEF Others, Wait
<1> QED
  BY <1>8, <1>9, CountWorker DEF Others, Wait

LEMMA CountStep == TypeInv /\ CopyInv /\ CountInv /\ [Next]_vars => CountInv'
<1> SUFFICES ASSUME TypeInv, CopyInv, CountInv, [Next]_vars PROVE CountInv'
  OBVIOUS
<1>1. ASSUME NEW w \in Workers,
             Take(w) \/ Process(w) \/ Ack(w) \/ BeforeFails(w) \/ Abandon(w) \/ NoDependents(w)
      PROVE  CountInv'
  BY <1>1, CountWorkerStep, CountStart, CountAckStore DEF Process, Ack
<1>2. ASSUME NEW t \in Tasks, Submit(t) PROVE CountInv'
  BY <1>2, CountStore, CountClientStep DEF Submit
<1> QED
  BY <1>1, <1>2, CountClientStep DEF Next, Core

CountedInv == TypeInv /\ CopyInv /\ CountInv

LEMMA CountedHolds == Spec => []CountedInv
<1>1. Init => CountedInv
  BY TypeInit, CopyInit, CountInit DEF CountedInv
<1>2. CountedInv /\ [Next]_vars => CountedInv'
  BY TypeStep, CopyStep, CountStep DEF CountedInv
<1> QED
  BY <1>1, <1>2, PTL DEF Spec

(* No task's handler starts more than max_retry times, or once when it is 0,*)
(* whatever crashes, expires or is cancelled in between.                    *)
THEOREM RunsAreBounded == Spec => []RunsBounded
<1>1. CountedInv => RunsBounded
  BY DEF CountedInv, CountInv, TaskCounted, RunsBounded
<1> QED
  BY <1>1, CountedHolds, PTL

(* A waiting task carries the number of its runs.                           *)
THEOREM CounterIsExact == Spec => []CounterExact
<1>1. CountedInv => CounterExact
  BY DEF CountedInv, CountInv, TaskCounted, CounterExact, Waits, Sound
<1> QED
  BY <1>1, CountedHolds, PTL

-----------------------------------------------------------------------------
(* What becomes of a task: it is lost only for a reason, the active list    *)
(* says who works on it, a pause stops the workers, and the queue implements*)
(* the state machine of TaskLifecycle.                                     *)

(* t waits somewhere or is in the hands of a worker.                        *)
Placed(t) == Waits(t) \/ \E w \in Workers : Holds(w, t)

OnPcs == {"pload", "load", "before", "running", "ack"}

(* Some worker is between the dequeue of t and its acknowledgement.         *)
InWork(t) == \E w \in Workers : hold[w] = t /\ pc[w] \in OnPcs

InSystem(t) == fate[t] \in {"live", "cancelled"}

(* Conservation and ActiveListExact without the set of places, and with     *)
(* what makes them inductive: a task that is not visible yet has no entry   *)
(* on the active list, and a task in the system has no other fate yet.      *)
Accounted(t) ==
    /\ cpc[t] = "dedup" => op[t] \in {"enqueue", "enqueue_priority", "enqueue_batch"}
    /\ Placed(t) => Visible(t) /\ InSystem(t)
    /\ ~Visible(t) => active[t] = 0 /\ InSystem(t)
    /\ Visible(t) /\ fate[t] = "live" => Placed(t)

ListedRight(t) ==
    /\ active[t] \in {0, 1}
    /\ active[t] = 1 /\ Placed(t) => InWork(t)
    /\ InWork(t) /\ fate[t] = "live" => active[t] = 1
    /\ active[t] = 1 /\ ~InWork(t) => fate[t] \in {"abandoned", "unloadable", "cancelled"}

TaskInv(t) == Accounted(t) /\ ListedRight(t)

(* A worker without a task has none, and one that released dependents of    *)
(* its task has settled it.                                                *)
HandSettled(w) ==
    /\ pc[w] \in {"idle", "check", "blpop"} => hold[w] = NoTask
    /\ pc[w] = "deps" => fate[hold[w]] # "live"

LossInv ==
    /\ TypeInv /\ CopyInv
    /\ \A t \in Tasks : TaskInv(t)
    /\ \A w \in Workers : HandSettled(w)

-----------------------------------------------------------------------------
(* BLPOP and LREM leave the rest of the list.                               *)
LEMMA PopKeeps ==
    ASSUME NEW s \in Seq(Tasks), s # <<>>, Injective(s)
    PROVE  ItemsOf(Tail(s)) = ItemsOf(s) \ {Head(s)}
<1>1. Len(s) \in Nat \ {0} /\ DOMAIN s = 1 .. Len(s) /\ Head(s) = s[1]
  OBVIOUS
<1>2. DOMAIN Tail(s) = 1 .. Len(s) - 1 /\ \A i \in 1 .. Len(s) - 1 : Tail(s)[i] = s[i + 1]
  BY <1>1
<1>3. ASSUME NEW i \in 2 .. Len(s) PROVE s[i] \in ItemsOf(Tail(s))
  <2>1. i - 1 \in 1 .. Len(s) - 1 /\ (i - 1) + 1 = i
    BY <1>1, SMT
  <2> QED
    BY <1>2, <2>1 DEF ItemsOf
<1>4. ItemsOf(s) \ {Head(s)} \subseteq ItemsOf(Tail(s))
  <2>1. \A i \in 1 .. Len(s) : i = 1 \/ i \in 2 .. Len(s)
    BY <1>1, SMT
  <2> QED
    BY <1>1, <1>3, <2>1 DEF ItemsOf
<1> QED
  BY <1>4, PopFacts

LEMMA LRemKeeps ==
    ASSUME NEW s \in Seq(Tasks), NEW t \in Tasks
    PROVE  /\ \A u \in ItemsOf(s) \ {t} : u \in ItemsOf(LRem(s, t))
           /\ t \notin ItemsOf(s) => LRem(s, t) = s
<1>1. CASE t \notin ItemsOf(s)
  BY <1>1 DEF LRem
<1>2. CASE t \in ItemsOf(s)
  <2> DEFINE k == CHOOSE i \in DOMAIN s : s[i] = t /\ \A j \in 1 .. i - 1 : s[j] # t
             r == [i \in 1 .. Len(s) - 1 |-> IF i < k THEN s[i] ELSE s[i + 1]]
             T == {n \in DOMAIN s : s[n] = t}
  <2>1. LRem(s, t) = r
    BY <1>2 DEF LRem
  <2>2. Len(s) \in Nat \ {0} /\ DOMAIN s = 1 .. Len(s)
    BY <1>2 DEF ItemsOf
  <2>3. PICK m \in T : \A n \in T : m <= n
    <3>1. T \in SUBSET Nat /\ T # {}
      BY <1>2, <2>2 DEF ItemsOf
    <3> QED
      BY <3>1, LeastExists
  <2>4. m \in DOMAIN s /\ s[m] = t /\ \A n \in 1 .. m - 1 : s[n] # t
    BY <2>2, <2>3, SMT
  <2>5. k \in 1 .. Len(s) /\ s[k] = t
    BY <2>2, <2>4 DEF k
  <2> HIDE DEF k
  <2>6. ASSUME NEW i \in 1 .. Len(s), s[i] # t PROVE s[i] \in ItemsOf(r)
    <3>1. CASE i < k
      <4>1. i \in 1 .. Len(s) - 1
        BY <2>2, <2>5, <3>1, SMT
      <4>2. r[i] = s[i] /\ i \in DOMAIN r
        BY <4>1, <3>1
      <4> HIDE DEF r
      <4> QED
        BY <4>2, Zenon DEF ItemsOf
    <3>2. CASE k < i
      <4>1. i - 1 \in 1 .. Len(s) - 1 /\ ~(i - 1 < k) /\ (i - 1) + 1 = i
        BY <2>2, <2>5, <3>2, SMT
      <4>2. r[i - 1] = s[i] /\ i - 1 \in DOMAIN r
        BY <4>1
      <4> HIDE DEF r
      <4> QED
        BY <4>2, Zenon DEF ItemsOf
    <3>3. i < k \/ k < i
      BY <2>2, <2>5, <2>6, SMT
    <3> QED
      BY <3>1, <3>2, <3>3
  <2> HIDE DEF r
  <2>7. ASSUME NEW u \in ItemsOf(s) \ {t} PROVE u \in ItemsOf(r)
    <3>1. PICK i \in 1 .. Len(s) : u = s[i]
      BY <2>2 DEF ItemsOf
    <3> QED
      BY <2>6, <3>1
  <2> QED
    BY <1>2, <2>1, <2>7
<1> QED
  BY <1>1, <1>2

(* One task at a time.                                                     *)

(* A task whose place, entry, fate and call stay as they are.               *)
LEMMA TaskStill ==
    ASSUME NEW t \in Tasks, TaskInv(t),
           cpc'[t] = cpc[t], op'[t] = op[t], fate'[t] = fate[t], active'[t] = active[t],
           Placed(t)' <=> Placed(t), InWork(t)' <=> InWork(t)
    PROVE  TaskInv(t)'
  BY DEF TaskInv, Accounted, ListedRight, InSystem, Visible

(* A held task waits nowhere, and its holder is the only one.               *)
LEMMA SoleHolder ==
    ASSUME CopyInv, NEW t \in Tasks, NEW w \in Workers, Holds(w, t)
    PROVE  /\ Placed(t) /\ ~Waits(t) /\ \A v \in Workers \ {w} : ~Holds(v, t)
           /\ InWork(t) <=> pc[w] \in OnPcs
  BY DEF CopyInv, HeldNotWaiting, OneHolder, Placed, InWork, Holds, OnPcs, Holding

LEMMA SoleHolderNext ==
    ASSUME CopyInv', NEW t \in Tasks, NEW w \in Workers, Holds(w, t)'
    PROVE  Placed(t)' /\ (InWork(t)' <=> pc'[w] \in OnPcs)
  BY DEF CopyInv, HeldNotWaiting, OneHolder, Placed, InWork, Holds, OnPcs, Holding

(* Nobody works on a task that waits.                                       *)
LEMMA WaitingIsFree ==
    ASSUME CopyInv, NEW t \in Tasks, Waits(t)
    PROVE  Placed(t) /\ ~InWork(t) /\ \A v \in Workers : ~Holds(v, t)
  BY DEF CopyInv, HeldNotWaiting, Placed, InWork, Holds, OnPcs, Holding

LEMMA WaitingIsFreeNext ==
    ASSUME CopyInv', NEW t \in Tasks, Waits(t)'
    PROVE  Placed(t)' /\ ~InWork(t)'
  BY DEF CopyInv, HeldNotWaiting, Placed, InWork, Holds, OnPcs, Holding

(* A worker's step does not touch the tasks it holds neither before nor     *)
(* after it.                                                               *)
LEMMA Elsewhere ==
    ASSUME NEW w \in Workers, NEW u \in Tasks, Waits(u)' <=> Waits(u),
           ~Holds(w, u), ~Holds(w, u)',
           \A v \in Workers \ {w} : pc'[v] = pc[v] /\ hold'[v] = hold[v]
    PROVE  (Placed(u)' <=> Placed(u)) /\ (InWork(u)' <=> InWork(u))
  BY DEF Placed, InWork, Holds, OnPcs, Holding

(* What workers hold, when nobody's hand changes.                           *)
LEMMA HandsStill ==
    ASSUME UNCHANGED <<pc, hold>>, NEW u \in Tasks, Waits(u)' <=> Waits(u)
    PROVE  (Placed(u)' <=> Placed(u)) /\ (InWork(u)' <=> InWork(u))
  BY DEF Placed, InWork, Holds

LEMMA SettledStays ==
    ASSUME TypeInv, NEW v \in Workers, HandSettled(v), pc'[v] = pc[v], hold'[v] = hold[v],
           \A t \in Tasks : fate[t] # "live" => fate'[t] # "live"
    PROVE  HandSettled(v)'
  BY DEF HandSettled, TypeInv, HoldsTask

-----------------------------------------------------------------------------
(* The steps of a worker, by what they do to the task it holds.             *)

(* A worker keeps its task.                                                *)
LEMMA KeepsTask ==
    ASSUME LossInv, CopyInv', NEW w \in Workers, NEW t \in Tasks, Holds(w, t), Holds(w, t)',
           UNCHANGED <<queue, pqueue, delayed, retry, cpc, op, fate>>,
           \A v \in Workers \ {w} : pc'[v] = pc[v] /\ hold'[v] = hold[v],
           \A u \in Tasks \ {t} : active'[u] = active[u],
           active'[t] \in {0, 1},
           active'[t] = 1 => pc'[w] \in OnPcs,
           pc'[w] \in OnPcs /\ fate[t] = "live" => active'[t] = 1
    PROVE  \A u \in Tasks : TaskInv(u)'
<1>1. ASSUME NEW u \in Tasks \ {t} PROVE TaskInv(u)'
  <2>1. Waits(u)' <=> Waits(u)
    BY DEF Waits
  <2>2. ~Holds(w, u) /\ ~Holds(w, u)'
    BY DEF Holds
  <2> QED
    BY <2>1, <2>2, Elsewhere, TaskStill DEF LossInv
<1>2. TaskInv(t)'
  <2>1. TaskInv(t) /\ Placed(t)
    BY SoleHolder DEF LossInv
  <2>2. Placed(t)' /\ (InWork(t)' <=> pc'[w] \in OnPcs)
    BY SoleHolderNext
  <2> QED
    BY <2>1, <2>2 DEF TaskInv, Accounted, ListedRight, InSystem, Visible
<1> QED
  BY <1>1, <1>2

(* A worker lets go of its task for a reason.                               *)
LEMMA DropsTask ==
    ASSUME LossInv, NEW w \in Workers, NEW t \in Tasks, Holds(w, t), \A u \in Tasks : ~Holds(w, u)',
           UNCHANGED <<queue, pqueue, delayed, retry, cpc, op, active>>,
           \A v \in Workers \ {w} : pc'[v] = pc[v] /\ hold'[v] = hold[v],
           \A u \in Tasks \ {t} : fate'[u] = fate[u],
           NEW why \in Fates \ {"live"}, fate'[t] = IF fate[t] = "live" THEN why ELSE fate[t],
           why \in {"abandoned", "unloadable"} \/ pc[w] \notin OnPcs
    PROVE  \A u \in Tasks : TaskInv(u)'
<1>1. ASSUME NEW u \in Tasks \ {t} PROVE TaskInv(u)'
  <2>1. Waits(u)' <=> Waits(u)
    BY DEF Waits
  <2>2. ~Holds(w, u) /\ ~Holds(w, u)'
    BY DEF Holds
  <2> QED
    BY <2>1, <2>2, Elsewhere, TaskStill DEF LossInv
<1>2. TaskInv(t)'
  <2>1. /\ TaskInv(t) /\ Placed(t) /\ ~Waits(t) /\ \A v \in Workers \ {w} : ~Holds(v, t)
        /\ InWork(t) <=> pc[w] \in OnPcs
    BY SoleHolder DEF LossInv
  <2>2. ~Waits(t)' /\ \A v \in Workers : ~Holds(v, t)'
    BY <2>1 DEF Waits, Holds
  <2>3. ~Placed(t)' /\ ~InWork(t)'
    BY <2>2 DEF Placed, InWork, Holds, OnPcs, Holding
  <2> QED
    BY <2>1, <2>3 DEF TaskInv, Accounted, ListedRight, InSystem, Visible
<1> QED
  BY <1>1, <1>2

(* A worker without a task goes on without one.                             *)
LEMMA HoldsNothing ==
    ASSUME LossInv, NEW w \in Workers, \A u \in Tasks : ~Holds(w, u) /\ ~Holds(w, u)',
           UNCHANGED <<queue, pqueue, delayed, retry, cpc, op, active, fate>>,
           \A v \in Workers \ {w} : pc'[v] = pc[v] /\ hold'[v] = hold[v]
    PROVE  \A u \in Tasks : TaskInv(u)'
<1> SUFFICES ASSUME NEW u \in Tasks PROVE TaskInv(u)'
  OBVIOUS
<1>1. Waits(u)' <=> Waits(u)
  BY DEF Waits
<1> QED
  BY <1>1, Elsewhere, TaskStill DEF LossInv

(* A worker takes a task that waits.                                       *)
LEMMA TakesTask ==
    ASSUME LossInv, CopyInv', NEW w \in Workers, NEW t \in Tasks, Waits(t), Holds(w, t)',
           \A u \in Tasks \ {t} : (Waits(u)' <=> Waits(u)) /\ ~Holds(w, u) /\ ~Holds(w, u)',
           \A v \in Workers \ {w} : pc'[v] = pc[v] /\ hold'[v] = hold[v],
           UNCHANGED <<cpc, op, fate>>,
           \A u \in Tasks \ {t} : active'[u] = active[u],
           \/ pc'[w] \in OnPcs /\ active'[t] = active[t] + 1
           \/ pc'[w] \notin OnPcs /\ active'[t] = active[t]
    PROVE  \A u \in Tasks : TaskInv(u)'
<1>1. ASSUME NEW u \in Tasks \ {t} PROVE TaskInv(u)'
  BY Elsewhere, TaskStill DEF LossInv
<1>2. TaskInv(t)'
  <2>1. TaskInv(t) /\ Placed(t) /\ ~InWork(t)
    BY WaitingIsFree DEF LossInv
  <2>2. active[t] = 0
    BY <2>1 DEF TaskInv, ListedRight
  <2>3. Placed(t)' /\ (InWork(t)' <=> pc'[w] \in OnPcs)
    BY SoleHolderNext
  <2> QED
    BY <2>1, <2>2, <2>3 DEF TaskInv, Accounted, ListedRight, InSystem, Visible
<1> QED
  BY <1>1, <1>2

(* A round of a worker: its tasks stay accounted for.                       *)
LEMMA WorkerTasks ==
    ASSUME LossInv, CopyInv', TypeInv', NEW w \in Workers,
           \/ Take(w) \/ Process(w) \/ Ack(w) \/ BeforeFails(w) \/ Abandon(w) \/ NoDependents(w)
    PROVE  \A u \in Tasks : TaskInv(u)'
<1> DEFINE Goal == \A u \in Tasks : TaskInv(u)'
<1>0. /\ TypeInv /\ CopyInv /\ HandSettled(w)
      /\ pc \in [Workers -> WorkerPcs] /\ hold \in [Workers -> Tasks \cup {NoTask}]
      /\ active \in [Tasks -> Nat] /\ fate \in [Tasks -> Fates]
      /\ NoTask \notin Tasks
  BY ConstantsAssumption DEF LossInv, TypeInv, TypeOK
<1> USE DEF redisVars, clientVars, adminVars, histVars
<1>1. ASSUME PDequeue(w) PROVE Goal
  <2>1. /\ UNCHANGED <<queue, delayed, retry, cpc, op, fate>>
        /\ pc[w] = "idle" /\ \A u \in Tasks : ~Holds(w, u)
    BY <1>1 DEF PDequeue, Holds, Holding
  <2>2. CASE pqueue' = pqueue /\ active' = active /\ hold' = hold /\ pc' = [pc EXCEPT ![w] = "check"]
    <3>1. /\ \A u \in Tasks : ~Holds(w, u)'
          /\ \A v \in Workers \ {w} : pc'[v] = pc[v] /\ hold'[v] = hold[v]
      BY <1>0, <2>2 DEF Holds, Holding
    <3> QED
      BY <2>1, <2>2, <3>1, HoldsNothing
  <2>3. ASSUME NEW t \in pqueue, pqueue' = pqueue \ {t}, active' = [active EXCEPT ![t] = @ + 1],
               hold' = [hold EXCEPT ![w] = t], pc' = [pc EXCEPT ![w] = "pload"]
        PROVE  Goal
    <3>1. t \in Tasks /\ Waits(t)
      BY <2>3 DEF LossInv, TypeInv, TypeOK, Waits
    <3>2. Holds(w, t)' /\ pc'[w] \in OnPcs /\ active'[t] = active[t] + 1
      BY <1>0, <2>3, <3>1 DEF Holds, Holding, OnPcs
    <3>3. \A u \in Tasks \ {t} : (Waits(u)' <=> Waits(u)) /\ ~Holds(w, u)' /\ active'[u] = active[u]
      BY <1>0, <2>1, <2>3, <3>2 DEF Waits, Holds
    <3>4. \A v \in Workers \ {w} : pc'[v] = pc[v] /\ hold'[v] = hold[v]
      BY <1>0, <2>3
    <3> QED
      BY <2>1, <3>1, <3>2, <3>3, <3>4, TakesTask
  <2> QED
    BY <1>1, <2>2, <2>3 DEF PDequeue
<1>2. ASSUME CheckPause(w) \/ NoDependents(w) PROVE Goal
  <2>1. /\ UNCHANGED <<queue, pqueue, delayed, retry, cpc, op, active, fate>>
        /\ \A u \in Tasks : ~Holds(w, u) /\ ~Holds(w, u)'
        /\ \A v \in Workers \ {w} : pc'[v] = pc[v] /\ hold'[v] = hold[v]
    BY <1>0, <1>2 DEF CheckPause, NoDependents, Release, Holds, Holding
  <2> QED
    BY <2>1, HoldsNothing
<1>3. ASSUME BlPop(w) PROVE Goal
  <2>1. /\ UNCHANGED <<pqueue, delayed, retry, cpc, op, fate, active>>
        /\ \A u \in Tasks : ~Holds(w, u)
    BY <1>3 DEF BlPop, Holds, Holding
  <2>2. CASE queue = <<>>
    <3>1. /\ queue' = queue /\ \A u \in Tasks : ~Holds(w, u)'
          /\ \A v \in Workers \ {w} : pc'[v] = pc[v] /\ hold'[v] = hold[v]
      BY <1>0, <1>3, <2>2 DEF BlPop, Holds, Holding
    <3> QED
      BY <2>1, <3>1, HoldsNothing
  <2>3. CASE queue # <<>>
    <3>0. PICK t \in Tasks : t = Head(queue) /\ t \in ItemsOf(queue)
      BY <1>0, <2>3, PopFacts DEF TypeInv, TypeOK
    <3>1. queue' = Tail(queue) /\ hold' = [hold EXCEPT ![w] = t] /\ pc' = [pc EXCEPT ![w] = "popped"]
      BY <1>3, <2>3, <3>0 DEF BlPop
    <3>2. /\ Waits(t) /\ Holds(w, t)' /\ pc'[w] \notin OnPcs
          /\ \A v \in Workers \ {w} : pc'[v] = pc[v] /\ hold'[v] = hold[v]
          /\ \A u \in Tasks \ {t} : ~Holds(w, u)'
      BY <1>0, <3>0, <3>1 DEF Waits, Holds, Holding, OnPcs
    <3>3. \A u \in Tasks \ {t} : Waits(u)' <=> Waits(u)
      <4>1. ItemsOf(queue') = ItemsOf(queue) \ {t}
        BY <1>0, <2>3, <3>0, <3>1, PopKeeps DEF TypeInv, TypeOK, CopyInv, QueueOnce
      <4> QED
        BY <2>1, <4>1 DEF Waits
    <3> QED
      BY <2>1, <3>2, <3>3, TakesTask
  <2> QED
    BY <2>2, <2>3
<1>4. ASSUME NEW t \in Tasks, t = hold[w], Holds(w, t),
             PushActive(w) \/ Start(w) \/ Succeed(w) \/ Fail(w) \/ AckRemove(w)
      PROVE  Goal
  <2>1. /\ UNCHANGED <<queue, pqueue, delayed, retry, cpc, op, fate>>
        /\ Holds(w, t)'
        /\ \A v \in Workers \ {w} : pc'[v] = pc[v] /\ hold'[v] = hold[v]
    BY <1>0, <1>4 DEF PushActive, Start, Succeed, Fail, AckRemove, Holds, Holding
  <2>2. TaskInv(t) /\ Placed(t) /\ (InWork(t) <=> pc[w] \in OnPcs)
    BY <1>4, SoleHolder DEF LossInv
  <2>3. active[t] \in {0, 1} /\ (active[t] = 1 => pc[w] \in OnPcs)
        /\ (pc[w] \in OnPcs /\ fate[t] = "live" => active[t] = 1)
    BY <2>2 DEF TaskInv, ListedRight
  <2>4. CASE PushActive(w)
    <3>1. active[t] = 0 /\ active' = [active EXCEPT ![t] = @ + 1] /\ pc'[w] \in OnPcs
      BY <1>0, <1>4, <2>3, <2>4 DEF PushActive, OnPcs
    <3>2. active'[t] = 1 /\ \A u \in Tasks \ {t} : active'[u] = active[u]
      BY <1>0, <3>1
    <3> QED
      BY <1>4, <2>1, <3>1, <3>2, KeepsTask
  <2>5. CASE Start(w) \/ Succeed(w) \/ Fail(w)
    <3>1. active' = active /\ pc[w] \in OnPcs /\ pc'[w] \in OnPcs
      BY <1>0, <2>5 DEF Start, Succeed, Fail, OnPcs
    <3> QED
      BY <1>4, <2>1, <2>3, <3>1, KeepsTask
  <2>6. CASE AckRemove(w)
    <3>1. active' = LRemCount(active, t) /\ pc'[w] \notin OnPcs
      BY <1>0, <1>4, <2>6 DEF AckRemove, OnPcs
    <3>2. active'[t] = 0 /\ \A u \in Tasks \ {t} : active'[u] = active[u]
      BY <1>0, <2>3, <3>1 DEF LRemCount
    <3> QED
      BY <1>4, <2>1, <3>1, <3>2, KeepsTask
  <2> QED
    BY <1>4, <2>4, <2>5, <2>6
<1>5. ASSUME NEW t \in Tasks, t = hold[w], Holds(w, t), Load(w)
      PROVE  Goal
  <2>1. /\ UNCHANGED <<queue, pqueue, delayed, retry, cpc, op, active>> /\ pc[w] \in OnPcs
        /\ TaskInv(t) /\ Placed(t) /\ InWork(t)
    BY <1>5, SoleHolder DEF Load, OnPcs, LossInv
  <2>2. CASE pc' = [pc EXCEPT ![w] = "before"] /\ UNCHANGED <<hold, fate>>
    <3>1. /\ Holds(w, t)' /\ pc'[w] \in OnPcs
          /\ \A v \in Workers \ {w} : pc'[v] = pc[v] /\ hold'[v] = hold[v]
      BY <1>0, <1>5, <2>2 DEF Holds, Holding, OnPcs
    <3>2. active[t] \in {0, 1} /\ (fate[t] = "live" => active[t] = 1)
      BY <2>1 DEF TaskInv, ListedRight
    <3> QED
      BY <1>5, <2>1, <2>2, <3>1, <3>2, KeepsTask
  <2>3. CASE Release(w, IF pc[w] = "pload" THEN "check" ELSE "idle") /\ Settle(t, "unloadable")
    <3>1. /\ \A u \in Tasks : ~Holds(w, u)'
          /\ \A v \in Workers \ {w} : pc'[v] = pc[v] /\ hold'[v] = hold[v]
      BY <1>0, <2>3 DEF Release, Holds
    <3>2. /\ fate'[t] = IF fate[t] = "live" THEN "unloadable" ELSE fate[t]
          /\ \A u \in Tasks \ {t} : fate'[u] = fate[u]
      BY <1>0, <2>3 DEF Settle
    <3> QED
      BY <1>5, <2>1, <3>1, <3>2, DropsTask DEF Fates
  <2> QED
    BY <1>5, <2>2, <2>3 DEF Load
<1>6. ASSUME NEW t \in Tasks, t = hold[w], Holds(w, t), BeforeFails(w) \/ Abandon(w)
      PROVE  Goal
  <2>1. /\ UNCHANGED <<queue, pqueue, delayed, retry, cpc, op, active>>
        /\ Release(w, "idle") /\ Settle(t, "abandoned")
    BY <1>6 DEF BeforeFails, Abandon
  <2>2. /\ \A u \in Tasks : ~Holds(w, u)'
        /\ \A v \in Workers \ {w} : pc'[v] = pc[v] /\ hold'[v] = hold[v]
    BY <1>0, <2>1 DEF Release, Holds
  <2>3. /\ fate'[t] = IF fate[t] = "live" THEN "abandoned" ELSE fate[t]
        /\ \A u \in Tasks \ {t} : fate'[u] = fate[u]
    BY <1>0, <2>1 DEF Settle
  <2> QED
    BY <1>6, <2>1, <2>2, <2>3, DropsTask DEF Fates
<1>7. ASSUME pc[w] = "deps", Abandon(w) PROVE Goal
  <2>1. /\ UNCHANGED <<queue, pqueue, delayed, retry, cpc, op, active>>
        /\ Release(w, "idle") /\ Settle(hold[w], "abandoned") /\ fate[hold[w]] # "live"
    BY <1>0, <1>7 DEF Abandon, HandSettled
  <2>2. /\ \A u \in Tasks : ~Holds(w, u) /\ ~Holds(w, u)'
        /\ \A v \in Workers \ {w} : pc'[v] = pc[v] /\ hold'[v] = hold[v]
    BY <1>0, <1>7, <2>1 DEF Release, Holds, Holding
  <2>3. fate' = fate
    BY <1>0, <2>1 DEF Settle
  <2> QED
    BY <2>1, <2>2, <2>3, HoldsNothing
<1>8. ASSUME NEW t \in Tasks, t = hold[w], Holds(w, t), AckStore(w) PROVE Goal
  <2>1. /\ UNCHANGED <<queue, pqueue, delayed, retry, cpc, op, active, hold>>
        /\ pc[w] = "store" /\ pc[w] \notin OnPcs
        /\ \A v \in Workers \ {w} : pc'[v] = pc[v] /\ hold'[v] = hold[v]
    BY <1>0, <1>8 DEF AckStore, OnPcs
  <2>2. CASE out[w] = "Retry"
    <3>1. Holds(w, t)' /\ pc'[w] \notin OnPcs /\ fate' = fate
      BY <1>0, <1>8, <2>1, <2>2 DEF AckStore, Holds, Holding, OnPcs
    <3>2. active[t] = 0
      <4>1. TaskInv(t) /\ Placed(t) /\ ~InWork(t)
        BY <1>8, <2>1, SoleHolder DEF LossInv
      <4> QED
        BY <4>1 DEF TaskInv, ListedRight
    <3> QED
      BY <1>8, <2>1, <3>1, <3>2, KeepsTask
  <2>3. CASE out[w] # "Retry"
    <3>1. PICK why \in {"processed", "dead"} : Settle(t, why)
      BY <1>8, <2>3 DEF AckStore
    <3>2. /\ fate'[t] = IF fate[t] = "live" THEN why ELSE fate[t]
          /\ \A u \in Tasks \ {t} : fate'[u] = fate[u]
      BY <1>0, <3>1 DEF Settle
    <3>3. \A u \in Tasks : ~Holds(w, u)'
      BY <1>0, <1>8, <2>3 DEF AckStore, Holds, Holding
    <3>4. why \in Fates \ {"live"}
      BY DEF Fates
    <3> QED
      BY <1>8, <2>1, <3>2, <3>3, <3>4, DropsTask
  <2> QED
    BY <2>2, <2>3
<1>9. ASSUME NEW t \in Tasks, t = hold[w], Holds(w, t), ScheduleRetry(w) PROVE Goal
  <2>1. /\ retry' = retry \cup {t} /\ UNCHANGED <<queue, pqueue, delayed, cpc, op, active, fate>>
        /\ Release(w, "idle") /\ pc[w] \notin OnPcs
    BY <1>9 DEF ScheduleRetry, OnPcs
  <2>2. /\ \A u \in Tasks : ~Holds(w, u)'
        /\ \A v \in Workers \ {w} : pc'[v] = pc[v] /\ hold'[v] = hold[v]
    BY <1>0, <2>1 DEF Release, Holds
  <2>3. ASSUME NEW u \in Tasks \ {t} PROVE TaskInv(u)'
    <3>1. ~Holds(w, u) /\ (Waits(u)' <=> Waits(u))
      BY <1>9, <2>1 DEF Holds, Waits
    <3> QED
      BY <2>1, <2>2, <3>1, Elsewhere, TaskStill DEF LossInv
  <2>4. TaskInv(t)'
    <3>1. Waits(t)'
      BY <2>1 DEF Waits
    <3>2. TaskInv(t) /\ Placed(t) /\ ~InWork(t)
      BY <1>9, <2>1, SoleHolder DEF LossInv
    <3> QED
      BY <2>1, <3>1, <3>2, WaitingIsFreeNext, TaskStill
  <2> QED
    BY <2>3, <2>4
<1>10. pc[w] \in Holding \cup {"deps"} => hold[w] \in Tasks
  BY <1>0 DEF TypeInv, HoldsTask
<1>11. ASSUME pc[w] \in Holding PROVE hold[w] \in Tasks /\ Holds(w, hold[w])
  BY <1>10, <1>11 DEF Holds
<1>12. ASSUME \/ PushActive(w) \/ Start(w) \/ Succeed(w) \/ Fail(w) \/ AckRemove(w)
              \/ Load(w) \/ BeforeFails(w) \/ AckStore(w) \/ ScheduleRetry(w)
       PROVE  pc[w] \in Holding
  BY <1>12 DEF PushActive, Start, Succeed, Fail, AckRemove, Load, BeforeFails, AckStore,
     ScheduleRetry, Holding
<1>13. ASSUME Abandon(w) PROVE pc[w] \in Holding \cup {"deps"}
  BY <1>0, <1>13 DEF Abandon, HandSettled, WorkerPcs, Holding
<1> HIDE DEF Goal
<1>14. ASSUME pc[w] \in Holding,
              \/ PushActive(w) \/ Start(w) \/ Succeed(w) \/ Fail(w) \/ AckRemove(w)
              \/ Load(w) \/ BeforeFails(w) \/ Abandon(w) \/ AckStore(w) \/ ScheduleRetry(w)
       PROVE  Goal
  <2>1. PICK t \in Tasks : t = hold[w] /\ Holds(w, t)
    BY <1>11, <1>14
  <2> QED
    BY <1>4, <1>5, <1>6, <1>8, <1>9, <1>14, <2>1
<1>15. Goal
  BY <1>1, <1>2, <1>3, <1>7, <1>12, <1>13, <1>14 DEF Take, Process, Ack
<1> QED
  BY <1>15 DEF Goal

-----------------------------------------------------------------------------
(* Clients, the scheduler and administrators.                              *)

(* A submitting call makes its task visible with the command that puts it   *)
(* into a container, and not before.                                        *)
LEMMA SubmitTasks ==
    ASSUME LossInv, CopyInv', TypeInv', NEW t \in Tasks, Submit(t)
    PROVE  \A u \in Tasks : TaskInv(u)'
<1>0. /\ TypeInv /\ CopyInv /\ TaskInv(t)
      /\ cpc \in [Tasks -> {"new", "dedup", "push", "ok", "rejected"}]
      /\ op \in [Tasks -> SubmitOps \cup {"none"}]
  BY DEF LossInv, TypeInv, TypeOK
<1>1. /\ UNCHANGED <<pc, hold, active, fate>>
      /\ \A u \in Tasks \ {t} : (Waits(u)' <=> Waits(u)) /\ cpc'[u] = cpc[u] /\ op'[u] = op[u]
  <2>1. CASE ToQueue(t)
    <3>1. ItemsOf(queue') = ItemsOf(queue) \cup {t}
      BY <1>0, <2>1, AppendFacts DEF ToQueue, TypeInv, TypeOK
    <3> QED
      BY <1>0, <2>1, <3>1 DEF ToQueue, Waits, workerVars, histVars
  <2>2. CASE ToPQueue(t) \/ ToDelayed(t) \/ Dedup(t) \/ \E o \in Ops : Store(t, o)
    BY <1>0, <2>2 DEF ToPQueue, ToDelayed, Dedup, Store, Waits, workerVars, histVars
  <2> QED
    BY <2>1, <2>2 DEF Submit
<1>2. ASSUME NEW u \in Tasks \ {t} PROVE TaskInv(u)'
  BY <1>1, HandsStill, TaskStill DEF LossInv
<1>3. ASSUME Waits(t)' <=> Waits(t), Visible(t)' <=> Visible(t),
             cpc'[t] = "dedup" => op'[t] \in {"enqueue", "enqueue_priority", "enqueue_batch"}
      PROVE  TaskInv(t)'
  <2>1. (Placed(t)' <=> Placed(t)) /\ (InWork(t)' <=> InWork(t))
    BY <1>1, <1>3, HandsStill
  <2> HIDE DEF Visible
  <2> QED
    BY <1>0, <1>1, <1>3, <2>1 DEF TaskInv, Accounted, ListedRight, InSystem
<1>4. ASSUME NEW o \in Ops, Store(t, o) PROVE TaskInv(t)'
  <2>1. /\ Waits(t)' <=> Waits(t)
        /\ cpc[t] = "new" /\ op'[t] = o /\ cpc'[t] = IF o = "enqueue" THEN "dedup" ELSE "push"
    BY <1>0, <1>4 DEF Store, Waits
  <2> QED
    BY <1>3, <2>1 DEF Visible
<1>5. ASSUME Dedup(t) PROVE TaskInv(t)'
  <2>1. /\ Waits(t)' <=> Waits(t)
        /\ cpc[t] = "dedup" /\ op' = op /\ op[t] \in {"enqueue", "enqueue_priority", "enqueue_batch"}
        /\ cpc'[t] \in {"push", "rejected", "ok"}
        /\ op[t] = "enqueue" => cpc'[t] # "ok"
        /\ op[t] # "enqueue" => cpc'[t] # "push"
    BY <1>0, <1>5 DEF Dedup, Waits, TaskInv, Accounted
  <2> QED
    BY <1>3, <2>1 DEF Visible
<1>6. ASSUME ToPQueue(t) \/ ToQueue(t) \/ ToDelayed(t) PROVE TaskInv(t)'
  <2>1. Waits(t)'
    <3>1. ToQueue(t) => t \in ItemsOf(queue')
      BY <1>0, AppendFacts DEF ToQueue, TypeInv, TypeOK
    <3> QED
      BY <1>6, <3>1 DEF ToPQueue, ToDelayed, Waits
  <2>2. /\ cpc[t] = "push" /\ op' = op
        /\ \/ cpc'[t] = "ok"
           \/ cpc'[t] = "dedup" /\ op[t] \in {"enqueue_priority", "enqueue_batch"}
    BY <1>0, <1>6 DEF ToPQueue, ToQueue, ToDelayed
  <2>3. active[t] = 0 /\ InSystem(t)
    BY <1>0, <2>2 DEF TaskInv, Accounted, Visible
  <2>4. Placed(t)' /\ ~InWork(t)'
    BY <2>1, WaitingIsFreeNext
  <2> QED
    BY <1>1, <2>2, <2>3, <2>4 DEF TaskInv, Accounted, ListedRight, InSystem, Visible
<1>7. TaskInv(t)'
  BY <1>4, <1>5, <1>6 DEF Submit
<1> QED
  BY <1>2, <1>7

(* The steps that move no task out of the system.                          *)
LEMMA QuietTasks ==
    ASSUME LossInv,
           \/ \E t \in Tasks : MoveDelayed(t) \/ MoveRetry(t) \/ Expire(t)
           \/ \E a \in Admins : (\E t \in Tasks : StartCancel(a, t)) \/ CancelClean(a) \/ CancelUnique(a)
           \/ \E b \in BOOLEAN : SetPause(b)
           \/ UNCHANGED vars
    PROVE  \A u \in Tasks : TaskInv(u)'
<1>1. UNCHANGED <<pc, hold, cpc, op, active, fate>>
  BY DEF MoveDelayed, MoveRetry, Expire, StartCancel, CancelClean, CancelUnique, SetPause, vars,
         redisVars, clientVars, workerVars, histVars
<1>2. \A u \in Tasks : Waits(u)' <=> Waits(u)
  <2>1. ASSUME NEW t \in Tasks, MoveDelayed(t) \/ MoveRetry(t)
        PROVE  \A u \in Tasks : Waits(u)' <=> Waits(u)
    <3>1. ItemsOf(queue') = ItemsOf(queue) \cup {t}
      BY <2>1, AppendFacts DEF MoveDelayed, MoveRetry, LossInv, TypeInv, TypeOK
    <3> QED
      BY <2>1, <3>1 DEF MoveDelayed, MoveRetry, Waits
  <2>2. ASSUME UNCHANGED <<queue, pqueue, delayed, retry>>
        PROVE  \A u \in Tasks : Waits(u)' <=> Waits(u)
    BY <2>2 DEF Waits
  <2> QED
    BY <2>1, <2>2 DEF Expire, StartCancel, CancelClean, CancelUnique, SetPause, vars, redisVars
<1> QED
  BY <1>1, <1>2, HandsStill, TaskStill DEF LossInv

(* A flushed task was in the queue, so it is nowhere else.                  *)
LEMMA FlushTasks ==
    ASSUME LossInv, Flush
    PROVE  \A u \in Tasks : TaskInv(u)'
<1>1. /\ UNCHANGED <<pqueue, delayed, retry, pc, hold, cpc, op, active>> /\ ItemsOf(queue') = {}
      /\ fate' = [t \in Tasks |-> IF t \in ItemsOf(queue) /\ fate[t] = "live" THEN "flushed" ELSE fate[t]]
  BY DEF Flush, ItemsOf, clientVars, workerVars
<1> SUFFICES ASSUME NEW u \in Tasks PROVE TaskInv(u)'
  OBVIOUS
<1>2. CASE u \in ItemsOf(queue)
  <2>1. Waits(u) /\ u \notin pqueue \cup delayed \cup retry
    BY <1>2 DEF Waits, LossInv, CopyInv, ContainersApart
  <2>2. TaskInv(u) /\ Placed(u) /\ ~InWork(u) /\ \A v \in Workers : ~Holds(v, u)
    BY <2>1, WaitingIsFree DEF LossInv
  <2>3. ~Placed(u)' /\ ~InWork(u)'
    BY <1>1, <2>1, <2>2 DEF Placed, Waits, Holds, InWork
  <2>4. fate'[u] = IF fate[u] = "live" THEN "flushed" ELSE fate[u]
    BY <1>1, <1>2
  <2> QED
    BY <1>1, <2>2, <2>3, <2>4 DEF TaskInv, Accounted, ListedRight, InSystem, Visible
<1>3. CASE u \notin ItemsOf(queue)
  <2>1. (Waits(u)' <=> Waits(u)) /\ fate'[u] = fate[u]
    BY <1>1, <1>3 DEF Waits
  <2> QED
    BY <1>1, <2>1, HandsStill, TaskStill DEF LossInv
<1> QED
  BY <1>2, <1>3

(* A command of cancel_task takes its task out of one container or finds    *)
(* nothing there, and touches no other task.                                *)
LEMMA CancelTasks ==
    ASSUME LossInv, NEW a \in Admins, CancelStep(a)
    PROVE  \A u \in Tasks : TaskInv(u)'
<1>0. PICK t \in Tasks : t = atask[a] /\ TaskInv(t)
  BY DEF LossInv, TypeInv, HoldsTask, CancelStep, NextPlace, CancelPcs
<1>1. /\ TypeInv /\ active \in [Tasks -> Nat] /\ fate \in [Tasks -> Fates] /\ queue \in Seq(Tasks)
      /\ UNCHANGED <<pc, hold, cpc, op>>
  BY DEF LossInv, TypeInv, TypeOK, CancelStep, clientVars, workerVars
<1>2. /\ \A u \in Tasks \ {t} : u \in ItemsOf(queue') <=> u \in ItemsOf(queue)
      /\ t \in ItemsOf(queue') => t \in ItemsOf(queue)
      /\ t \notin ItemsOf(queue) => queue' = queue
  BY <1>0, <1>1, LRemFacts, LRemKeeps DEF CancelStep
<1>3. /\ \A u \in Tasks \ {t} : (Waits(u)' <=> Waits(u)) /\ active'[u] = active[u] /\ fate'[u] = fate[u]
      /\ Waits(t)' => Waits(t)
      /\ active'[t] \in {active[t], 0}
  <2>1. active' = active \/ active' = LRemCount(active, t)
    BY <1>0 DEF CancelStep
  <2>2. \A u \in Tasks \ {t} : active'[u] = active[u]
    BY <1>1, <2>1 DEF LRemCount
  <2>3. active'[t] \in {active[t], 0}
    BY <1>0, <1>1, <2>1 DEF LRemCount, TaskInv, ListedRight
  <2>4. fate' = fate \/ Settle(t, "cancelled")
    BY <1>0 DEF CancelStep
  <2>5. \A u \in Tasks \ {t} : fate'[u] = fate[u]
    BY <1>1, <2>4 DEF Settle
  <2>6. /\ pqueue' = pqueue \/ pqueue' = pqueue \ {t}
        /\ delayed' = delayed \/ delayed' = delayed \ {t}
        /\ retry' = retry \/ retry' = retry \ {t}
    BY <1>0 DEF CancelStep
  <2> QED
    BY <1>2, <2>2, <2>3, <2>5, <2>6 DEF Waits
<1>4. ASSUME NEW u \in Tasks \ {t} PROVE TaskInv(u)'
  BY <1>1, <1>3, HandsStill, TaskStill DEF LossInv
<1>5. TaskInv(t)'
  <2>1. CASE Settle(t, "cancelled")
    <3>1. fate'[t] = IF fate[t] = "live" THEN "cancelled" ELSE fate[t]
      BY <1>1, <2>1 DEF Settle
    <3>2. (Placed(t)' => Placed(t)) /\ (InWork(t)' <=> InWork(t))
      BY <1>1, <1>3 DEF Placed, Holds, InWork
    <3> QED
      BY <1>0, <1>1, <1>3, <3>1, <3>2 DEF TaskInv, Accounted, ListedRight, InSystem, Visible
  <2>2. CASE ~Settle(t, "cancelled")
    <3> DEFINE Same == /\ fate' = fate /\ active'[t] = active[t]
                       /\ queue' = queue /\ pqueue' = pqueue /\ delayed' = delayed /\ retry' = retry
    <3>1. Same
      <4>1. ASSUME apc[a] = "pending" PROVE Same
        <5>1. t \notin ItemsOf(queue)
          BY <1>0, <2>2, <4>1 DEF CancelStep
        <5> QED
          BY <1>0, <1>1, <1>2, <2>2, <4>1, <5>1 DEF CancelStep, LRemCount, TaskInv, ListedRight
      <4>2. ASSUME apc[a] = "active" PROVE Same
        <5>1. ~(active[t] > 0)
          BY <1>0, <2>2, <4>2 DEF CancelStep
        <5> QED
          BY <1>0, <1>1, <1>2, <2>2, <4>2, <5>1 DEF CancelStep, LRemCount, TaskInv, ListedRight
      <4>3. ASSUME apc[a] = "delayed" PROVE Same
        <5>1. t \notin delayed
          BY <1>0, <2>2, <4>3 DEF CancelStep
        <5> QED
          BY <1>0, <1>1, <1>2, <2>2, <4>3, <5>1 DEF CancelStep, LRemCount, TaskInv, ListedRight
      <4>4. ASSUME apc[a] = "retry" PROVE Same
        <5>1. t \notin retry
          BY <1>0, <2>2, <4>4 DEF CancelStep
        <5> QED
          BY <1>0, <1>1, <1>2, <2>2, <4>4, <5>1 DEF CancelStep, LRemCount, TaskInv, ListedRight
      <4>5. ASSUME apc[a] = "dead" PROVE Same
        BY <1>0, <2>2, <4>5 DEF CancelStep
      <4>6. ASSUME apc[a] = "priority" PROVE Same
        <5>1. t \notin pqueue
          BY <1>0, <2>2, <4>6 DEF CancelStep
        <5> QED
          BY <1>0, <1>1, <1>2, <2>2, <4>6, <5>1 DEF CancelStep, LRemCount, TaskInv, ListedRight
      <4>7. apc[a] \in {"pending", "active", "delayed", "retry", "dead", "priority"}
        BY DEF CancelStep, NextPlace
      <4> QED
        BY <4>1, <4>2, <4>3, <4>4, <4>5, <4>6, <4>7
    <3>2. Waits(t)' <=> Waits(t)
      BY <3>1 DEF Waits
    <3> QED
      BY <1>0, <1>1, <3>1, <3>2, HandsStill, TaskStill
  <2> QED
    BY <2>1, <2>2
<1> QED
  BY <1>4, <1>5

(* Nothing gives a settled task back to the system.                         *)
LEMMA FateIsFinal ==
    ASSUME LossInv, [Next]_vars
    PROVE  \A t \in Tasks : fate[t] # "live" => fate'[t] = fate[t]
<1>1. fate \in [Tasks -> Fates]
  BY DEF LossInv, TypeInv, TypeOK
<1>2. \A t \in Tasks : \A why : Settle(t, why) => \A u \in Tasks : fate[u] # "live" => fate'[u] = fate[u]
  BY <1>1 DEF Settle
<1>3. ASSUME NEW w \in Workers,
             \/ Take(w) \/ Process(w) \/ Ack(w) \/ BeforeFails(w) \/ Abandon(w) \/ NoDependents(w)
      PROVE  \A t \in Tasks : fate[t] # "live" => fate'[t] = fate[t]
  <2>1. fate' = fate \/ \E why \in Fates : Settle(hold[w], why)
    BY <1>3 DEF Take, PDequeue, CheckPause, BlPop, PushActive, Load, Process, Start, Succeed, Fail, Ack,
       AckRemove, AckStore, ScheduleRetry, BeforeFails, Abandon, NoDependents, histVars, Fates
  <2> QED
    BY <1>1, <2>1 DEF Settle
<1>4. ASSUME NEW a \in Admins, Cancel(a) PROVE \A t \in Tasks : fate[t] # "live" => fate'[t] = fate[t]
  <2>1. fate' = fate \/ Settle(atask[a], "cancelled")
    BY <1>4 DEF Cancel, StartCancel, CancelStep, CancelClean, CancelUnique, histVars
  <2> QED
    BY <1>1, <2>1 DEF Settle
<1>5. CASE Flush
  BY <1>1, <1>5 DEF Flush
<1>6. CASE \/ \E t \in Tasks : Submit(t) \/ MoveDelayed(t) \/ MoveRetry(t) \/ Expire(t)
           \/ \E b \in BOOLEAN : SetPause(b)
           \/ UNCHANGED vars
  BY <1>6 DEF Submit, Store, Dedup, ToPQueue, ToQueue, ToDelayed, MoveDelayed, MoveRetry, Expire, SetPause,
     vars, histVars
<1> QED
  BY <1>3, <1>4, <1>5, <1>6 DEF Next, Core

-----------------------------------------------------------------------------
LEMMA LossInit == Init => LossInv
<1> SUFFICES ASSUME Init PROVE LossInv
  OBVIOUS
<1>1. TypeInv /\ CopyInv
  BY TypeInit, CopyInit
<1>2. \A t \in Tasks : ~Placed(t) /\ ~InWork(t)
  BY DEF Init, Placed, Waits, Holds, InWork, ItemsOf, Holding, OnPcs
<1>3. \A t \in Tasks : TaskInv(t)
  BY <1>2 DEF Init, TaskInv, Accounted, ListedRight, InSystem, Visible
<1>4. \A w \in Workers : HandSettled(w)
  BY DEF Init, HandSettled
<1> QED
  BY <1>1, <1>3, <1>4 DEF LossInv

LEMMA HandsStep ==
    ASSUME LossInv, [Next]_vars
    PROVE  \A v \in Workers : HandSettled(v)'
<1>0. /\ TypeInv /\ \A v \in Workers : HandSettled(v)
      /\ pc \in [Workers -> WorkerPcs] /\ hold \in [Workers -> Tasks \cup {NoTask}]
      /\ fate \in [Tasks -> Fates]
  BY DEF LossInv, TypeInv, TypeOK
<1>1. \A t \in Tasks : fate[t] # "live" => fate'[t] # "live"
  BY FateIsFinal
<1>2. ASSUME NEW w \in Workers,
             \/ Take(w) \/ Process(w) \/ Ack(w) \/ BeforeFails(w) \/ Abandon(w) \/ NoDependents(w)
      PROVE  \A v \in Workers : HandSettled(v)'
  <2> USE DEF redisVars, clientVars, adminVars, histVars
  <2>1. ASSUME NEW v \in Workers \ {w} PROVE HandSettled(v)'
    <3>1. pc'[v] = pc[v] /\ hold'[v] = hold[v]
      <4>1. \/ UNCHANGED <<pc, hold>>
            \/ UNCHANGED hold /\ \E p \in WorkerPcs : pc' = [pc EXCEPT ![w] = p]
            \/ \E p \in WorkerPcs : \E t : pc' = [pc EXCEPT ![w] = p] /\ hold' = [hold EXCEPT ![w] = t]
        <5>1. CASE Take(w)
          BY <5>1 DEF Take, PDequeue, CheckPause, BlPop, PushActive, Load, Release, WorkerPcs, Holding
        <5>2. CASE Process(w)
          BY <5>2 DEF Process, Start, Succeed, Fail, WorkerPcs, Holding
        <5>3. CASE Ack(w)
          BY <5>3 DEF Ack, AckRemove, AckStore, ScheduleRetry, Release, WorkerPcs, Holding
        <5>4. CASE BeforeFails(w) \/ Abandon(w) \/ NoDependents(w)
          BY <5>4 DEF BeforeFails, Abandon, NoDependents, Release, WorkerPcs, Holding
        <5> QED
          BY <1>2, <5>1, <5>2, <5>3, <5>4
      <4> QED
        BY <1>0, <4>1
    <3> QED
      BY <1>0, <1>1, <3>1, SettledStays
  <2>2. HandSettled(w)'
    <3>1. CASE AckStore(w)
      <4>1. hold' = hold /\ hold[w] \in Tasks /\ pc'[w] = IF out[w] = "Retry" THEN "retry" ELSE "deps"
        BY <1>0, <3>1 DEF AckStore, TypeInv, HoldsTask, Holding
      <4>2. ASSUME out[w] # "Retry" PROVE fate'[hold[w]] # "live"
        <5>1. PICK why \in {"processed", "dead"} : Settle(hold[w], why)
          BY <3>1, <4>2 DEF AckStore
        <5> QED
          BY <1>0, <4>1, <5>1 DEF Settle
      <4> QED
        BY <4>1, <4>2 DEF HandSettled
    <3>2. CASE pc' = [pc EXCEPT ![w] = pc'[w]] /\ pc'[w] \notin {"idle", "check", "blpop", "deps"}
      BY <3>2 DEF HandSettled
    <3>3. CASE pc'[w] # "deps" /\ hold'[w] = NoTask
      BY <3>3 DEF HandSettled
    <3>4. CASE Take(w)
      <4>1. CASE PDequeue(w)
        BY <1>0, <3>2, <3>3, <4>1 DEF PDequeue, HandSettled
      <4>2. CASE CheckPause(w)
        BY <1>0, <3>3, <4>2 DEF CheckPause, HandSettled
      <4>3. CASE BlPop(w)
        BY <1>0, <3>2, <3>3, <4>3 DEF BlPop, HandSettled
      <4>4. CASE PushActive(w)
        BY <1>0, <3>2, <4>4 DEF PushActive
      <4>5. CASE Load(w)
        BY <1>0, <3>2, <3>3, <4>5 DEF Load, Release
      <4> QED
        BY <3>4, <4>1, <4>2, <4>3, <4>4, <4>5 DEF Take
    <3>5. CASE Process(w) \/ AckRemove(w)
      BY <1>0, <3>2, <3>5 DEF Process, Start, Succeed, Fail, AckRemove
    <3>6. CASE ScheduleRetry(w) \/ BeforeFails(w) \/ Abandon(w) \/ NoDependents(w)
      BY <1>0, <3>3, <3>6 DEF ScheduleRetry, BeforeFails, Abandon, NoDependents, Release
    <3> QED
      BY <1>2, <3>1, <3>4, <3>5, <3>6 DEF Ack
  <2> QED
    BY <2>1, <2>2
<1>3. ASSUME UNCHANGED <<pc, hold>> PROVE \A v \in Workers : HandSettled(v)'
  BY <1>0, <1>1, <1>3, SettledStays
<1>4. CASE \/ \E t \in Tasks : Submit(t) \/ MoveDelayed(t) \/ MoveRetry(t) \/ Expire(t)
           \/ \E a \in Admins : Cancel(a)
           \/ \E b \in BOOLEAN : SetPause(b)
           \/ Flush
           \/ UNCHANGED vars
  <2>1. UNCHANGED <<pc, hold>>
    BY <1>4 DEF Submit, Store, Dedup, ToPQueue, ToQueue, ToDelayed, MoveDelayed, MoveRetry, Expire,
       Cancel, StartCancel, CancelStep, CancelClean, CancelUnique, SetPause, Flush, vars, workerVars
  <2> QED
    BY <1>3, <2>1
<1> QED
  BY <1>2, <1>4 DEF Next, Core

LEMMA LossStep == LossInv /\ [Next]_vars => LossInv'
<1> SUFFICES ASSUME LossInv, [Next]_vars PROVE LossInv'
  OBVIOUS
<1>1. TypeInv' /\ CopyInv'
  BY TypeStep, CopyStep DEF LossInv
<1>2. \A u \in Tasks : TaskInv(u)'
  <2>1. ASSUME NEW w \in Workers,
               \/ Take(w) \/ Process(w) \/ Ack(w) \/ BeforeFails(w) \/ Abandon(w) \/ NoDependents(w)
        PROVE  \A u \in Tasks : TaskInv(u)'
    BY <1>1, <2>1, WorkerTasks
  <2>2. ASSUME NEW t \in Tasks, Submit(t) PROVE \A u \in Tasks : TaskInv(u)'
    BY <1>1, <2>2, SubmitTasks
  <2> QED
    BY <2>1, <2>2, QuietTasks, FlushTasks, CancelTasks DEF Next, Core, Cancel
<1> QED
  BY <1>1, <1>2, HandsStep DEF LossInv

LEMMA LossHolds == Spec => []LossInv
  BY LossInit, LossStep, PTL DEF Spec

(* Where a task is, as the set of places of the model.                      *)
LEMMA PlacesFacts ==
    ASSUME NEW t \in Tasks
    PROVE  /\ Places(t) # {} <=> Placed(t)
           /\ ~Waits(t) => Places(t) = {<<"worker", w>> : w \in HeldBy(t)}
<1>1. HeldBy(t) = {w \in Workers : Holds(w, t)}
  BY DEF HeldBy, Holds
<1>2. ASSUME ~Waits(t) PROVE Places(t) = {<<"worker", w>> : w \in HeldBy(t)}
  <2>1. {j \in DOMAIN queue : queue[j] = t} = {}
    BY <1>2 DEF Waits, ItemsOf
  <2>2. t \notin pqueue /\ t \notin delayed /\ t \notin retry
    BY <1>2 DEF Waits
  <2> QED
    BY <2>1, <2>2 DEF Places
<1>3. ASSUME Waits(t) PROVE Places(t) # {}
  <2>1. CASE t \in ItemsOf(queue)
    <3>1. PICK j \in DOMAIN queue : queue[j] = t
      BY <2>1 DEF ItemsOf
    <3>2. <<"queue", j>> \in Places(t)
      BY <3>1 DEF Places
    <3> QED
      BY <3>2
  <2>2. CASE t \in pqueue
    <3>1. <<"zset", "pqueue">> \in Places(t)
      BY <2>2 DEF Places
    <3> QED
      BY <3>1
  <2>3. CASE t \in delayed
    <3>1. <<"zset", "delayed">> \in Places(t)
      BY <2>3 DEF Places
    <3> QED
      BY <3>1
  <2>4. CASE t \in retry
    <3>1. <<"zset", "retry">> \in Places(t)
      BY <2>4 DEF Places
    <3> QED
      BY <3>1
  <2> QED
    BY <1>3, <2>1, <2>2, <2>3, <2>4 DEF Waits
<1> QED
  BY <1>1, <1>2, <1>3 DEF Placed

(* Whatever fails or is cancelled in between, the active list says who      *)
(* works on what, and an entry nobody works on belongs to a dropped task.   *)
THEOREM ActiveListIsExact == Spec => []ActiveListExact
<1>1. LossInv => ActiveListExact
  <2> SUFFICES ASSUME LossInv, NEW t \in Tasks
               PROVE  /\ active[t] <= 1
                      /\ active[t] = 1 => Places(t) = {<<"worker", w>> : w \in OnActive(t)}
                      /\ OnActive(t) # {} /\ fate[t] = "live" => active[t] = 1
                      /\ active[t] = 1 /\ OnActive(t) = {} => fate[t] \in {"abandoned", "unloadable", "cancelled"}
    BY DEF ActiveListExact
  <2>1. OnActive(t) = {w \in Workers : Holds(w, t) /\ pc[w] \in OnPcs}
    BY DEF OnActive, HeldBy, Holds, OnPcs
  <2>2. OnActive(t) # {} <=> InWork(t)
    BY <2>1 DEF InWork, Holds, OnPcs, Holding
  <2>3. ListedRight(t) /\ CopyInv
    BY DEF LossInv, TaskInv
  <2>4. ASSUME active[t] = 1 PROVE Places(t) = {<<"worker", w>> : w \in OnActive(t)}
    <3>1. ~Waits(t)
      BY <2>3, <2>4, WaitingIsFree DEF ListedRight
    <3>2. HeldBy(t) = OnActive(t)
      <4>1. \A w \in Workers : Holds(w, t) => pc[w] \in OnPcs
        BY <2>3, <2>4, SoleHolder DEF ListedRight
      <4> QED
        BY <2>1, <4>1 DEF HeldBy, Holds
    <3> QED
      BY <3>1, <3>2, PlacesFacts
  <2> QED
    BY <2>2, <2>3, <2>4 DEF ListedRight
<1> QED
  BY <1>1, LossHolds, PTL

(* A submitted task is in the system until it is processed, dead, flushed   *)
(* or dropped, and not after that.                                          *)
THEOREM NothingLost == Spec => []Conservation
<1>1. LossInv => Conservation
  BY PlacesFacts DEF LossInv, TaskInv, Accounted, InSystem, Conservation
<1> QED
  BY <1>1, LossHolds, PTL

-----------------------------------------------------------------------------
(* Pausing.                                                                *)

(* Only while the queue is paused is anything counted, and a worker that    *)
(* waits for BLPOP looked at the pause key before.                          *)
PauseInv ==
    /\ TypeInv
    /\ ~paused => \A w \in Workers : took[w] = 0
    /\ \A w \in Workers : took[w] <= 1 /\ (pc[w] = "blpop" => took[w] = 0)

LEMMA PauseStep == PauseInv /\ [Next]_vars => PauseInv'
<1> SUFFICES ASSUME PauseInv, [Next]_vars PROVE PauseInv'
  OBVIOUS
<1>0. TypeInv /\ TypeInv' /\ pc \in [Workers -> WorkerPcs] /\ took \in [Workers -> Nat]
  BY TypeStep DEF PauseInv, TypeInv, TypeOK
<1> USE DEF redisVars, clientVars, workerVars, adminVars, histVars
<1>1. ASSUME UNCHANGED <<paused, took>>, \A w \in Workers : pc'[w] = "blpop" => pc[w] = "blpop" \/ ~paused
      PROVE  PauseInv'
  BY <1>0, <1>1 DEF PauseInv
<1>2. ASSUME NEW w \in Workers, Take(w) PROVE PauseInv'
  <2>1. CASE BlPop(w) /\ queue # <<>>
    <3>1. /\ pc' = [pc EXCEPT ![w] = "popped"] /\ pc[w] = "blpop" /\ paused' = paused
          /\ took' = [took EXCEPT ![w] = IF paused THEN @ + 1 ELSE @]
      BY <2>1 DEF BlPop
    <3>2. took[w] = 0
      BY <3>1 DEF PauseInv
    <3>3. \A v \in Workers \ {w} : pc'[v] = pc[v] /\ took'[v] = took[v]
      BY <1>0, <3>1
    <3>4. pc'[w] = "popped" /\ took'[w] = IF paused THEN 1 ELSE 0
      BY <1>0, <3>1, <3>2
    <3> QED
      BY <1>0, <3>1, <3>3, <3>4 DEF PauseInv
  <2>2. CASE BlPop(w) /\ queue = <<>>
    BY <1>0, <1>1, <2>2 DEF BlPop
  <2>3. CASE PDequeue(w) \/ CheckPause(w) \/ PushActive(w) \/ Load(w)
    BY <1>0, <1>1, <2>3 DEF PDequeue, CheckPause, PushActive, Load, Release
  <2> QED
    BY <1>2, <2>1, <2>2, <2>3 DEF Take
<1>3. ASSUME NEW w \in Workers,
             Process(w) \/ Ack(w) \/ BeforeFails(w) \/ Abandon(w) \/ NoDependents(w)
      PROVE  PauseInv'
  BY <1>0, <1>1, <1>3 DEF Process, Start, Succeed, Fail, Ack, AckRemove, AckStore, ScheduleRetry,
     BeforeFails, Abandon, NoDependents, Release
<1>4. ASSUME NEW b \in BOOLEAN, SetPause(b) PROVE PauseInv'
  BY <1>0, <1>4 DEF SetPause, PauseInv
<1>5. CASE \/ \E t \in Tasks : Submit(t) \/ MoveDelayed(t) \/ MoveRetry(t) \/ Expire(t)
           \/ \E a \in Admins : Cancel(a)
           \/ Flush
           \/ UNCHANGED vars
  <2>1. UNCHANGED <<pc, paused, took>>
    BY <1>5 DEF Submit, Store, Dedup, ToPQueue, ToQueue, ToDelayed, MoveDelayed, MoveRetry, Expire,
       Cancel, StartCancel, CancelStep, CancelClean, CancelUnique, Flush, vars
  <2> QED
    BY <1>1, <2>1
<1> QED
  BY <1>2, <1>3, <1>4, <1>5 DEF Next, Core

(* After pause_queue a worker takes at most the one task its BLPOP was      *)
(* waiting for.                                                            *)
THEOREM PauseStops == Spec => []PauseLeaksOne
<1>1. Init => PauseInv
  BY TypeInit DEF Init, PauseInv
<1>2. PauseInv => PauseLeaksOne
  BY DEF PauseInv, PauseLeaksOne
<1> QED
  BY <1>1, <1>2, PauseStep, PTL DEF Spec

-----------------------------------------------------------------------------
(* Unique keys.                                                            *)

Removed == {"cancelled", "abandoned", "unloadable"}

(* The tasks whose call of enqueue has taken key k.                          *)
Taken(k) == {t \in Tasks : UniqueKey[t] = k /\ op[t] = "enqueue" /\ cpc[t] \in {"push", "ok"}}

(* A key in the set is one call of enqueue more than the calls that freed it. *)
KeyInv(k) ==
    /\ IsFiniteSet(Taken(k)) /\ IsFiniteSet(FreedBy(k))
    /\ Cardinality(Taken(k)) <= Cardinality(FreedBy(k)) + (IF k \in dedup THEN 1 ELSE 0)

(* Who is about to free a key, or did, found a task; the dead list, where a  *)
(* processed task could also be found, stays empty without dependencies.     *)
UniqueInv ==
    /\ LossInv
    /\ \A t \in Tasks : dead[t] = 0
    /\ \A a \in Admins : apc[a] \in {"clean", "unique", "freed"} => fate[atask[a]] \in Removed
    /\ \A k \in Keys : KeyInv(k)

LEMMA KeyKept ==
    ASSUME NEW k, KeyInv(k), Taken(k)' = Taken(k), FreedBy(k)' = FreedBy(k), k \in dedup => k \in dedup'
    PROVE  KeyInv(k)'
<1>1. Cardinality(Taken(k)) \in Nat /\ Cardinality(FreedBy(k)) \in Nat
  BY FS_CardinalityType DEF KeyInv
<1>2. /\ IsFiniteSet(Taken(k)') /\ IsFiniteSet(FreedBy(k)')
      /\ Cardinality(Taken(k)') = Cardinality(Taken(k))
      /\ Cardinality(FreedBy(k)') = Cardinality(FreedBy(k))
  BY DEF KeyInv
<1> QED
  BY <1>1, <1>2 DEF KeyInv

(* The script lets a call through only when it puts the key into the set.    *)
LEMMA KeyTaken ==
    ASSUME NEW k, KeyInv(k), NEW t, Taken(k)' = Taken(k) \cup {t}, FreedBy(k)' = FreedBy(k),
           k \notin dedup, k \in dedup'
    PROVE  KeyInv(k)'
<1>1. Cardinality(Taken(k)) \in Nat /\ Cardinality(FreedBy(k)) \in Nat
  BY FS_CardinalityType DEF KeyInv
<1>2. /\ IsFiniteSet(Taken(k)') /\ IsFiniteSet(FreedBy(k)')
      /\ Cardinality(Taken(k)') \in {Cardinality(Taken(k)), Cardinality(Taken(k)) + 1}
      /\ Cardinality(FreedBy(k)') = Cardinality(FreedBy(k))
  <2>1. IsFiniteSet(Taken(k)) /\ IsFiniteSet(FreedBy(k))
    BY DEF KeyInv
  <2>2. /\ IsFiniteSet(Taken(k) \cup {t})
        /\ Cardinality(Taken(k) \cup {t}) =
              IF t \in Taken(k) THEN Cardinality(Taken(k)) ELSE Cardinality(Taken(k)) + 1
    BY <2>1, FS_AddElement
  <2> HIDE DEF Taken, FreedBy
  <2> QED
    BY <2>1, <2>2
<1>3. Cardinality(Taken(k)) <= Cardinality(FreedBy(k))
  BY <1>1 DEF KeyInv
<1>4. Cardinality(Taken(k)') \in Nat
  BY <1>2, FS_CardinalityType
<1> QED
  BY <1>1, <1>2, <1>3, <1>4 DEF KeyInv

LEMMA KeyFreed ==
    ASSUME NEW k, KeyInv(k), NEW a, a \notin FreedBy(k), FreedBy(k)' = FreedBy(k) \cup {a},
           Taken(k)' = Taken(k)
    PROVE  KeyInv(k)'
<1>1. Cardinality(Taken(k)) \in Nat /\ Cardinality(FreedBy(k)) \in Nat
  BY FS_CardinalityType DEF KeyInv
<1>2. /\ IsFiniteSet(Taken(k)') /\ IsFiniteSet(FreedBy(k)')
      /\ Cardinality(Taken(k)') = Cardinality(Taken(k))
      /\ Cardinality(FreedBy(k)') = Cardinality(FreedBy(k)) + 1
  BY FS_AddElement DEF KeyInv
<1>3. Cardinality(Taken(k)) <= Cardinality(FreedBy(k)) + 1
  BY <1>1 DEF KeyInv
<1> QED
  BY <1>1, <1>2, <1>3 DEF KeyInv

(* What cancel_task finds has left the system or leaves it now.             *)
LEMMA FoundIsRemoved ==
    ASSUME UniqueInv, NEW a \in Admins, CancelStep(a), apc'[a] = "clean"
    PROVE  fate'[atask[a]] \in Removed
<1>0. PICK t \in Tasks : t = atask[a] /\ TaskInv(t)
  BY DEF UniqueInv, LossInv, TypeInv, HoldsTask, CancelStep, NextPlace, CancelPcs
<1>1. /\ active \in [Tasks -> Nat] /\ fate \in [Tasks -> Fates]
      /\ apc \in [Admins -> CancelPcs \cup RequeuePcs \cup {"idle", "returned"}]
      /\ apc[a] \in {"pending", "active", "delayed", "retry", "dead", "priority"}
      /\ dead[t] = 0
  BY DEF UniqueInv, LossInv, TypeInv, TypeOK, CancelStep, NextPlace
<1> DEFINE Found == \/ apc[a] = "pending" /\ t \in ItemsOf(queue)
                    \/ apc[a] = "active" /\ active[t] > 0
                    \/ apc[a] = "delayed" /\ t \in delayed
                    \/ apc[a] = "retry" /\ t \in retry
                    \/ apc[a] = "priority" /\ t \in pqueue
<1>2. NextPlace[apc[a]] # "clean"
  BY <1>1 DEF NextPlace
<1>3. Found /\ Settle(t, "cancelled")
  <2>1. Settle(t, "cancelled")
    BY <1>0, <1>1, <1>2 DEF CancelStep, Call
  <2>2. ASSUME apc[a] = "pending" PROVE t \in ItemsOf(queue)
    BY <1>0, <1>1, <1>2, <2>2 DEF CancelStep, Call
  <2>3. ASSUME apc[a] = "active" PROVE active[t] > 0
    BY <1>0, <1>1, <1>2, <2>3 DEF CancelStep, Call
  <2>4. ASSUME apc[a] = "delayed" PROVE t \in delayed
    BY <1>0, <1>1, <1>2, <2>4 DEF CancelStep, Call
  <2>5. ASSUME apc[a] = "retry" PROVE t \in retry
    BY <1>0, <1>1, <1>2, <2>5 DEF CancelStep, Call
  <2>6. apc[a] # "dead"
    <3>1. ASSUME apc[a] = "dead" PROVE dead[t] > 0
      BY <1>0, <1>1, <1>2, <3>1 DEF CancelStep, Call
    <3> QED
      BY <1>1, <3>1
  <2>7. ASSUME apc[a] = "priority" PROVE t \in pqueue
    BY <1>0, <1>1, <1>2, <2>7 DEF CancelStep, Call
  <2> QED
    BY <1>1, <2>1, <2>2, <2>3, <2>4, <2>5, <2>6, <2>7
<1>4. fate'[t] = IF fate[t] = "live" THEN "cancelled" ELSE fate[t]
  BY <1>1, <1>3 DEF Settle
<1>5. fate[t] \in {"live"} \cup Removed
  <2>1. CASE Waits(t) \/ InWork(t)
    <3>1. Placed(t)
      BY <2>1 DEF Placed, InWork, Holds, OnPcs, Holding
    <3> QED
      BY <1>0, <3>1 DEF TaskInv, Accounted, InSystem, Removed
  <2>2. CASE ~Waits(t) /\ ~InWork(t)
    <3>1. active[t] = 1
      BY <1>0, <1>1, <1>3, <2>2 DEF Waits, TaskInv, ListedRight
    <3> QED
      BY <1>0, <2>2, <3>1 DEF TaskInv, ListedRight, Removed
  <2> QED
    BY <2>1, <2>2
<1> QED
  BY <1>0, <1>4, <1>5 DEF Removed

LEMMA UniqueStep == UniqueInv /\ [Next]_vars => UniqueInv'
<1> SUFFICES ASSUME UniqueInv, [Next]_vars PROVE UniqueInv'
  OBVIOUS
<1>0. /\ LossInv /\ LossInv' /\ \A t \in Tasks : dead[t] = 0
      /\ cpc \in [Tasks -> {"new", "dedup", "push", "ok", "rejected"}]
      /\ op \in [Tasks -> SubmitOps \cup {"none"}]
      /\ dead \in [Tasks -> Nat] /\ fate \in [Tasks -> Fates]
      /\ apc \in [Admins -> CancelPcs \cup RequeuePcs \cup {"idle", "returned"}]
      /\ atask \in [Admins -> Tasks \cup {NoTask}]
      /\ UniqueKey \in [Tasks -> Keys \cup {NoKey}]
      /\ \A k \in Keys : KeyInv(k)
  BY LossStep, ConstantsAssumption DEF UniqueInv, LossInv, TypeInv, TypeOK
<1>1. \A t \in Tasks : fate[t] \in Removed => fate'[t] \in Removed
  BY <1>0, FateIsFinal DEF Removed
<1>3. \A a \in Admins : apc[a] \in {"clean", "unique", "freed"} => atask[a] \in Tasks
  BY <1>0 DEF LossInv, TypeInv, HoldsTask, CancelPcs
<1> DEFINE DeadEmpty == \A t \in Tasks : dead'[t] = 0
           Cleans == \A a \in Admins :
                        apc'[a] \in {"clean", "unique", "freed"} => fate'[atask'[a]] \in Removed
           SameTaken == \A k \in Keys : Taken(k)' = Taken(k)
           SameFreed == \A k \in Keys : FreedBy(k)' = FreedBy(k)
<1>4. ASSUME DeadEmpty, Cleans, \A k \in Keys : KeyInv(k)' PROVE UniqueInv'
  BY <1>0, <1>4 DEF UniqueInv
<1>5. ASSUME UNCHANGED <<apc, atask>> PROVE Cleans /\ SameFreed
  <2>1. Cleans
    BY <1>1, <1>3, <1>5 DEF UniqueInv
  <2>2. SameFreed
    BY <1>5 DEF FreedBy
  <2> QED
    BY <2>1, <2>2
<1>6. ASSUME SameTaken, SameFreed, dedup \subseteq dedup' PROVE \A k \in Keys : KeyInv(k)'
  BY <1>0, <1>6, KeyKept
<1>7. ASSUME NEW t \in Tasks, Dedup(t) PROVE UniqueInv'
  <2>1. /\ UNCHANGED <<dead, op, apc, atask, fate>> /\ cpc[t] = "dedup" /\ dedup \subseteq dedup'
        /\ \A u \in Tasks \ {t} : cpc'[u] = cpc[u]
    BY <1>0, <1>7 DEF Dedup, adminVars, histVars
  <2>2. DeadEmpty /\ Cleans /\ SameFreed
    BY <1>0, <1>5, <2>1
  <2>3. ASSUME NEW k \in Keys PROVE KeyInv(k)'
    <3>1. t \notin Taken(k)
      BY <2>1 DEF Taken
    <3>2. CASE t \in Taken(k)'
      <4>1. UniqueKey[t] = k /\ op[t] = "enqueue" /\ cpc'[t] \in {"push", "ok"}
        BY <2>1, <3>2 DEF Taken
      <4>2. k \notin dedup /\ k \in dedup'
        BY <1>0, <1>7, <4>1, ConstantsAssumption DEF Dedup
      <4>3. Taken(k)' = Taken(k) \cup {t}
        BY <2>1, <4>1 DEF Taken
      <4> QED
        BY <1>0, <2>2, <4>2, <4>3, KeyTaken
    <3>3. CASE t \notin Taken(k)'
      <4>1. Taken(k)' = Taken(k)
        BY <2>1, <3>1, <3>3 DEF Taken
      <4> QED
        BY <1>0, <2>1, <2>2, <4>1, KeyKept
    <3> QED
      BY <3>2, <3>3
  <2> QED
    BY <1>4, <2>2, <2>3
<1>8. ASSUME NEW t \in Tasks, (\E o \in Ops : Store(t, o)) \/ ToPQueue(t) \/ ToQueue(t) \/ ToDelayed(t)
      PROVE  UniqueInv'
  <2>1. /\ UNCHANGED <<dead, dedup, apc, atask>>
        /\ \A u \in Tasks \ {t} : cpc'[u] = cpc[u] /\ op'[u] = op[u]
    BY <1>0, <1>8 DEF Store, ToPQueue, ToQueue, ToDelayed, adminVars
  <2>2. op'[t] = "enqueue" /\ cpc'[t] \in {"push", "ok"} <=> op[t] = "enqueue" /\ cpc[t] \in {"push", "ok"}
    BY <1>0, <1>8 DEF Store, ToPQueue, ToQueue, ToDelayed
  <2>3. SameTaken
    BY <2>1, <2>2 DEF Taken
  <2>4. \A k \in Keys : KeyInv(k)'
    BY <1>5, <1>6, <2>1, <2>3
  <2> QED
    BY <1>0, <1>4, <1>5, <2>1, <2>4
<1>9. ASSUME NEW a \in Admins, Cancel(a) PROVE UniqueInv'
  <2>1. UNCHANGED <<cpc, op>> /\ atask[a] \in Tasks \cup {NoTask}
    BY <1>0, <1>9 DEF Cancel, StartCancel, CancelStep, CancelClean, CancelUnique, clientVars
  <2>2. SameTaken
    BY <2>1 DEF Taken
  <2>3. \A c \in Admins \ {a} : apc'[c] = apc[c] /\ atask'[c] = atask[c]
    BY <1>0, <1>9 DEF Cancel, StartCancel, CancelStep, CancelClean, CancelUnique, Call
  <2>4. \A c \in Admins \ {a} :
           apc'[c] \in {"clean", "unique", "freed"} => fate'[atask'[c]] \in Removed
    BY <1>1, <1>3, <2>3 DEF UniqueInv
  <2>5. apc[a] # "freed"
    BY <1>9 DEF Cancel, StartCancel, CancelStep, CancelClean, CancelUnique, NextPlace
  <2>6. ASSUME apc'[a] # "freed" PROVE SameFreed
    BY <2>3, <2>5, <2>6 DEF FreedBy
  <2>7. ASSUME NEW t \in Tasks, StartCancel(a, t) PROVE UniqueInv'
    <3>1. UNCHANGED <<dead, dedup>> /\ apc'[a] = "pending"
      BY <1>0, <2>7 DEF StartCancel, Call, redisVars
    <3>2. \A k \in Keys : KeyInv(k)'
      BY <1>6, <2>2, <2>6, <3>1
    <3> QED
      BY <1>0, <1>4, <2>4, <3>1, <3>2
  <2>8. CASE CancelStep(a)
    <3>1. dedup' = dedup /\ atask[a] \in Tasks /\ apc'[a] \notin {"unique", "freed"}
      <4>1. apc[a] \in {"pending", "active", "delayed", "retry", "dead", "priority"}
        BY <2>8 DEF CancelStep, NextPlace
      <4>2. NextPlace[apc[a]] \notin {"unique", "freed"}
        BY <4>1 DEF NextPlace
      <4>3. apc'[a] \in {"clean", NextPlace[apc[a]]}
        BY <1>0, <2>8 DEF CancelStep, Call
      <4> QED
        BY <1>0, <2>8, <4>1, <4>2, <4>3 DEF CancelStep, LossInv, TypeInv, HoldsTask, CancelPcs
    <3>2. DeadEmpty
      BY <1>0, <2>8, <3>1 DEF CancelStep, LRemCount
    <3>3. ASSUME apc'[a] = "clean" PROVE fate'[atask'[a]] \in Removed
      <4>1. atask'[a] = atask[a]
        BY <1>0, <2>8, <3>3 DEF CancelStep, Call, NextPlace
      <4> QED
        BY <2>8, <3>3, <4>1, FoundIsRemoved
    <3>4. \A k \in Keys : KeyInv(k)'
      BY <1>6, <2>2, <2>6, <3>1
    <3> QED
      BY <1>0, <1>4, <2>4, <3>1, <3>2, <3>3, <3>4
  <2>9. CASE CancelClean(a)
    <3>1. /\ UNCHANGED <<dead, dedup>> /\ apc[a] = "clean"
          /\ apc'[a] # "returned" => atask'[a] = atask[a]
          /\ apc'[a] \in {"returned", "unique"}
      BY <1>0, <2>9 DEF CancelClean, Call
    <3>2. fate'[atask[a]] \in Removed
      BY <1>1, <1>3, <3>1 DEF UniqueInv
    <3>3. \A k \in Keys : KeyInv(k)'
      BY <1>6, <2>2, <2>6, <3>1
    <3> QED
      BY <1>0, <1>4, <2>4, <3>1, <3>2, <3>3
  <2>10. CASE CancelUnique(a)
    <3>1. /\ dead' = dead /\ apc[a] = "unique" /\ dedup' = dedup \ {UniqueKey[atask[a]]}
          /\ apc'[a] = "freed" /\ atask'[a] = atask[a]
      BY <1>0, <2>10 DEF CancelUnique, Call
    <3>2. fate'[atask[a]] \in Removed
      BY <1>1, <1>3, <3>1 DEF UniqueInv
    <3>3. ASSUME NEW k \in Keys PROVE KeyInv(k)'
      <4>1. CASE UniqueKey[atask[a]] = k
        <5>1. a \notin FreedBy(k)
          BY <3>1 DEF FreedBy
        <5>2. FreedBy(k)' = FreedBy(k) \cup {a}
          BY <2>3, <3>1, <4>1 DEF FreedBy
        <5> QED
          BY <1>0, <2>2, <5>1, <5>2, KeyFreed
      <4>2. CASE UniqueKey[atask[a]] # k
        <5>1. FreedBy(k)' = FreedBy(k)
          BY <2>3, <3>1, <4>2 DEF FreedBy
        <5> QED
          BY <1>0, <2>2, <3>1, <4>2, <5>1, KeyKept
      <4> QED
        BY <4>1, <4>2
    <3> QED
      BY <1>0, <1>4, <2>4, <3>1, <3>2, <3>3
  <2> QED
    BY <1>9, <2>7, <2>8, <2>9, <2>10 DEF Cancel
<1>10. ASSUME UNCHANGED <<dead, dedup, cpc, op, apc, atask>> PROVE UniqueInv'
  <2>1. SameTaken
    BY <1>10 DEF Taken
  <2>2. \A k \in Keys : KeyInv(k)'
    BY <1>5, <1>6, <1>10, <2>1
  <2> QED
    BY <1>0, <1>4, <1>5, <1>10, <2>2
<1>11. ASSUME NEW w \in Workers,
              \/ Take(w) \/ Process(w) \/ Ack(w) \/ BeforeFails(w) \/ Abandon(w) \/ NoDependents(w)
       PROVE  UNCHANGED <<dead, dedup, cpc, op, apc, atask>>
  BY <1>11 DEF Take, PDequeue, CheckPause, BlPop, PushActive, Load, Process, Start, Succeed, Fail, Ack,
     AckRemove, AckStore, ScheduleRetry, BeforeFails, Abandon, NoDependents, redisVars, clientVars, adminVars
<1>12. ASSUME \/ \E t \in Tasks : MoveDelayed(t) \/ MoveRetry(t) \/ Expire(t)
              \/ \E b \in BOOLEAN : SetPause(b)
              \/ Flush
              \/ UNCHANGED vars
       PROVE  UNCHANGED <<dead, dedup, cpc, op, apc, atask>>
  BY <1>12 DEF MoveDelayed, MoveRetry, Expire, SetPause, Flush, vars, redisVars, clientVars, adminVars
<1> QED
  BY <1>7, <1>8, <1>9, <1>10, <1>11, <1>12 DEF Next, Core, Submit

(* A unique key lets one call of enqueue through and one more for each call  *)
(* of cancel_task_with_unique that freed it, having found a task: whatever   *)
(* crashes, fails, expires or is flushed frees no key.                       *)
THEOREM UniqueKeysHonoured == Spec => []UniqueKeyHonoured
<1>1. Init => UniqueInv
  <2> SUFFICES ASSUME Init PROVE UniqueInv
    OBVIOUS
  <2>1. ASSUME NEW k \in Keys PROVE KeyInv(k)
    <3>1. Taken(k) = {} /\ FreedBy(k) = {}
      BY DEF Init, Taken, FreedBy
    <3> QED
      BY <3>1, FS_EmptySet DEF KeyInv
  <2> QED
    BY <2>1, LossInit DEF Init, UniqueInv
<1>2. UniqueInv => UniqueKeyHonoured
  <2> SUFFICES ASSUME UniqueInv PROVE UniqueKeyHonoured
    OBVIOUS
  <2>1. ASSUME NEW k \in Keys PROVE Cardinality(Admitted(k)) <= 1 + Cardinality(FreedBy(k))
    <3>1. /\ IsFiniteSet(Taken(k)) /\ IsFiniteSet(FreedBy(k))
          /\ Cardinality(Taken(k)) <= Cardinality(FreedBy(k)) + (IF k \in dedup THEN 1 ELSE 0)
      BY DEF UniqueInv, KeyInv
    <3>2. Admitted(k) \subseteq Taken(k)
      BY DEF Admitted, Taken
    <3>3. /\ Cardinality(Admitted(k)) <= Cardinality(Taken(k)) /\ Cardinality(Admitted(k)) \in Nat
          /\ Cardinality(Taken(k)) \in Nat /\ Cardinality(FreedBy(k)) \in Nat
      BY <3>1, <3>2, FS_Subset, FS_CardinalityType
    <3> QED
      BY <3>1, <3>3
  <2>2. \A a \in Admins : apc[a] = "freed" => fate[atask[a]] \in Removed
    BY DEF UniqueInv
  <2> QED
    BY <2>1, <2>2 DEF UniqueKeyHonoured, Removed
<1> QED
  BY <1>1, <1>2, UniqueStep, PTL DEF Spec

-----------------------------------------------------------------------------
(* The task state machine.                                                 *)

Attempted(w) == pc[w] \in {"running", "ack", "store", "retry"} => runs[hold[w]] > 0

(* A task the client has not made visible yet has no end yet, and a worker  *)
(* that ends an attempt has started one: what the steps of the task state   *)
(* machine ask for beyond the invariants above.                             *)
StageInv ==
    /\ LossInv /\ CountInv
    /\ \A t \in Tasks : dead[t] = 0 /\ (~Visible(t) => fate[t] = "live")
    /\ \A w \in Workers : Attempted(w)

LEMMA AttemptedStep ==
    ASSUME StageInv, LossInv', [Next]_vars
    PROVE  \A w \in Workers : Attempted(w)'
<1>0. /\ runs \in [Tasks -> Nat] /\ pc \in [Workers -> WorkerPcs] /\ hold \in [Workers -> Tasks \cup {NoTask}]
      /\ \A w \in Workers : pc[w] \in Holding => hold[w] \in Tasks
  BY DEF StageInv, LossInv, TypeInv, TypeOK, HoldsTask
<1>1. \A t \in Tasks : runs[t] > 0 => runs'[t] > 0
  <2>1. ASSUME NEW w \in Workers, Start(w) PROVE \A t \in Tasks : runs[t] > 0 => runs'[t] > 0
    BY <1>0, <2>1 DEF Start, Holding
  <2>2. ASSUME NEW w \in Workers,
               \/ Take(w) \/ Succeed(w) \/ Fail(w) \/ Ack(w) \/ BeforeFails(w) \/ Abandon(w) \/ NoDependents(w)
        PROVE  runs' = runs
    BY <2>2 DEF Take, PDequeue, CheckPause, BlPop, PushActive, Load, Succeed, Fail, Ack, AckRemove, AckStore,
       ScheduleRetry, BeforeFails, Abandon, NoDependents, histVars
  <2>3. ASSUME \/ \E t \in Tasks : Submit(t) \/ MoveDelayed(t) \/ MoveRetry(t) \/ Expire(t)
               \/ \E a \in Admins : Cancel(a)
               \/ \E b \in BOOLEAN : SetPause(b)
               \/ Flush \/ UNCHANGED vars
        PROVE  runs' = runs
    BY <2>3 DEF Submit, Store, Dedup, ToPQueue, ToQueue, ToDelayed, MoveDelayed, MoveRetry, Expire, Cancel,
       StartCancel, CancelStep, CancelClean, CancelUnique, SetPause, Flush, vars, histVars
  <2> QED
    BY <2>1, <2>2, <2>3 DEF Next, Core, Process
<1>2. ASSUME NEW w \in Workers,
             \/ Take(w) \/ Process(w) \/ Ack(w) \/ BeforeFails(w) \/ Abandon(w) \/ NoDependents(w)
      PROVE  /\ \A v \in Workers \ {w} : pc'[v] = pc[v] /\ hold'[v] = hold[v]
             /\ pc'[w] \in {"running", "ack", "store", "retry"} =>
                   hold'[w] = hold[w] /\ (Start(w) \/ pc[w] \in {"running", "ack", "store"})
  BY <1>0, <1>2 DEF Take, PDequeue, CheckPause, BlPop, PushActive, Load, Process, Start, Succeed, Fail, Ack,
     AckRemove, AckStore, ScheduleRetry, BeforeFails, Abandon, NoDependents, Release, histVars
<1>3. ASSUME NEW w \in Workers, Start(w) PROVE Attempted(w)'
  BY <1>0, <1>3 DEF Start, Holding, Attempted
<1>4. ASSUME NEW w \in Workers, pc'[w] = pc[w], hold'[w] = hold[w] PROVE Attempted(w)'
  BY <1>0, <1>1, <1>4 DEF StageInv, Attempted, Holding
<1>5. ASSUME NEW w \in Workers, hold'[w] = hold[w], pc[w] \in {"running", "ack", "store"} PROVE Attempted(w)'
  BY <1>0, <1>1, <1>5 DEF StageInv, Attempted, Holding
<1>6. ASSUME NEW w \in Workers,
             \/ Take(w) \/ Process(w) \/ Ack(w) \/ BeforeFails(w) \/ Abandon(w) \/ NoDependents(w)
      PROVE  \A v \in Workers : Attempted(v)'
  <2>1. Attempted(w)'
    BY <1>2, <1>3, <1>5, <1>6 DEF Attempted
  <2> QED
    BY <1>2, <1>4, <1>6, <2>1
<1>7. ASSUME \/ \E t \in Tasks : Submit(t) \/ MoveDelayed(t) \/ MoveRetry(t) \/ Expire(t)
             \/ \E a \in Admins : Cancel(a)
             \/ \E b \in BOOLEAN : SetPause(b)
             \/ Flush \/ UNCHANGED vars
      PROVE  UNCHANGED <<pc, hold>>
  BY <1>7 DEF Submit, Store, Dedup, ToPQueue, ToQueue, ToDelayed, MoveDelayed, MoveRetry, Expire, Cancel,
     StartCancel, CancelStep, CancelClean, CancelUnique, SetPause, Flush, vars, workerVars
<1> QED
  BY <1>4, <1>6, <1>7 DEF Next, Core

LEMMA UnendedStep ==
    ASSUME StageInv, [Next]_vars
    PROVE  \A t \in Tasks : dead'[t] = 0 /\ (~Visible(t)' => fate'[t] = "live")
<1>0. /\ fate \in [Tasks -> Fates] /\ cpc \in [Tasks -> {"new", "dedup", "push", "ok", "rejected"}]
      /\ op \in [Tasks -> SubmitOps \cup {"none"}] /\ dead \in [Tasks -> Nat] /\ queue \in Seq(Tasks)
      /\ \A w \in Workers : pc[w] \in Holding \cup {"deps"} => hold[w] \in Tasks
      /\ \A t \in Tasks : dead[t] = 0 /\ (~Visible(t) => fate[t] = "live") /\ TaskInv(t)
      /\ \A w \in Workers : HandSettled(w)
  BY DEF StageInv, LossInv, TypeInv, TypeOK, HoldsTask
<1>1. ASSUME NEW w \in Workers,
             \/ Take(w) \/ Process(w) \/ Ack(w) \/ BeforeFails(w) \/ Abandon(w) \/ NoDependents(w)
      PROVE  \A t \in Tasks : dead'[t] = 0 /\ (~Visible(t)' => fate'[t] = "live")
  <2>1. UNCHANGED <<cpc, op, dead>>
    BY <1>1 DEF Take, PDequeue, CheckPause, BlPop, PushActive, Load, Process, Start, Succeed, Fail, Ack,
       AckRemove, AckStore, ScheduleRetry, BeforeFails, Abandon, NoDependents, redisVars, clientVars
  <2>2. fate' = fate \/ \E why \in Fates : Settle(hold[w], why) /\ pc[w] \in Holding \cup {"deps"}
    <3>1. pc[w] \in WorkerPcs /\ (pc[w] \notin Holding \cup {"deps"} => hold[w] = NoTask)
      BY <1>0 DEF StageInv, LossInv, TypeInv, TypeOK, WorkerPcs, HandSettled
    <3> QED
      BY <1>1, <3>1 DEF Take, PDequeue, CheckPause, BlPop, PushActive, Load, Process, Start, Succeed, Fail, Ack,
       AckRemove, AckStore, ScheduleRetry, BeforeFails, Abandon, NoDependents, histVars, Fates, Holding
  <2>3. ASSUME NEW t \in Tasks, fate'[t] # fate[t] PROVE Visible(t)
    <3>1. hold[w] = t /\ pc[w] \in Holding \cup {"deps"} /\ fate[t] = "live"
      BY <1>0, <2>2, <2>3 DEF Settle
    <3>2. pc[w] \in Holding
      BY <1>0, <3>1 DEF HandSettled
    <3> QED
      BY <1>0, <3>1, <3>2 DEF TaskInv, Accounted, Placed, Holds
  <2> QED
    BY <1>0, <2>1, <2>3 DEF Visible
<1>2. ASSUME NEW t \in Tasks, Submit(t) PROVE \A u \in Tasks : dead'[u] = 0 /\ (~Visible(u)' => fate'[u] = "live")
  <2>1. UNCHANGED <<dead, fate>> /\ \A u \in Tasks \ {t} : Visible(u)' <=> Visible(u)
    BY <1>0, <1>2 DEF Submit, Store, Dedup, ToPQueue, ToQueue, ToDelayed, histVars, Visible
  <2>2. Visible(t) => Visible(t)'
    BY <1>0, <1>2 DEF Submit, Store, Dedup, ToPQueue, ToQueue, ToDelayed, Visible
  <2> QED
    BY <1>0, <2>1, <2>2
<1>3. ASSUME NEW a \in Admins, CancelStep(a) PROVE \A u \in Tasks : dead'[u] = 0 /\ (~Visible(u)' => fate'[u] = "live")
  <2>0. PICK t \in Tasks : t = atask[a]
    BY <1>3 DEF StageInv, LossInv, TypeInv, HoldsTask, CancelStep, NextPlace, CancelPcs
  <2>1. UNCHANGED <<cpc, op>> /\ \A u \in Tasks : dead'[u] = 0
    BY <1>0, <1>3, <2>0 DEF CancelStep, clientVars, LRemCount
  <2>2. \A u \in Tasks \ {t} : fate'[u] = fate[u]
    <3>1. fate' = fate \/ Settle(t, "cancelled")
      BY <1>3, <2>0 DEF CancelStep
    <3> QED
      BY <1>0, <3>1 DEF Settle
  <2>3. ASSUME fate' # fate PROVE Visible(t)
    <3>1. Waits(t) \/ active[t] > 0 \/ dead[t] > 0
      BY <1>3, <2>0, <2>3 DEF CancelStep, Waits, NextPlace
    <3>2. Placed(t) \/ active[t] # 0
      BY <1>0, <3>1 DEF Placed, TaskInv, ListedRight
    <3> QED
      BY <1>0, <3>2 DEF TaskInv, Accounted
  <2> QED
    BY <1>0, <2>0, <2>1, <2>2, <2>3 DEF Visible
<1>4. ASSUME Flush PROVE \A u \in Tasks : dead'[u] = 0 /\ (~Visible(u)' => fate'[u] = "live")
  <2>1. UNCHANGED <<cpc, op, dead>> /\ \A u \in Tasks : fate'[u] = fate[u] \/ u \in ItemsOf(queue)
    BY <1>0, <1>4 DEF Flush, clientVars
  <2> QED
    BY <1>0, <2>1 DEF Visible, TaskInv, Accounted, Placed, Waits
<1>5. ASSUME \/ \E t \in Tasks : MoveDelayed(t) \/ MoveRetry(t) \/ Expire(t)
             \/ \E a \in Admins : (\E t \in Tasks : StartCancel(a, t)) \/ CancelClean(a) \/ CancelUnique(a)
             \/ \E b \in BOOLEAN : SetPause(b)
             \/ UNCHANGED vars
      PROVE  \A u \in Tasks : dead'[u] = 0 /\ (~Visible(u)' => fate'[u] = "live")
  <2>1. UNCHANGED <<cpc, op, dead, fate>>
    BY <1>5 DEF MoveDelayed, MoveRetry, Expire, StartCancel, CancelClean, CancelUnique, SetPause, vars,
       redisVars, clientVars, histVars
  <2> QED
    BY <1>0, <2>1 DEF Visible
<1> QED
  BY <1>1, <1>2, <1>3, <1>4, <1>5 DEF Next, Core, Cancel

LEMMA StageHolds == Spec => []StageInv
<1>1. Init => StageInv
  BY LossInit, CountInit DEF Init, StageInv, Attempted
<1>2. StageInv /\ [Next]_vars => StageInv'
  <2> SUFFICES ASSUME StageInv, [Next]_vars PROVE StageInv'
    OBVIOUS
  <2>1. LossInv' /\ CountInv'
    BY LossStep, CountStep DEF StageInv, LossInv
  <2> QED
    BY <2>1, AttemptedStep, UnendedStep DEF StageInv
<1> QED
  BY <1>1, <1>2, PTL DEF Spec

-----------------------------------------------------------------------------
(* The stages of a step.                                                   *)

Held(t) == \E w \in Workers : Holds(w, t)

(* What places a task in its stage.                                        *)
LEMMA StageFacts ==
    ASSUME StageInv, NEW t \in Tasks
    PROVE  /\ t \in ItemsOf(queue) \cup pqueue <=> StageOf(t) = "pending"
           /\ t \in delayed <=> StageOf(t) = "delayed"
           /\ t \in retry <=> StageOf(t) = "retry"
           /\ Held(t) <=> StageOf(t) = "active"
           /\ ~Placed(t) => StageOf(t) = IF fate[t] \in {"live", "processed", "dead"}
                                         THEN (IF fate[t] = "live" THEN "new" ELSE fate[t]) ELSE "dropped"
<1>1. HeldBy(t) # {} <=> Held(t)
  BY DEF HeldBy, Held, Holds
<1>2. /\ t \in ItemsOf(queue) \cup pqueue => t \notin delayed \cup retry
      /\ t \in delayed => t \notin retry
      /\ Held(t) => ~Waits(t)
  BY DEF StageInv, LossInv, CopyInv, ContainersApart, HeldNotWaiting, Held
<1> QED
  BY <1>1, <1>2 DEF StageOf, Waits, Placed, Held

(* A task none of whose places and whose fate changes keeps its stage.      *)
LEMMA StageStill ==
    ASSUME NEW t \in Tasks, t \in (ItemsOf(queue) \cup pqueue)' <=> t \in ItemsOf(queue) \cup pqueue,
           t \in delayed' <=> t \in delayed, t \in retry' <=> t \in retry,
           Held(t)' <=> Held(t), Placed(t) \/ fate'[t] = fate[t]
    PROVE  StageOf(t)' = StageOf(t)
<1>1. HeldBy(t) # {} <=> Held(t)
  BY DEF HeldBy, Held, Holds
<1>2. HeldBy(t)' # {} <=> Held(t)'
  BY DEF HeldBy, Held, Holds
<1>3. Placed(t) <=> Waits(t) \/ Held(t)
  BY DEF Placed, Held
<1> QED
  BY <1>1, <1>2, <1>3 DEF StageOf, Waits

LEMMA HeldStill ==
    ASSUME NEW w \in Workers, NEW u \in Tasks, ~Holds(w, u), ~Holds(w, u)',
           \A v \in Workers \ {w} : pc'[v] = pc[v] /\ hold'[v] = hold[v]
    PROVE  Held(u)' <=> Held(u)
  BY DEF Held, Holds

LEMMA Stutters ==
    ASSUME UNCHANGED runs, \A u \in Tasks : StageOf(u)' = StageOf(u)
    PROVE  UNCHANGED Lifecycle!lifeVars
  BY DEF Lifecycle!lifeVars

LEMMA Moves ==
    ASSUME UNCHANGED runs, NEW t \in Tasks, NEW s, StageOf(t)' = s,
           \A u \in Tasks \ {t} : StageOf(u)' = StageOf(u)
    PROVE  Lifecycle!MoveTo(t, s)
<1>1. [u \in Tasks |-> StageOf(u)]' = [[u \in Tasks |-> StageOf(u)] EXCEPT ![t] = s]
  OBVIOUS
<1> QED
  BY <1>1 DEF Lifecycle!MoveTo

LifeStep == Lifecycle!LifeNext \/ UNCHANGED Lifecycle!lifeVars

(* A worker keeps what it holds, if anything.                              *)
LEMMA KeepsStages ==
    ASSUME NEW w \in Workers, UNCHANGED <<queue, pqueue, delayed, retry, fate>>,
           \A v \in Workers \ {w} : pc'[v] = pc[v] /\ hold'[v] = hold[v],
           \A u \in Tasks : Holds(w, u)' <=> Holds(w, u)
    PROVE  \A u \in Tasks : StageOf(u)' = StageOf(u)
<1> SUFFICES ASSUME NEW u \in Tasks PROVE StageOf(u)' = StageOf(u)
  OBVIOUS
<1>1. Held(u)' <=> Held(u)
  BY DEF Held, Holds
<1> QED
  BY <1>1, StageStill

(* A worker lets go of its task, which is then nowhere.                     *)
LEMMA LetsGo ==
    ASSUME StageInv, NEW w \in Workers, NEW t \in Tasks, Holds(w, t), \A u \in Tasks : ~Holds(w, u)',
           UNCHANGED <<queue, pqueue, delayed, retry, runs>>,
           \A v \in Workers \ {w} : pc'[v] = pc[v] /\ hold'[v] = hold[v],
           \A u \in Tasks \ {t} : fate'[u] = fate[u],
           fate'[t] \in Fates \ {"live"},
           fate'[t] \in {"processed", "dead"} => runs[t] > 0
    PROVE  Lifecycle!LifeNext
<1>1. /\ Placed(t) /\ ~Waits(t) /\ \A v \in Workers \ {w} : ~Holds(v, t)
  BY SoleHolder DEF StageInv, LossInv
<1>2. StageOf(t) = "active"
  BY StageFacts DEF Held
<1>3. \A u \in Tasks \ {t} : StageOf(u)' = StageOf(u)
  <2> SUFFICES ASSUME NEW u \in Tasks \ {t} PROVE StageOf(u)' = StageOf(u)
    OBVIOUS
  <2>1. ~Holds(w, u)
    BY DEF Holds
  <2> QED
    BY <2>1, HeldStill, StageStill
<1>4. ~Waits(t)' /\ HeldBy(t)' = {}
  BY <1>1 DEF Waits, HeldBy, Holds
<1>5. StageOf(t)' = IF fate'[t] \in {"processed", "dead"} THEN fate'[t] ELSE "dropped"
  BY <1>4 DEF StageOf, Waits
<1>6. CASE fate'[t] \in {"processed", "dead"}
  <2>1. Lifecycle!MoveTo(t, fate'[t])
    BY <1>3, <1>5, <1>6, Moves
  <2>2. Lifecycle!Finish(t)
    BY <1>2, <1>6, <2>1 DEF Lifecycle!Finish
  <2> QED
    BY <2>2 DEF Lifecycle!LifeNext
<1>7. CASE fate'[t] \notin {"processed", "dead"}
  <2>1. Lifecycle!MoveTo(t, "dropped")
    BY <1>3, <1>5, <1>7, Moves
  <2>2. Lifecycle!Drop(t)
    BY <1>2, <2>1 DEF Lifecycle!Drop
  <2> QED
    BY <2>2 DEF Lifecycle!LifeNext
<1> QED
  BY <1>6, <1>7

(* A worker takes a pending task.                                          *)
LEMMA TakesStage ==
    ASSUME StageInv, LossInv', NEW w \in Workers, NEW t \in ItemsOf(queue) \cup pqueue, t \in Tasks,
           \A u \in Tasks : ~Holds(w, u), Holds(w, t)',
           \A u \in Tasks \ {t} : u \in (ItemsOf(queue) \cup pqueue)' <=> u \in ItemsOf(queue) \cup pqueue,
           UNCHANGED <<delayed, retry, fate, runs>>,
           \A v \in Workers \ {w} : pc'[v] = pc[v] /\ hold'[v] = hold[v]
    PROVE  Lifecycle!LifeNext
<1>1. StageOf(t) = "pending"
  BY StageFacts
<1>2. ~Waits(t)' /\ HeldBy(t)' # {}
  BY DEF LossInv, CopyInv, HeldNotWaiting, HeldBy, Holds
<1>3. StageOf(t)' = "active"
  BY <1>2 DEF StageOf, Waits
<1>4. \A u \in Tasks \ {t} : StageOf(u)' = StageOf(u)
  <2> SUFFICES ASSUME NEW u \in Tasks \ {t} PROVE StageOf(u)' = StageOf(u)
    OBVIOUS
  <2>1. ~Holds(w, u)'
    BY DEF Holds
  <2> QED
    BY <2>1, HeldStill, StageStill
<1>5. Lifecycle!MoveTo(t, "active")
  BY <1>3, <1>4, Moves
<1>6. Lifecycle!Dequeue(t)
  BY <1>1, <1>5 DEF Lifecycle!Dequeue
<1> QED
  BY <1>6 DEF Lifecycle!LifeNext

LEMMA WorkerStages ==
    ASSUME StageInv, LossInv', NEW w \in Workers,
           \/ Take(w) \/ Process(w) \/ Ack(w) \/ BeforeFails(w) \/ Abandon(w) \/ NoDependents(w)
    PROVE  LifeStep
<1>0. /\ runs \in [Tasks -> Nat] /\ pc \in [Workers -> WorkerPcs] /\ hold \in [Workers -> Tasks \cup {NoTask}]
      /\ fate \in [Tasks -> Fates] /\ queue \in Seq(Tasks) /\ pqueue \subseteq Tasks
      /\ pc[w] \in Holding \cup {"deps"} => hold[w] \in Tasks
      /\ pc[w] \notin Holding \cup {"deps"} => hold[w] = NoTask
      /\ pc[w] = "deps" => fate[hold[w]] # "live"
      /\ NoTask \notin Tasks
  BY ConstantsAssumption DEF StageInv, LossInv, TypeInv, TypeOK, HoldsTask, HandSettled, WorkerPcs
<1> DEFINE Others == \A v \in Workers \ {w} : pc'[v] = pc[v] /\ hold'[v] = hold[v]
           Keeps == \A u \in Tasks : Holds(w, u)' <=> Holds(w, u)
<1> USE DEF LifeStep
<1>1. ASSUME \/ CheckPause(w) \/ PushActive(w) \/ Succeed(w) \/ Fail(w) \/ AckRemove(w) \/ NoDependents(w)
      PROVE  LifeStep
  <2>1. UNCHANGED <<queue, pqueue, delayed, retry, fate, runs>> /\ Others
    BY <1>0, <1>1 DEF CheckPause, PushActive, Succeed, Fail, AckRemove, NoDependents, Release, redisVars, histVars
  <2>2. Keeps
    BY <1>0, <1>1 DEF CheckPause, PushActive, Succeed, Fail, AckRemove, NoDependents, Release, Holds, Holding
  <2> HIDE DEF Others, Keeps
  <2>3. \A u \in Tasks : StageOf(u)' = StageOf(u)
    BY <2>1, <2>2, KeepsStages DEF Others, Keeps
  <2> QED
    BY <2>1, <2>3, Stutters
<1>2. ASSUME PDequeue(w) PROVE LifeStep
  <2>1. ASSUME NEW t \in pqueue, pqueue' = pqueue \ {t}, hold' = [hold EXCEPT ![w] = t],
               pc' = [pc EXCEPT ![w] = "pload"]
        PROVE  LifeStep
    <3>1. /\ t \in Tasks /\ UNCHANGED <<queue, delayed, retry, fate, runs>> /\ pc[w] = "idle"
          /\ Others /\ Holds(w, t)'
      BY <1>0, <1>2, <2>1 DEF PDequeue, Holds, Holding, histVars
    <3>2. \A u \in Tasks : ~Holds(w, u)
      BY <1>0, <3>1 DEF Holds, Holding
    <3>3. \A u \in Tasks \ {t} : u \in (ItemsOf(queue) \cup pqueue)' <=> u \in ItemsOf(queue) \cup pqueue
      BY <2>1, <3>1
    <3> QED
      BY <2>1, <3>1, <3>2, <3>3, TakesStage
  <2>2. ASSUME pc' = [pc EXCEPT ![w] = "check"], UNCHANGED <<pqueue, active, hold>> PROVE LifeStep
    <3>1. UNCHANGED <<queue, pqueue, delayed, retry, fate, runs>> /\ Others
      BY <1>0, <1>2, <2>2 DEF PDequeue, histVars
    <3>2. Keeps
      BY <1>0, <1>2, <2>2 DEF PDequeue, Holds, Holding
    <3> HIDE DEF Others, Keeps
    <3>3. \A u \in Tasks : StageOf(u)' = StageOf(u)
      BY <3>1, <3>2, KeepsStages DEF Others, Keeps
    <3> QED
      BY <3>1, <3>3, Stutters
  <2> QED
    BY <1>2, <2>1, <2>2 DEF PDequeue
<1>3. ASSUME BlPop(w) PROVE LifeStep
  <2>1. CASE queue # <<>>
    <3>0. PICK t \in Tasks : t = Head(queue)
      BY <1>0, <2>1, PopFacts
    <3>1. /\ t \in ItemsOf(queue) /\ ItemsOf(Tail(queue)) = ItemsOf(queue) \ {t}
      BY <1>0, <2>1, <3>0, PopFacts, PopKeeps DEF StageInv, LossInv, CopyInv, QueueOnce
    <3>2. /\ hold' = [hold EXCEPT ![w] = t] /\ queue' = Tail(queue) /\ pc' = [pc EXCEPT ![w] = "popped"]
          /\ UNCHANGED <<pqueue, delayed, retry, fate, runs>> /\ pc[w] = "blpop"
      BY <1>3, <2>1, <3>0 DEF BlPop
    <3>3. /\ \A u \in Tasks : ~Holds(w, u)
          /\ Others /\ Holds(w, t)'
      BY <1>0, <3>2 DEF Holds, Holding
    <3>4. \A u \in Tasks \ {t} : u \in (ItemsOf(queue) \cup pqueue)' <=> u \in ItemsOf(queue) \cup pqueue
      BY <3>1, <3>2
    <3> QED
      BY <3>1, <3>2, <3>3, <3>4, TakesStage
  <2>2. CASE queue = <<>>
    <3>1. UNCHANGED <<queue, pqueue, delayed, retry, fate, runs>> /\ Others
      BY <1>0, <1>3, <2>2 DEF BlPop
    <3>2. Keeps
      BY <1>0, <1>3, <2>2 DEF BlPop, Holds, Holding
    <3> HIDE DEF Others, Keeps
    <3>3. \A u \in Tasks : StageOf(u)' = StageOf(u)
      BY <3>1, <3>2, KeepsStages DEF Others, Keeps
    <3> QED
      BY <3>1, <3>3, Stutters
  <2> QED
    BY <2>1, <2>2
<1>4. ASSUME Load(w), pc' = [pc EXCEPT ![w] = "before"], UNCHANGED <<hold, out, fate>> PROVE LifeStep
  <2>1. UNCHANGED <<queue, pqueue, delayed, retry, fate, runs>> /\ Others
    BY <1>0, <1>4 DEF Load, redisVars
  <2>2. Keeps
    BY <1>0, <1>4 DEF Load, Holds, Holding
  <2> HIDE DEF Others, Keeps
  <2>3. \A u \in Tasks : StageOf(u)' = StageOf(u)
    BY <2>1, <2>2, KeepsStages DEF Others, Keeps
  <2> QED
    BY <2>1, <2>3, Stutters
<1>5. ASSUME NEW next \in {"idle", "check"}, Release(w, next), NEW why \in Fates \ {"live", "processed", "dead"},
             Settle(hold[w], why), UNCHANGED <<redisVars, runs>>, pc[w] \in Holding
      PROVE  LifeStep
  <2>1. /\ hold[w] \in Tasks /\ Holds(w, hold[w]) /\ UNCHANGED <<queue, pqueue, delayed, retry, runs>>
        /\ Others /\ \A u \in Tasks : ~Holds(w, u)'
    BY <1>0, <1>5 DEF Release, Holds, Holding, redisVars
  <2>2. /\ \A u \in Tasks \ {hold[w]} : fate'[u] = fate[u]
        /\ fate'[hold[w]] = IF fate[hold[w]] = "live" THEN why ELSE fate[hold[w]]
    BY <1>0, <1>5, <2>1 DEF Settle
  <2>3. fate[hold[w]] \in {"live", "cancelled"}
    BY <2>1 DEF StageInv, LossInv, TaskInv, Accounted, InSystem, Placed
  <2>4. fate'[hold[w]] \in Fates \ {"live", "processed", "dead"}
    BY <2>2, <2>3 DEF Fates
  <2> QED
    BY <2>1, <2>2, <2>4, LetsGo
<1>6. ASSUME Load(w) PROVE LifeStep
  <2>1. CASE pc' = [pc EXCEPT ![w] = "before"] /\ UNCHANGED <<hold, out, fate>>
    BY <1>4, <1>6, <2>1
  <2>2. CASE Release(w, IF pc[w] = "pload" THEN "check" ELSE "idle") /\ Settle(hold[w], "unloadable")
    BY <1>5, <1>6, <2>2 DEF Load, Holding, Fates
  <2> QED
    BY <1>6, <2>1, <2>2 DEF Load
<1>7. ASSUME BeforeFails(w) PROVE LifeStep
  BY <1>5, <1>7 DEF BeforeFails, Holding, Fates
<1>8. ASSUME Abandon(w) PROVE LifeStep
  <2>1. CASE pc[w] \in Holding
    BY <1>5, <1>8, <2>1 DEF Abandon, Fates
  <2>2. CASE pc[w] \notin Holding
    <3>1. pc[w] = "deps" /\ hold[w] \in Tasks
      BY <1>0, <1>8, <2>2 DEF Abandon
    <3>2. UNCHANGED <<queue, pqueue, delayed, retry, fate, runs>> /\ Others
      BY <1>0, <1>8, <3>1 DEF Abandon, Release, Settle, redisVars
    <3>3. Keeps
      BY <1>0, <1>8, <3>1 DEF Abandon, Release, Holds, Holding
    <3> HIDE DEF Others, Keeps
    <3>4. \A u \in Tasks : StageOf(u)' = StageOf(u)
      BY <3>2, <3>3, KeepsStages DEF Others, Keeps
    <3> QED
      BY <3>2, <3>4, Stutters
  <2> QED
    BY <2>1, <2>2
<1>9. ASSUME Start(w) PROVE LifeStep
  <2>1. /\ UNCHANGED <<queue, pqueue, delayed, retry, fate>> /\ Others /\ pc[w] = "before"
        /\ runs' = [runs EXCEPT ![hold[w]] = @ + 1]
    BY <1>0, <1>9 DEF Start, redisVars
  <2>2. Keeps
    BY <1>0, <1>9 DEF Start, Holds, Holding
  <2> HIDE DEF Others, Keeps
  <2>3. \A u \in Tasks : StageOf(u)' = StageOf(u)
    BY <2>1, <2>2, KeepsStages DEF Others, Keeps
  <2>4. /\ hold[w] \in Tasks /\ StageOf(hold[w]) = "active" /\ runs[hold[w]] < Limit
    BY <1>0, <2>1, StageFacts DEF Held, Holds, Holding, StageInv, CountInv, HandCounted
  <2>5. Lifecycle!Attempt(hold[w])
    BY <2>1, <2>3, <2>4 DEF Lifecycle!Attempt
  <2> QED
    BY <2>4, <2>5 DEF Lifecycle!LifeNext
<1>10. ASSUME AckStore(w) PROVE LifeStep
  <2>1. /\ UNCHANGED <<queue, pqueue, delayed, retry, runs, hold>> /\ Others /\ pc[w] = "store"
        /\ pc'[w] = (IF out[w] = "Retry" THEN "retry" ELSE "deps")
        /\ hold[w] \in Tasks /\ Holds(w, hold[w])
    BY <1>0, <1>10 DEF AckStore, Holds, Holding
  <2>2. CASE out[w] = "Retry"
    <3>1. Keeps /\ fate' = fate
      BY <1>10, <2>1, <2>2 DEF AckStore, Holds, Holding
    <3> HIDE DEF Others, Keeps
    <3>2. \A u \in Tasks : StageOf(u)' = StageOf(u)
      BY <2>1, <3>1, KeepsStages DEF Others, Keeps
    <3> QED
      BY <2>1, <3>2, Stutters
  <2>3. CASE out[w] # "Retry"
    <3>1. \A u \in Tasks : ~Holds(w, u)'
      BY <2>1, <2>3 DEF Holds, Holding
    <3>2. PICK why \in {"processed", "dead"} : Settle(hold[w], why)
      BY <1>10, <2>3 DEF AckStore
    <3>3. /\ \A u \in Tasks \ {hold[w]} : fate'[u] = fate[u]
          /\ fate'[hold[w]] = IF fate[hold[w]] = "live" THEN why ELSE fate[hold[w]]
      BY <1>0, <2>1, <3>2 DEF Settle
    <3>4. fate'[hold[w]] \in Fates \ {"live"}
      BY <1>0, <2>1, <3>3 DEF Fates
    <3>5. runs[hold[w]] > 0
      BY <2>1 DEF StageInv, Attempted
    <3> QED
      BY <2>1, <3>1, <3>3, <3>4, <3>5, LetsGo
  <2> QED
    BY <2>2, <2>3
<1>11. ASSUME ScheduleRetry(w) PROVE LifeStep
  <2>0. PICK t \in Tasks : t = hold[w]
    BY <1>0, <1>11 DEF ScheduleRetry, Holding
  <2>1. /\ t \in Tasks /\ Holds(w, t) /\ UNCHANGED <<queue, pqueue, delayed, fate, runs>>
        /\ retry' = retry \cup {t} /\ Others /\ \A u \in Tasks : ~Holds(w, u)'
    BY <1>0, <1>11, <2>0 DEF ScheduleRetry, Release, Holds, Holding, histVars
  <2>2. runs[t] > 0
    BY <1>11, <2>0 DEF ScheduleRetry, StageInv, Attempted
  <2>3. ~Waits(t)
    BY <2>1, SoleHolder DEF StageInv, LossInv
  <2>4. StageOf(t) = "active" /\ StageOf(t)' = "retry"
    BY <2>1, <2>3, StageFacts DEF Held, StageOf, Waits
  <2>5. \A u \in Tasks \ {t} : StageOf(u)' = StageOf(u)
    <3> SUFFICES ASSUME NEW u \in Tasks \ {t} PROVE StageOf(u)' = StageOf(u)
      OBVIOUS
    <3>1. ~Holds(w, u)
      BY <2>1 DEF Holds
    <3> QED
      BY <2>1, <3>1, HeldStill, StageStill
  <2>6. Lifecycle!MoveTo(t, "retry")
    BY <2>1, <2>4, <2>5, Moves
  <2>7. Lifecycle!Finish(t)
    BY <2>2, <2>4, <2>6 DEF Lifecycle!Finish
  <2> QED
    BY <2>1, <2>7 DEF Lifecycle!LifeNext
<1> QED
  BY <1>1, <1>2, <1>3, <1>6, <1>7, <1>8, <1>9, <1>10, <1>11 DEF Take, Process, Ack

(* LREM takes the only entry of a task off a list.                          *)
LEMMA LRemGone ==
    ASSUME NEW s \in Seq(Tasks), NEW t \in ItemsOf(s), Injective(s)
    PROVE  t \notin ItemsOf(LRem(s, t))
<1> DEFINE k == CHOOSE i \in DOMAIN s : s[i] = t /\ \A j \in 1 .. i - 1 : s[j] # t
           r == [i \in 1 .. Len(s) - 1 |-> IF i < k THEN s[i] ELSE s[i + 1]]
<1>1. LRem(s, t) = r
  BY DEF LRem
<1>2. Len(s) \in Nat \ {0} /\ DOMAIN s = 1 .. Len(s)
  BY DEF ItemsOf
<1>3. PICK m \in 1 .. Len(s) : s[m] = t
  BY <1>2 DEF ItemsOf
<1>4. \A i \in 1 .. Len(s) : s[i] = t => i = m
  BY <1>2, <1>3 DEF Injective
<1>5. \A j \in 1 .. m - 1 : j \in 1 .. Len(s) /\ j # m
  BY <1>2, SMT
<1>6. k = m
  BY <1>2, <1>3, <1>4, <1>5 DEF k
<1> HIDE DEF k
<1>7. ASSUME NEW i \in 1 .. Len(s) - 1 PROVE r[i] # t
  <2>1. i \in 1 .. Len(s) /\ i + 1 \in 1 .. Len(s)
    BY <1>2, SMT
  <2>2. i < k => i # m
    BY <1>2, <1>6, SMT
  <2>3. ~(i < k) => i + 1 # m
    BY <1>2, <1>6, SMT
  <2> QED
    BY <1>4, <2>1, <2>2, <2>3
<1> HIDE DEF r
<1>8. DOMAIN r = 1 .. Len(s) - 1
  BY DEF r
<1> QED
  BY <1>1, <1>7, <1>8 DEF ItemsOf

(* The client makes a new task visible, in one of the containers.           *)
LEMMA SubmitStages ==
    ASSUME StageInv, LossInv', NEW t \in Tasks, Submit(t)
    PROVE  LifeStep
<1>0. queue \in Seq(Tasks)
  BY DEF StageInv, LossInv, TypeInv, TypeOK
<1>1. UNCHANGED <<pc, hold, fate, runs>>
  BY DEF Submit, Store, Dedup, ToPQueue, ToQueue, ToDelayed, workerVars, histVars
<1>2. \A u \in Tasks : Held(u)' <=> Held(u)
  BY <1>1 DEF Held, Holds
<1>3. ASSUME UNCHANGED <<queue, pqueue, delayed, retry>> PROVE LifeStep
  <2>1. \A u \in Tasks : StageOf(u)' = StageOf(u)
    BY <1>1, <1>2, <1>3, StageStill
  <2> QED
    BY <1>1, <2>1, Stutters DEF LifeStep
<1>4. ASSUME ToPQueue(t) \/ ToQueue(t) \/ ToDelayed(t) PROVE LifeStep
  <2>1. ~Placed(t) /\ fate[t] = "live"
    <3>1. Unseen(t) /\ ~Visible(t)
      BY <1>4 DEF ToPQueue, ToQueue, ToDelayed, Unseen, Visible
    <3> QED
      BY <3>1 DEF StageInv, LossInv, CopyInv, UnseenNowhere, Placed
  <2>2. StageOf(t) = "new"
    BY <2>1, StageFacts
  <2>3. PICK s \in {"pending", "delayed"} :
           /\ t \in (ItemsOf(queue) \cup pqueue)' <=> s = "pending"
           /\ t \in delayed' <=> s = "delayed"
           /\ retry' = retry
           /\ \A u \in Tasks \ {t} : /\ u \in (ItemsOf(queue) \cup pqueue)' <=> u \in ItemsOf(queue) \cup pqueue
                                     /\ u \in delayed' <=> u \in delayed
    <3>1. ItemsOf(Append(queue, t)) = ItemsOf(queue) \cup {t}
      BY <1>0, AppendFacts
    <3>2. t \notin ItemsOf(queue) \cup pqueue \cup delayed
      BY <2>1 DEF Placed, Waits
    <3>3. CASE ToPQueue(t)
      BY <3>2, <3>3 DEF ToPQueue
    <3>4. CASE ToQueue(t)
      BY <3>1, <3>2, <3>4 DEF ToQueue
    <3>5. CASE ToDelayed(t)
      BY <3>2, <3>5 DEF ToDelayed
    <3> QED
      BY <1>4, <3>3, <3>4, <3>5
  <2>4. StageOf(t)' = s
    BY <2>3 DEF StageOf
  <2>5. \A u \in Tasks \ {t} : StageOf(u)' = StageOf(u)
    BY <1>1, <1>2, <2>3, StageStill
  <2>6. Lifecycle!MoveTo(t, s)
    BY <1>1, <2>4, <2>5, Moves
  <2>7. Lifecycle!Accept(t)
    BY <2>2, <2>6 DEF Lifecycle!Accept
  <2> QED
    BY <2>7 DEF LifeStep, Lifecycle!LifeNext
<1>5. CASE (\E o \in Ops : Store(t, o)) \/ Dedup(t)
  BY <1>3, <1>5 DEF Store, Dedup
<1> QED
  BY <1>4, <1>5 DEF Submit

(* The scheduler moves a due task to the queue.                             *)
LEMMA DueStages ==
    ASSUME StageInv, NEW t \in Tasks, MoveDelayed(t) \/ MoveRetry(t)
    PROVE  LifeStep
<1>1. /\ UNCHANGED <<pc, hold, fate, runs, pqueue>> /\ ItemsOf(queue') = ItemsOf(queue) \cup {t}
      /\ \/ t \in delayed /\ delayed' = delayed \ {t} /\ retry' = retry
         \/ t \in retry /\ retry' = retry \ {t} /\ delayed' = delayed
  BY AppendFacts DEF StageInv, LossInv, TypeInv, TypeOK, MoveDelayed, MoveRetry, workerVars, histVars
<1>2. \A u \in Tasks : Held(u)' <=> Held(u)
  BY <1>1 DEF Held, Holds
<1>3. StageOf(t) \in {"delayed", "retry"}
  BY <1>1, StageFacts
<1>4. StageOf(t)' = "pending"
  BY <1>1 DEF StageOf
<1>5. \A u \in Tasks \ {t} : StageOf(u)' = StageOf(u)
  <2> SUFFICES ASSUME NEW u \in Tasks \ {t} PROVE StageOf(u)' = StageOf(u)
    OBVIOUS
  <2>1. /\ u \in (ItemsOf(queue) \cup pqueue)' <=> u \in ItemsOf(queue) \cup pqueue
        /\ u \in delayed' <=> u \in delayed
        /\ u \in retry' <=> u \in retry
    BY <1>1
  <2> QED
    BY <1>1, <1>2, <2>1, StageStill
<1>6. Lifecycle!MoveTo(t, "pending")
  BY <1>1, <1>4, <1>5, Moves
<1>7. Lifecycle!Due(t)
  BY <1>3, <1>6 DEF Lifecycle!Due
<1> QED
  BY <1>7 DEF LifeStep, Lifecycle!LifeNext

(* cancel_task drops a waiting task, and leaves the others as they are: one *)
(* that a worker holds stays active until the worker lets go of it.         *)
LEMMA CancelStages ==
    ASSUME StageInv, NEW a \in Admins, CancelStep(a)
    PROVE  LifeStep
<1>0. PICK t \in Tasks : t = atask[a] /\ TaskInv(t)
  BY DEF StageInv, LossInv, TypeInv, HoldsTask, CancelStep, NextPlace, CancelPcs
<1>1. /\ UNCHANGED <<pc, hold, runs>> /\ fate \in [Tasks -> Fates] /\ queue \in Seq(Tasks)
      /\ dead[t] = 0
  BY <1>0 DEF StageInv, LossInv, TypeInv, TypeOK, CancelStep, workerVars
<1>2. \A u \in Tasks : Held(u)' <=> Held(u)
  BY <1>1 DEF Held, Holds
<1>3. /\ \A u \in Tasks \ {t} : u \in ItemsOf(queue') <=> u \in ItemsOf(queue)
      /\ t \in ItemsOf(queue') => t \in ItemsOf(queue)
      /\ t \notin ItemsOf(queue) => queue' = queue
  BY <1>0, <1>1, LRemFacts, LRemKeeps DEF CancelStep
<1>4. \A u \in Tasks \ {t} : StageOf(u)' = StageOf(u)
  <2>1. \A u \in Tasks \ {t} : fate'[u] = fate[u]
    <3>1. fate' = fate \/ Settle(t, "cancelled")
      BY <1>0 DEF CancelStep
    <3> QED
      BY <1>1, <3>1 DEF Settle
  <2>2. /\ pqueue' = pqueue \/ pqueue' = pqueue \ {t}
        /\ delayed' = delayed \/ delayed' = delayed \ {t}
        /\ retry' = retry \/ retry' = retry \ {t}
    BY <1>0 DEF CancelStep
  <2> SUFFICES ASSUME NEW u \in Tasks \ {t} PROVE StageOf(u)' = StageOf(u)
    OBVIOUS
  <2>3. /\ u \in (ItemsOf(queue) \cup pqueue)' <=> u \in ItemsOf(queue) \cup pqueue
        /\ u \in delayed' <=> u \in delayed
        /\ u \in retry' <=> u \in retry
    BY <1>3, <2>2
  <2> QED
    BY <1>2, <2>1, <2>3, StageStill
<1>5. CASE UNCHANGED <<queue, pqueue, delayed, retry>>
  <2>1. Placed(t) \/ fate'[t] = fate[t]
    <3>1. fate' = fate \/ (Settle(t, "cancelled") /\ (Waits(t) \/ active[t] > 0))
      <4> DEFINE Goal == fate' = fate \/ (Settle(t, "cancelled") /\ (Waits(t) \/ active[t] > 0))
      <4>1. ASSUME apc[a] = "dead" PROVE Goal
        BY <1>0, <1>1, <4>1 DEF CancelStep
      <4>2. ASSUME apc[a] = "active" PROVE Goal
        BY <1>0, <4>2 DEF CancelStep
      <4>3. ASSUME apc[a] \in {"pending", "delayed", "retry", "priority"} PROVE Goal
        BY <1>0, <4>3 DEF CancelStep, Waits
      <4>4. apc[a] \in {"pending", "active", "delayed", "retry", "dead", "priority"}
        BY DEF CancelStep, NextPlace
      <4> QED
        BY <4>1, <4>2, <4>3, <4>4
    <3>2. CASE ~Placed(t) /\ active[t] > 0
      <4>1. fate[t] # "live"
        BY <1>0, <3>2 DEF TaskInv, ListedRight, InWork, Placed, Holds, OnPcs, Holding
      <4> QED
        BY <1>1, <3>1, <4>1 DEF Settle
    <3> QED
      BY <3>1, <3>2 DEF Placed
  <2>2. StageOf(t)' = StageOf(t)
    BY <1>2, <1>5, <2>1, StageStill
  <2> QED
    BY <1>1, <1>4, <2>2, Stutters DEF LifeStep
<1>6. CASE ~UNCHANGED <<queue, pqueue, delayed, retry>>
  <2>1. Waits(t) /\ Settle(t, "cancelled")
    <3>1. CASE apc[a] = "pending"
      BY <1>0, <1>3, <1>6, <3>1 DEF CancelStep, Waits
    <3>2. CASE apc[a] = "delayed"
      BY <1>0, <1>6, <3>2 DEF CancelStep, Waits
    <3>3. CASE apc[a] = "retry"
      BY <1>0, <1>6, <3>3 DEF CancelStep, Waits
    <3>4. CASE apc[a] = "priority"
      BY <1>0, <1>6, <3>4 DEF CancelStep, Waits
    <3>5. apc[a] \in {"pending", "delayed", "retry", "priority"}
      BY <1>6 DEF CancelStep
    <3> QED
      BY <3>1, <3>2, <3>3, <3>4, <3>5
  <2>2. StageOf(t) \in {"pending", "delayed", "retry"} /\ ~Held(t)
    BY <2>1, StageFacts DEF Waits, Held, StageInv, LossInv, CopyInv, HeldNotWaiting
  <2>3. fate'[t] \in Fates \ {"live", "processed", "dead"}
    <3>1. fate[t] \in {"live", "cancelled"}
      BY <1>0, <2>1 DEF TaskInv, Accounted, InSystem, Placed
    <3> QED
      BY <1>1, <2>1, <3>1 DEF Settle, Fates
  <2>4. ~Waits(t)'
    <3>1. QueueOnce /\ ContainersApart
      BY DEF StageInv, LossInv, CopyInv
    <3>2. CASE apc[a] = "pending"
      <4>1. queue' = LRem(queue, t) /\ UNCHANGED <<pqueue, delayed, retry>>
        BY <1>0, <3>2 DEF CancelStep
      <4>2. t \in ItemsOf(queue)
        BY <1>3, <1>6, <4>1
      <4>3. t \notin ItemsOf(queue')
        BY <1>1, <3>1, <4>1, <4>2, LRemGone DEF QueueOnce
      <4> QED
        BY <3>1, <4>1, <4>2, <4>3 DEF ContainersApart, Waits
    <3>3. CASE apc[a] = "delayed"
      BY <1>0, <1>6, <3>1, <3>3 DEF CancelStep, Waits, ContainersApart
    <3>4. CASE apc[a] = "retry"
      BY <1>0, <1>6, <3>1, <3>4 DEF CancelStep, Waits, ContainersApart
    <3>5. CASE apc[a] = "priority"
      BY <1>0, <1>6, <3>1, <3>5 DEF CancelStep, Waits, ContainersApart
    <3>6. apc[a] \in {"pending", "delayed", "retry", "priority"}
      BY <1>6 DEF CancelStep
    <3> QED
      BY <3>2, <3>3, <3>4, <3>5, <3>6
  <2>5. HeldBy(t)' = {}
    BY <1>2, <2>2 DEF HeldBy, Held, Holds
  <2>6. StageOf(t)' = "dropped"
    BY <2>3, <2>4, <2>5 DEF StageOf, Waits
  <2>7. Lifecycle!MoveTo(t, "dropped")
    BY <1>1, <1>4, <2>6, Moves
  <2>8. Lifecycle!Drop(t)
    BY <2>2, <2>7 DEF Lifecycle!Drop, Lifecycle!Waiting
  <2> QED
    BY <2>8 DEF LifeStep, Lifecycle!LifeNext
<1> QED
  BY <1>5, <1>6

(* flush_queue drops what is in the queue.                                  *)
LEMMA FlushStages ==
    ASSUME StageInv, Flush
    PROVE  LifeStep
<1> DEFINE S == ItemsOf(queue) \cap Tasks
<1>1. /\ UNCHANGED <<pqueue, delayed, retry, pc, hold, runs>> /\ ItemsOf(queue') = {}
      /\ fate' = [t \in Tasks |-> IF t \in ItemsOf(queue) /\ fate[t] = "live" THEN "flushed" ELSE fate[t]]
  BY DEF Flush, ItemsOf, workerVars
<1>2. \A u \in Tasks : Held(u)' <=> Held(u)
  BY <1>1 DEF Held, Holds
<1>3. ASSUME NEW u \in S PROVE StageOf(u) = "pending" /\ StageOf(u)' = "dropped"
  <2>1. Waits(u) /\ u \notin pqueue \cup delayed \cup retry /\ TaskInv(u)
    BY DEF Waits, StageInv, LossInv, CopyInv, ContainersApart
  <2>2. \A v \in Workers : ~Holds(v, u)
    BY <2>1, WaitingIsFree DEF StageInv, LossInv
  <2>3. fate'[u] \notin {"live", "processed", "dead"}
    BY <1>1, <2>1 DEF TaskInv, Accounted, InSystem, Placed
  <2>4. HeldBy(u)' = {}
    BY <1>1, <2>2 DEF HeldBy, Holds
  <2> QED
    BY <1>1, <2>1, <2>3, <2>4, StageFacts DEF StageOf
<1>4. ASSUME NEW u \in Tasks \ S PROVE StageOf(u)' = StageOf(u)
  <2>1. fate'[u] = fate[u] /\ u \notin ItemsOf(queue)
    BY <1>1
  <2> QED
    BY <1>1, <1>2, <2>1, StageStill
<1>5. PICK T : T = S
  OBVIOUS
<1>6. /\ T \in SUBSET {t \in Tasks : [u \in Tasks |-> StageOf(u)][t] = "pending"}
      /\ [u \in Tasks |-> StageOf(u)]' =
            [t \in Tasks |-> IF t \in T THEN "dropped" ELSE [u \in Tasks |-> StageOf(u)][t]]
  BY <1>3, <1>4, <1>5
<1>7. Lifecycle!DropPending
  BY <1>1, <1>6 DEF Lifecycle!DropPending
<1> QED
  BY <1>7 DEF LifeStep, Lifecycle!LifeNext

LEMMA QuietStages ==
    ASSUME \/ \E t \in Tasks : Expire(t)
           \/ \E a \in Admins : (\E t \in Tasks : StartCancel(a, t)) \/ CancelClean(a) \/ CancelUnique(a)
           \/ \E b \in BOOLEAN : SetPause(b)
           \/ UNCHANGED vars
    PROVE  LifeStep
<1>1. UNCHANGED <<queue, pqueue, delayed, retry, pc, hold, fate, runs>>
  BY DEF Expire, StartCancel, CancelClean, CancelUnique, SetPause, vars, redisVars, workerVars, histVars
<1>2. \A u \in Tasks : Held(u)' <=> Held(u)
  BY <1>1 DEF Held, Holds
<1>3. \A u \in Tasks : StageOf(u)' = StageOf(u)
  BY <1>1, <1>2, StageStill
<1> QED
  BY <1>1, <1>3, Stutters DEF LifeStep

(* The queue implements the task state machine: whatever clients, workers,  *)
(* the scheduler and cancel_task do, and whatever fails, each task goes     *)
(* through its stages one step at a time, its handler starts only while it  *)
(* is active and at most Limit times, and a final stage is never left.      *)
THEOREM ImplementsLife == Spec => ImplementsLifecycle
<1>1. Init => Lifecycle!LifeInit
  <2> SUFFICES ASSUME Init PROVE Lifecycle!LifeInit
    OBVIOUS
  <2>1. \A t \in Tasks : StageOf(t) = "new"
    BY DEF Init, StageOf, ItemsOf, HeldBy, Holding
  <2> QED
    BY <2>1 DEF Init, Lifecycle!LifeInit
<1>2. StageInv /\ StageInv' /\ [Next]_vars => [Lifecycle!LifeNext]_(Lifecycle!lifeVars)
  <2> SUFFICES ASSUME StageInv, StageInv', [Next]_vars PROVE LifeStep
    BY DEF LifeStep
  <2>1. LossInv'
    BY DEF StageInv
  <2> QED
    BY <2>1, WorkerStages, SubmitStages, DueStages, CancelStages, FlushStages, QuietStages
       DEF Next, Core, Cancel
<1> QED
  BY <1>1, <1>2, StageHolds, PTL DEF Spec, ImplementsLifecycle, Lifecycle!LifeSpec
=============================================================================
