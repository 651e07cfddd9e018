-------------------------- MODULE Scheduler_proofs --------------------------
(* Proofs of the invariants of Scheduler, for any tasks, delays, periods,   *)
(* batch and group sizes; all but OneBatch for any number of schedulers.     *)
EXTENDS Scheduler, FiniteSetTheorems, TLAPS

LoopPcs == {"top", "retry", "clock", "delayed", "sleep", "scan", "pages"}

USE DEF Never, RemovedPcs, AggPcs, LoopPcs, GoTo

-----------------------------------------------------------------------------
(* Types, part by part: what Redis has, and what a scheduler has.           *)
RedisTypes ==
    /\ now \in 0 .. MaxTime /\ faults \in 0 .. MaxFaults
    /\ zset \subseteq Timed /\ queue \subseteq Timed
    /\ score \in [Timed -> Nat \cup {Never}]
    /\ group \subseteq Members /\ gone \subseteq Members /\ count \in Nat
    /\ joined \in [Members -> {"new", "added", "counted"}]

LoopTypes ==
    /\ pc \in [Schedulers -> LoopPcs \cup AggPcs]
    /\ tick \in [Schedulers -> Nat]
    /\ seen \in [Schedulers -> 0 .. MaxTime]

PassTypes ==
    /\ ids \in [Schedulers -> SUBSET Members] /\ loaded \in [Schedulers -> SUBSET Members]
    /\ left \in [Schedulers -> SUBSET Members] /\ made \in [Schedulers -> BOOLEAN]

HistoryTypes ==
    /\ batches \in [Members -> Nat]
    /\ fate \in [Members -> {"none", "unloadable", "discarded", "lost"}]

LEMMA TypeParts == TypeOK <=> RedisTypes /\ LoopTypes /\ PassTypes /\ HistoryTypes
  BY DEF TypeOK, RedisTypes, LoopTypes, PassTypes, HistoryTypes

LEMMA TypeInit == Init => TypeOK
  BY SchedulerAssumption DEF Init, TypeOK

LEMMA EndPassTypes ==
  ASSUME PassTypes, NEW s \in Schedulers, EndPass(s)
  PROVE  PassTypes'
  BY DEF PassTypes, EndPass

LEMMA NextTick ==
  ASSUME LoopTypes, NEW s \in Schedulers
  PROVE  (tick[s] + 1) % (DelayedEvery * GroupEvery) \in Nat
<1>1. DelayedEvery * GroupEvery \in Nat \ {0}
  BY SchedulerAssumption
<1> QED
  BY <1>1 DEF LoopTypes

LEMMA TypeClients ==
  ASSUME TypeOK,
         \/ \E t \in Timed : Submit(t)
         \/ \E m \in Members : JoinGroup(m) \/ CountMember(m) \/ Expire(m)
         \/ Clock
  PROVE  TypeOK'
<1>1. UNCHANGED <<faults, pc, tick, passVars, historyVars, seen>>
  BY DEF Submit, JoinGroup, CountMember, Expire, Clock
<1>2. RedisTypes'
  <2>1. ASSUME NEW t \in Timed, Submit(t) PROVE RedisTypes'
    BY <2>1, SchedulerAssumption, TypeParts DEF RedisTypes, Submit, groupVars
  <2>2. ASSUME NEW m \in Members, JoinGroup(m) \/ CountMember(m) \/ Expire(m) PROVE RedisTypes'
    BY <2>2, TypeParts DEF RedisTypes, JoinGroup, CountMember, Expire, timedVars
  <2>3. CASE Clock
    BY <2>3, SchedulerAssumption, TypeParts DEF RedisTypes, Clock, timedVars, groupVars
  <2> QED
    BY <2>1, <2>2, <2>3
<1>3. LoopTypes' /\ PassTypes' /\ HistoryTypes'
  BY <1>1, TypeParts DEF LoopTypes, PassTypes, HistoryTypes, passVars, historyVars
<1> QED
  BY <1>2, <1>3 DEF TypeOK, RedisTypes, LoopTypes, PassTypes, HistoryTypes

LEMMA TypeTimed ==
  ASSUME TypeOK, NEW s \in Schedulers, CheckTimed(s)
  PROVE  TypeOK'
<1>1. UNCHANGED <<now, faults, score, groupVars, passVars, historyVars>>
  BY DEF CheckTimed, StartTick, MoveRetry, MoveDelayed, Move, ReadClock, Sleep, timedVars
<1>2. zset' \subseteq Timed /\ queue' \subseteq Timed
  BY DEF CheckTimed, StartTick, MoveRetry, MoveDelayed, Move, ReadClock, Sleep, timedVars,
     TypeOK, DueOf
<1>3. LoopTypes'
  <2>1. CASE StartTick(s)
    BY <2>1, NextTick, TypeParts DEF StartTick, LoopTypes, RedisTypes
  <2>2. CASE MoveRetry(s) \/ MoveDelayed(s)
    BY <2>2, SchedulerAssumption DEF TypeOK, MoveRetry, MoveDelayed, Move, LoopTypes, AfterRetry, AfterDelayed
  <2>3. CASE ReadClock(s) \/ Sleep(s)
    BY <2>3 DEF TypeOK, ReadClock, Sleep, LoopTypes
  <2> QED
    BY <2>1, <2>2, <2>3 DEF CheckTimed
<1>4. RedisTypes' /\ PassTypes' /\ HistoryTypes'
  BY <1>1, <1>2, TypeParts DEF RedisTypes, PassTypes, HistoryTypes, groupVars, passVars, historyVars
<1> QED
  BY <1>3, <1>4 DEF TypeOK, RedisTypes, LoopTypes, PassTypes, HistoryTypes

LEMMA TypeAggregation ==
  ASSUME TypeOK, NEW s \in Schedulers, CheckAggregation(s)
  PROVE  TypeOK'
<1>0. RedisTypes /\ LoopTypes /\ PassTypes /\ HistoryTypes
  BY TypeParts
<1>1. LoopTypes'
  <2>1. UNCHANGED <<tick, seen>>
    BY DEF CheckAggregation, Scan, LastPage, ReadCount, ReadGroup, LoadMember, Aggregate, Refuse,
       RemoveMember, ResetCount, StoreBatch, PushBatch
  <2>2. \E next \in LoopPcs \cup AggPcs : GoTo(s, next)
    BY DEF CheckAggregation, Scan, LastPage, ReadCount, ReadGroup, LoadMember, Aggregate, Refuse,
       RemoveMember, ResetCount, StoreBatch, PushBatch
  <2> QED
    BY <1>0, <2>1, <2>2 DEF LoopTypes
<1>2. RedisTypes'
  BY <1>0 DEF RedisTypes, CheckAggregation, Scan, LastPage, ReadCount, ReadGroup, LoadMember,
     Aggregate, Refuse, RemoveMember, ResetCount, StoreBatch, PushBatch, timedVars, groupVars
<1>3. PassTypes'
  <2>1. CASE Scan(s) \/ LastPage(s) \/ ReadCount(s) \/ StoreBatch(s)
    BY <1>0, <2>1 DEF PassTypes, Scan, LastPage, ReadCount, StoreBatch, passVars
  <2>2. CASE ReadGroup(s)
    BY <1>0, <2>2 DEF PassTypes, ReadGroup, RedisTypes
  <2>3. CASE LoadMember(s)
    BY <1>0, <2>3 DEF PassTypes, LoadMember
  <2>4. CASE Aggregate(s)
    BY <1>0, <2>4 DEF PassTypes, Aggregate
  <2>5. CASE RemoveMember(s)
    BY <1>0, <2>5 DEF PassTypes, RemoveMember
  <2>6. CASE Refuse(s) \/ ResetCount(s) \/ PushBatch(s)
    BY <1>0, <2>6, EndPassTypes DEF Refuse, ResetCount, PushBatch, PassTypes, passVars
  <2> QED
    BY <2>1, <2>2, <2>3, <2>4, <2>5, <2>6 DEF CheckAggregation
<1>4. HistoryTypes'
  <2>1. CASE Scan(s) \/ LastPage(s) \/ ReadCount(s) \/ StoreBatch(s) \/ ReadGroup(s)
              \/ LoadMember(s) \/ Aggregate(s) \/ Refuse(s)
    BY <1>0, <2>1 DEF HistoryTypes, Scan, LastPage, ReadCount, StoreBatch, ReadGroup, LoadMember,
       Aggregate, Refuse, historyVars
  <2>2. CASE RemoveMember(s) \/ ResetCount(s)
    BY <1>0, <2>2 DEF HistoryTypes, RemoveMember, ResetCount
  <2>3. CASE PushBatch(s)
    BY <1>0, <2>3 DEF HistoryTypes, PushBatch, Count
  <2> QED
    BY <2>1, <2>2, <2>3 DEF CheckAggregation
<1> QED
  BY <1>1, <1>2, <1>3, <1>4 DEF TypeOK, RedisTypes, LoopTypes, PassTypes, HistoryTypes

LEMMA TypeFaults ==
  ASSUME TypeOK, NEW s \in Schedulers, CommandFails(s) \/ Crash(s)
  PROVE  TypeOK'
<1>0. RedisTypes /\ LoopTypes /\ PassTypes /\ HistoryTypes /\ PassStops(s)
  BY TypeParts DEF CommandFails, Crash
<1>1. LoopTypes'
  <2>1. seen' \in [Schedulers -> 0 .. MaxTime]
    BY <1>0, SchedulerAssumption DEF PassStops, LoopTypes
  <2>2. tick' \in [Schedulers -> Nat]
    BY <1>0 DEF CommandFails, Crash, LoopTypes
  <2>3. pc' \in [Schedulers -> LoopPcs \cup AggPcs]
    BY <1>0 DEF CommandFails, Crash, LoopTypes, AfterRetry, AfterDelayed
  <2> QED
    BY <2>1, <2>2, <2>3 DEF LoopTypes
<1>2. RedisTypes'
  BY <1>0, SchedulerAssumption DEF RedisTypes, PassStops, timedVars, groupVars
<1>3. PassTypes'
  BY <1>0, EndPassTypes DEF PassStops
<1>4. HistoryTypes'
  BY <1>0 DEF HistoryTypes, PassStops
<1> QED
  BY <1>1, <1>2, <1>3, <1>4 DEF TypeOK, RedisTypes, LoopTypes, PassTypes, HistoryTypes

LEMMA TypeStep == TypeOK /\ [Next]_vars => TypeOK'
<1> SUFFICES ASSUME TypeOK, [Next]_vars PROVE TypeOK'
  OBVIOUS
<1>1. ASSUME NEW s \in Schedulers,
             CheckTimed(s) \/ CheckAggregation(s) \/ CommandFails(s) \/ Crash(s)
      PROVE  TypeOK'
  BY <1>1, TypeTimed, TypeAggregation, TypeFaults
<1>2. CASE UNCHANGED vars
  BY <1>2 DEF TypeOK, vars, timedVars, groupVars, passVars, historyVars
<1> QED
  BY <1>1, <1>2, TypeClients DEF Next

(* Every variable of the scheduler keeps its type; the count of a group,    *)
(* which is reset and never lowered, is never negative.                    *)
THEOREM SchedulerTypes == Spec => []TypeOK
  BY TypeInit, TypeStep, PTL DEF Spec

-----------------------------------------------------------------------------
(* Why nothing is pushed early: a clock value a scheduler has is not ahead  *)
(* of the clock, and a task that is moved once was submitted and is not     *)
(* submitted again.                                                        *)
TimeInv ==
    /\ NotBeforeTime
    /\ \A t \in zset : score[t] # Never
    /\ \A s \in Schedulers : seen[s] <= now

LEMMA TimeInit == Init => TimeInv
  BY DEF Init, TimeInv, NotBeforeTime

LEMMA TimeMove ==
  ASSUME TypeOK, TimeInv, NEW s \in Schedulers, NEW kind, Move(s, kind)
  PROVE  TimeInv'
<1>1. PICK moved \in SUBSET DueOf(kind, seen[s]) : zset' = zset \ moved /\ queue' = queue \cup moved
  BY DEF Move
<1>2. UNCHANGED <<now, score>> /\ seen' = [seen EXCEPT ![s] = 0]
  BY DEF Move
<1>3. \A t \in moved : t \in zset /\ score[t] <= seen[s]
  BY DEF DueOf
<1>4. \A r \in Schedulers : seen'[r] <= now
  BY <1>2 DEF TypeOK, TimeInv
<1>5. \A t \in moved : score[t] # Never /\ score[t] <= now
  BY <1>3 DEF TypeOK, TimeInv
<1>6. NotBeforeTime'
  BY <1>1, <1>2, <1>5 DEF TypeOK, TimeInv, NotBeforeTime
<1> QED
  BY <1>1, <1>2, <1>4, <1>6 DEF TimeInv

LEMMA TimeStep == TypeOK /\ TimeInv /\ [Next]_vars => TimeInv'
<1> SUFFICES ASSUME TypeOK, TimeInv, [Next]_vars PROVE TimeInv'
  OBVIOUS
<1>1. ASSUME NEW t \in Timed, Submit(t) PROVE TimeInv'
  <2>0. now \in Nat /\ Delay[t] \in Nat
    BY SchedulerAssumption DEF TypeOK
  <2>1. t \notin queue /\ now + Delay[t] \in Nat
    BY <1>1, <2>0 DEF TimeInv, NotBeforeTime, Submit
  <2>2. score[t] = Never /\ score' = [score EXCEPT ![t] = now + Delay[t]]
        /\ zset' = zset \cup {t} /\ UNCHANGED <<now, queue, seen>>
    BY <1>1 DEF Submit
  <2>3. \A u \in Timed : u # t => score'[u] = score[u]
    BY <2>2 DEF TypeOK
  <2>4. score'[t] # Never
    BY <2>1, <2>2 DEF TypeOK
  <2> QED
    BY <2>1, <2>2, <2>3, <2>4 DEF TypeOK, TimeInv, NotBeforeTime
<1>2. CASE Clock
  BY <1>2 DEF TypeOK, TimeInv, NotBeforeTime, Clock, timedVars
<1>3. ASSUME NEW s \in Schedulers, CheckTimed(s) PROVE TimeInv'
  <2>1. CASE MoveRetry(s) \/ MoveDelayed(s)
    BY <2>1, TimeMove DEF MoveRetry, MoveDelayed
  <2>2. CASE StartTick(s) \/ ReadClock(s) \/ Sleep(s)
    BY <2>2 DEF TypeOK, TimeInv, NotBeforeTime, StartTick, ReadClock, Sleep, timedVars
  <2> QED
    BY <1>3, <2>1, <2>2 DEF CheckTimed
<1>4. ASSUME NEW s \in Schedulers, CommandFails(s) \/ Crash(s) PROVE TimeInv'
  BY <1>4 DEF TypeOK, TimeInv, NotBeforeTime, CommandFails, Crash, PassStops, timedVars
<1>5. ASSUME \/ \E m \in Members : JoinGroup(m) \/ CountMember(m) \/ Expire(m)
             \/ \E s \in Schedulers : CheckAggregation(s)
             \/ UNCHANGED vars
      PROVE  TimeInv'
  <2>1. UNCHANGED <<now, timedVars, seen>>
    BY <1>5 DEF JoinGroup, CountMember, Expire, CheckAggregation, Scan, LastPage, ReadCount,
       ReadGroup, LoadMember, Aggregate, Refuse, RemoveMember, ResetCount, StoreBatch, PushBatch, vars
  <2> QED
    BY <2>1 DEF TimeInv, NotBeforeTime, timedVars
<1> QED
  BY <1>1, <1>2, <1>3, <1>4, <1>5 DEF Next

(* No task reaches the queue before its time or stays in its ZSet after it  *)
(* did, with any number of schedulers that move the same tasks.             *)
THEOREM NeverBeforeTime == Spec => []NotBeforeTime
<1>1. TimeInv => NotBeforeTime
  BY DEF TimeInv
<1> QED
  BY <1>1, TypeInit, TypeStep, TimeInit, TimeStep, PTL DEF Spec

-----------------------------------------------------------------------------
(* Where a member of a group may be.                                       *)
Accounted(m) ==
    \/ joined[m] = "new" \/ m \in group
    \/ batches[m] > 0 \/ fate[m] # "none"
    \/ \E s \in Schedulers : m \in InHand(s)

LEMMA AccountInit == Init => MembersAccounted
  BY DEF Init, MembersAccounted

(* A step that touches none of it.                                         *)
LEMMA AccountSame ==
  ASSUME MembersAccounted, UNCHANGED <<joined, group, historyVars, loaded>>,
         \A s \in Schedulers : pc[s] \in RemovedPcs => pc'[s] \in RemovedPcs
  PROVE  MembersAccounted'
  BY DEF MembersAccounted, InHand, historyVars

LEMMA AccountAggregation ==
  ASSUME TypeOK, MembersAccounted, NEW s \in Schedulers, CheckAggregation(s)
  PROVE  MembersAccounted'
<1>1. CASE Scan(s) \/ LastPage(s) \/ ReadCount(s) \/ StoreBatch(s) \/ ReadGroup(s) \/ Aggregate(s)
  <2>1. UNCHANGED <<joined, group, historyVars, loaded>>
    BY <1>1 DEF Scan, LastPage, ReadCount, StoreBatch, ReadGroup, Aggregate, groupVars, passVars
  <2>2. \A r \in Schedulers : pc[r] \in RemovedPcs => pc'[r] \in RemovedPcs
    BY <1>1 DEF TypeOK, Scan, LastPage, ReadCount, StoreBatch, ReadGroup, Aggregate
  <2> QED
    BY <2>1, <2>2, AccountSame
<1> SUFFICES ASSUME NEW m \in Members PROVE Accounted(m)'
  BY DEF MembersAccounted, Accounted
<1>0. Accounted(m)
  BY DEF MembersAccounted, Accounted
<1>2. CASE LoadMember(s)
  BY <1>0, <1>2 DEF TypeOK, Accounted, InHand, LoadMember, groupVars, historyVars
<1>3. CASE Refuse(s)
  BY <1>0, <1>3 DEF TypeOK, Accounted, InHand, Refuse, EndPass, groupVars, historyVars
<1>4. CASE RemoveMember(s)
  BY <1>0, <1>4 DEF TypeOK, Accounted, InHand, RemoveMember
<1>5. CASE ResetCount(s)
  BY <1>0, <1>5 DEF TypeOK, Accounted, InHand, ResetCount, EndPass, passVars
<1>6. CASE PushBatch(s)
  BY <1>0, <1>6 DEF TypeOK, Accounted, InHand, PushBatch, Count, EndPass, groupVars
<1> QED
  BY <1>1, <1>2, <1>3, <1>4, <1>5, <1>6 DEF CheckAggregation, MembersAccounted, Accounted

LEMMA AccountStep == TypeOK /\ MembersAccounted /\ [Next]_vars => MembersAccounted'
<1> SUFFICES ASSUME TypeOK, MembersAccounted, [Next]_vars PROVE MembersAccounted'
  OBVIOUS
<1>1. ASSUME NEW m \in Members, JoinGroup(m) \/ CountMember(m) \/ Expire(m) PROVE MembersAccounted'
  BY <1>1 DEF TypeOK, MembersAccounted, InHand, JoinGroup, CountMember, Expire, passVars, historyVars
<1>2. ASSUME NEW s \in Schedulers, CheckTimed(s) PROVE MembersAccounted'
  <2>1. UNCHANGED <<joined, group, historyVars, loaded>>
    BY <1>2 DEF CheckTimed, StartTick, MoveRetry, MoveDelayed, Move, ReadClock, Sleep, groupVars, passVars
  <2>2. \A r \in Schedulers : pc[r] \in RemovedPcs => pc'[r] \in RemovedPcs
    BY <1>2 DEF TypeOK, CheckTimed, StartTick, MoveRetry, MoveDelayed, ReadClock, Sleep
  <2> QED
    BY <2>1, <2>2, AccountSame
<1>3. ASSUME NEW s \in Schedulers, CommandFails(s) \/ Crash(s) PROVE MembersAccounted'
  <2>1. PassStops(s) /\ \E next : GoTo(s, next)
    BY <1>3 DEF CommandFails, Crash
  <2> SUFFICES ASSUME NEW m \in Members PROVE Accounted(m)'
    BY DEF MembersAccounted, Accounted
  <2>2. Accounted(m)
    BY DEF MembersAccounted, Accounted
  <2> QED
    BY <2>1, <2>2 DEF TypeOK, Accounted, InHand, PassStops, EndPass, groupVars
<1>4. CASE (\E t \in Timed : Submit(t)) \/ Clock \/ UNCHANGED vars
  <2>1. UNCHANGED <<joined, group, historyVars, loaded, pc>>
    BY <1>4 DEF Submit, Clock, vars, groupVars, passVars
  <2> QED
    BY <2>1, AccountSame
<1> QED
  BY <1>1, <1>2, <1>3, <1>4, AccountAggregation DEF Next

(* No member of a group disappears without a reason, for any number of      *)
(* schedulers that aggregate the group at the same time.                   *)
THEOREM MembersStayAccounted == Spec => []MembersAccounted
  BY TypeInit, TypeStep, AccountInit, AccountStep, PTL DEF Spec

-----------------------------------------------------------------------------
(* Why one scheduler makes one batch of a member: until its first ZREM the  *)
(* pass works on members of the group; from then on what it has removed is  *)
(* in no batch and has no other fate, and nobody puts it back.              *)
Waiting(m) == joined[m] # "new" /\ batches[m] = 0 /\ fate[m] = "none"

PassInv(s) ==
    /\ \A m \in ids[s] : joined[m] # "new"
    /\ loaded[s] \subseteq ids[s] /\ left[s] \subseteq ids[s]
    /\ pc[s] = "agg_load" => ids[s] \subseteq group /\ loaded[s] \cap left[s] = {}
    /\ pc[s] = "agg_call" => ids[s] \subseteq group
    /\ pc[s] = "agg_remove" => left[s] \subseteq group /\ (ids[s] \ left[s]) \cap group = {}
    /\ pc[s] \in {"agg_reset", "agg_store", "agg_push"} => ids[s] \cap group = {}
    /\ pc[s] \notin {"agg_load", "agg_call"} \cup RemovedPcs => ids[s] = {}

BatchInv ==
    /\ \A s \in Schedulers : PassInv(s)
    /\ \A m \in group : Waiting(m)
    /\ \A s \in Schedulers : \A m \in InHand(s) : Waiting(m)
    /\ \A m \in Members :
          /\ joined[m] = "new" => batches[m] = 0 /\ fate[m] = "none"
          /\ batches[m] = 0 \/ (batches[m] = 1 /\ fate[m] = "none")

OneScheduler == \A s, r \in Schedulers : s = r

SingleInv == OneScheduler => BatchInv

LEMMA OneSchedulerIs == Cardinality(Schedulers) = 1 => OneScheduler
  BY FS_Singleton, SchedulerAssumption DEF OneScheduler

LEMMA BatchInit == Init => BatchInv
  BY DEF Init, BatchInv, PassInv, InHand

LEMMA BatchClients ==
  ASSUME TypeOK, BatchInv, NEW m \in Members, JoinGroup(m) \/ CountMember(m) \/ Expire(m)
  PROVE  BatchInv'
<1>1. CASE JoinGroup(m)
  BY <1>1 DEF TypeOK, BatchInv, PassInv, Waiting, InHand, JoinGroup, passVars, historyVars
<1>2. CASE CountMember(m)
  BY <1>2 DEF TypeOK, BatchInv, PassInv, Waiting, InHand, CountMember, passVars, historyVars
<1>3. CASE Expire(m)
  BY <1>3 DEF TypeOK, BatchInv, PassInv, Waiting, InHand, Expire, passVars, historyVars
<1> QED
  BY <1>1, <1>2, <1>3

LEMMA BatchTimed ==
  ASSUME TypeOK, BatchInv, NEW s \in Schedulers, CheckTimed(s)
  PROVE  BatchInv'
<1>1. UNCHANGED <<joined, group, passVars, historyVars>>
  BY DEF CheckTimed, StartTick, MoveRetry, MoveDelayed, Move, ReadClock, Sleep, groupVars
<1>2. \A r \in Schedulers : pc'[r] = pc[r] \/ {pc[r], pc'[r]} \cap AggPcs = {}
  BY DEF TypeOK, CheckTimed, StartTick, MoveRetry, MoveDelayed, ReadClock, Sleep, AfterRetry, AfterDelayed
<1> QED
  BY <1>1, <1>2 DEF BatchInv, PassInv, Waiting, InHand, passVars, historyVars

(* A pass that reads: it takes nothing out of the group.                    *)
LEMMA BatchReads ==
  ASSUME TypeOK, BatchInv, OneScheduler, NEW s \in Schedulers,
         \/ Scan(s) \/ LastPage(s) \/ ReadCount(s) \/ ReadGroup(s) \/ LoadMember(s)
         \/ Aggregate(s) \/ Refuse(s) \/ StoreBatch(s)
  PROVE  BatchInv'
<1>1. UNCHANGED <<joined, group, historyVars>>
  BY DEF Scan, LastPage, ReadCount, ReadGroup, LoadMember, Aggregate, Refuse, StoreBatch, groupVars
<1>2. PassInv(s)' /\ (\A m \in InHand(s)' : Waiting(m)')
  <2>1. CASE Scan(s) \/ LastPage(s) \/ ReadCount(s)
    BY <1>1, <2>1 DEF TypeOK, BatchInv, PassInv, Waiting, InHand, Scan, LastPage, ReadCount, passVars, historyVars
  <2>2. CASE ReadGroup(s)
    BY <1>1, <2>2 DEF TypeOK, BatchInv, PassInv, Waiting, InHand, ReadGroup, historyVars
  <2>3. CASE LoadMember(s)
    BY <1>1, <2>3 DEF TypeOK, BatchInv, PassInv, Waiting, InHand, LoadMember, historyVars
  <2>4. CASE Aggregate(s)
    BY <1>1, <2>4 DEF TypeOK, BatchInv, PassInv, Waiting, InHand, Aggregate, historyVars
  <2>5. CASE Refuse(s)
    BY <1>1, <2>5 DEF TypeOK, BatchInv, PassInv, Waiting, InHand, Refuse, EndPass, historyVars
  <2>6. CASE StoreBatch(s)
    BY <1>1, <2>6 DEF TypeOK, BatchInv, PassInv, Waiting, InHand, StoreBatch, passVars, historyVars
  <2> QED
    BY <2>1, <2>2, <2>3, <2>4, <2>5, <2>6
<1> QED
  BY <1>1, <1>2 DEF BatchInv, OneScheduler, Waiting, historyVars

LEMMA BatchRemove ==
  ASSUME TypeOK, BatchInv, OneScheduler, NEW s \in Schedulers, RemoveMember(s)
  PROVE  BatchInv'
<1>1. PICK m \in left[s] :
        /\ group' = group \ {m} /\ left' = [left EXCEPT ![s] = @ \ {m}]
        /\ fate' = [fate EXCEPT ![m] = IF m \in loaded[s] THEN @ ELSE "unloadable"]
        /\ GoTo(s, IF left[s] = {m} THEN "agg_reset" ELSE "agg_remove")
  BY DEF RemoveMember
<1>2. pc[s] = "agg_remove" /\ UNCHANGED <<joined, ids, loaded, batches>>
  BY DEF RemoveMember
<1>3. m \in Members /\ m \in group /\ Waiting(m)
  BY <1>1, <1>2 DEF TypeOK, BatchInv, PassInv
<1>4. \A n \in Members : n # m => fate'[n] = fate[n]
  BY <1>1 DEF TypeOK
<1>5. m \in loaded[s] => fate'[m] = fate[m]
  BY <1>1 DEF TypeOK
<1>6. PassInv(s)'
  BY <1>1, <1>2 DEF TypeOK, BatchInv, PassInv
<1>7. \A n \in InHand(s)' : Waiting(n)'
  BY <1>1, <1>2, <1>3, <1>4, <1>5 DEF TypeOK, BatchInv, InHand, Waiting
<1>8. \A n \in group' : Waiting(n)'
  BY <1>1, <1>2, <1>4 DEF TypeOK, BatchInv, Waiting
<1>9. \A n \in Members : /\ joined'[n] = "new" => batches'[n] = 0 /\ fate'[n] = "none"
                         /\ batches'[n] = 0 \/ (batches'[n] = 1 /\ fate'[n] = "none")
  BY <1>1, <1>2, <1>3, <1>4 DEF BatchInv, Waiting
<1> QED
  BY <1>6, <1>7, <1>8, <1>9 DEF BatchInv, OneScheduler

(* A pass that ends with members in its hand: each gets a batch or a fate.  *)
LEMMA BatchEnds ==
  ASSUME TypeOK, BatchInv, OneScheduler, NEW s \in Schedulers,
         EndPass(s), NEW next, GoTo(s, next), next \notin AggPcs,
         UNCHANGED <<joined, group>>,
         \A m \in Members \ InHand(s) : batches'[m] = batches[m] /\ fate'[m] = fate[m],
         \A m \in InHand(s) : \/ batches'[m] = batches[m] + 1 /\ fate'[m] = fate[m]
                              \/ batches'[m] = batches[m] /\ fate'[m] \in {"discarded", "lost"}
  PROVE  BatchInv'
<1>1. PassInv(s)' /\ InHand(s)' = {}
  BY DEF TypeOK, PassInv, InHand, EndPass
<1>2. InHand(s) \subseteq Members \ group
  BY DEF TypeOK, InHand
<1>3. \A m \in group' : Waiting(m)'
  BY <1>2 DEF TypeOK, BatchInv, Waiting
<1>4. \A m \in Members : /\ joined'[m] = "new" => batches'[m] = 0 /\ fate'[m] = "none"
                         /\ batches'[m] = 0 \/ (batches'[m] = 1 /\ fate'[m] = "none")
  BY <1>2 DEF BatchInv, Waiting
<1> QED
  BY <1>1, <1>3, <1>4 DEF BatchInv, OneScheduler

LEMMA BatchAggregation ==
  ASSUME TypeOK, BatchInv, OneScheduler, NEW s \in Schedulers, CheckAggregation(s)
  PROVE  BatchInv'
<1>0. pc[s] \in {"agg_reset", "agg_store", "agg_push"} => InHand(s) = loaded[s] /\ loaded[s] \subseteq Members
  BY DEF TypeOK, BatchInv, PassInv, InHand
<1>1. CASE ResetCount(s)
  <2>1. CASE made[s]
    BY <1>1, <2>1 DEF TypeOK, BatchInv, PassInv, Waiting, InHand, ResetCount, passVars
  <2>2. CASE ~made[s]
    <3>1. /\ EndPass(s) /\ GoTo(s, "pages") /\ UNCHANGED <<joined, group, batches>>
          /\ fate' = [m \in Members |-> IF m \in loaded[s] THEN "discarded" ELSE fate[m]]
      BY <1>1, <2>2 DEF ResetCount
    <3>2. InHand(s) = loaded[s] /\ loaded[s] \subseteq Members
      BY <1>0, <1>1 DEF ResetCount
    <3> QED
      BY <3>1, <3>2, BatchEnds
  <2> QED
    BY <2>1, <2>2
<1>2. CASE PushBatch(s)
  <2>1. /\ EndPass(s) /\ GoTo(s, "pages") /\ UNCHANGED <<joined, group, fate>>
        /\ batches' = [m \in Members |-> Count(m, s)]
    BY <1>2 DEF PushBatch, groupVars
  <2>2. InHand(s) = loaded[s] /\ loaded[s] \subseteq Members
    BY <1>0, <1>2 DEF PushBatch
  <2> QED
    BY <2>1, <2>2, BatchEnds DEF Count
<1> QED
  BY <1>1, <1>2, BatchReads, BatchRemove DEF CheckAggregation

LEMMA BatchFaults ==
  ASSUME TypeOK, BatchInv, OneScheduler, NEW s \in Schedulers, CommandFails(s) \/ Crash(s)
  PROVE  BatchInv'
<1>1. /\ EndPass(s) /\ UNCHANGED <<joined, group, batches>>
      /\ fate' = [m \in Members |-> IF m \in InHand(s) THEN "lost" ELSE fate[m]]
  BY DEF CommandFails, Crash, PassStops, groupVars
<1>2. PICK next : next \notin AggPcs /\ GoTo(s, next)
  BY DEF CommandFails, Crash, AfterRetry, AfterDelayed
<1>3. InHand(s) \subseteq Members
  BY DEF TypeOK, InHand
<1> QED
  BY <1>1, <1>2, <1>3, BatchEnds

LEMMA SingleStep == TypeOK /\ SingleInv /\ [Next]_vars => SingleInv'
<1> SUFFICES ASSUME TypeOK, BatchInv, OneScheduler, [Next]_vars PROVE BatchInv'
  BY DEF SingleInv
<1>1. CASE (\E t \in Timed : Submit(t)) \/ Clock \/ UNCHANGED vars
  <2>1. UNCHANGED <<joined, group, pc, passVars, historyVars>>
    BY <1>1 DEF Submit, Clock, vars, groupVars
  <2> QED
    BY <2>1 DEF BatchInv, PassInv, Waiting, InHand, passVars, historyVars
<1> QED
  BY <1>1, BatchClients, BatchTimed, BatchAggregation, BatchFaults DEF Next

(* With one scheduler a member gets into one batch at most, whatever fails. *)
THEOREM OneBatchEach == Spec => []OneBatch
<1>1. TypeOK /\ SingleInv => OneBatch
  BY OneSchedulerIs DEF TypeOK, SingleInv, BatchInv, Waiting, OneBatch
<1>2. Init => SingleInv
  BY BatchInit DEF SingleInv
<1> QED
  BY <1>1, <1>2, TypeInit, TypeStep, SingleStep, PTL DEF Spec
=============================================================================
