-------------------------- MODULE Progress_proofs --------------------------
(* Proofs of the invariants of Progress, for any tasks, workers, threads,   *)
(* attempts and failures.                                                   *)
EXTENDS Progress, TLAPS

Own(w) == <<w, "own">>
Spawned(w) == <<w, "spawned">>

(* A worker in the middle of a round has a task; what its handler holds and *)
(* what it reports itself is of that task.                                  *)
OwnInv ==
    /\ \A w \in Workers : pc[w] # "idle" => task[w] \in Tasks
    /\ \A w \in Workers : handle[w] # NoTask => pc[w] = "handler" /\ handle[w] = task[w]
    /\ \A w \in Workers : ~Idle(Own(w)) => pc[w] # "idle" /\ report[Own(w)].ctx = task[w]
    /\ \A r \in Reporters : ~Idle(r) => report[r].ctx \in Tasks

-----------------------------------------------------------------------------
(* A worker's own reporter and what it spawned are different reporters.    *)
LEMMA ReportersAre ==
  /\ \A w \in Workers : Own(w) \in Reporters
  /\ \A w \in Spawners : Spawned(w) \in Reporters
  /\ \A w, u \in Workers : Own(w) = Own(u) => w = u
  /\ \A w, u \in Workers : Own(w) # Spawned(u)
  /\ \A r \in Reporters : (\E w \in Workers : r = Own(w)) \/ (\E w \in Spawners : r = Spawned(w))
  BY DEF Reporters, Own, Spawned

(* The first state has the types.                                          *)
LEMMA TypeInit == Init => TypeOK /\ OwnInv
  BY ReportersAre, ProgressAssumption
     DEF Init, TypeOK, OwnInv, NoReport, Idle, Hashes, Values

(* The steps of a report.                                                  *)
LEMMA TypeReport ==
  ASSUME TypeOK, OwnInv, NEW r \in Reporters, ReportStep(r)
  PROVE  TypeOK' /\ OwnInv'
<1>1. /\ report' \in [Reporters -> [at : {"none", "hset", "expire"},
                                    ctx : Tasks \cup {NoTask}, v : Values]]
      /\ hash' \in [Tasks -> Hashes]
      /\ faults' \in 0 .. MaxFaults
  <2>1. CASE SetCurrent(r)
    <3>1. report[r].v \in Values /\ report[r].ctx \in Tasks
      BY <2>1 DEF TypeOK, OwnInv, SetCurrent, Idle
    <3>2. \A h \in Hashes : (h # NoHash /\ h.ttl) \in BOOLEAN
      OBVIOUS
    <3>3. hash' \in [Tasks -> Hashes]
      BY <2>1, <3>1, <3>2 DEF TypeOK, SetCurrent, Hashes
    <3>4. report' \in [Reporters -> [at : {"none", "hset", "expire"},
                                    ctx : Tasks \cup {NoTask}, v : Values]]
      BY <2>1 DEF TypeOK, SetCurrent
    <3> QED
      BY <2>1, <3>3, <3>4 DEF TypeOK, SetCurrent
  <2>2. CASE SetTtl(r)
    <3>1. hash' \in [Tasks -> Hashes]
      BY <2>2 DEF TypeOK, SetTtl, Hashes
    <3>2. report' \in [Reporters -> [at : {"none", "hset", "expire"},
                                    ctx : Tasks \cup {NoTask}, v : Values]]
      BY <2>2, ProgressAssumption DEF TypeOK, SetTtl, Done, NoReport, Values
    <3> QED
      BY <2>2, <3>1, <3>2 DEF TypeOK, SetTtl
  <2>3. CASE CommandFails(r)
    BY <2>3, ProgressAssumption DEF TypeOK, CommandFails, Done, NoReport, Values, Fault
  <2> QED
    BY <2>1, <2>2, <2>3 DEF ReportStep
<1>2. cloned' = cloned /\ cut' \subseteq Tasks
  BY DEF TypeOK, OwnInv, ReportStep, SetCurrent, SetTtl, CommandFails, Cuts, historyVars
<1>3. UNCHANGED <<taskVars, workerVars, local>>
  BY DEF ReportStep, SetCurrent, SetTtl, CommandFails
<1>4. \A q \in Reporters : ~Idle(q)' => ~Idle(q) /\ report'[q].ctx = report[q].ctx
  BY DEF TypeOK, ReportStep, SetCurrent, SetTtl, CommandFails, Done, NoReport, Idle
<1>5. TypeOK'
  BY <1>1, <1>2, <1>3 DEF TypeOK, taskVars, workerVars
<1>6. OwnInv'
  BY <1>3, <1>4, ReportersAre DEF OwnInv, taskVars, workerVars
<1> QED
  BY <1>5, <1>6

(* A report that starts.                                                   *)
LEMMA TypeStart ==
  ASSUME TypeOK, NEW r \in Reporters, NEW c \in Tasks, NEW v \in Nat, StartReport(r, c, v)
  PROVE  /\ report' \in [Reporters -> [at : {"none", "hset", "expire"},
                                       ctx : Tasks \cup {NoTask}, v : Values]]
         /\ report'[r] = [at |-> "hset", ctx |-> c, v |-> v]
         /\ \A q \in Reporters : q # r => report'[q] = report[q]
  BY ProgressAssumption DEF TypeOK, StartReport, Values

(* The steps of a handler.                                                 *)
LEMMA TypeHandler ==
  ASSUME TypeOK, OwnInv, NEW w \in Workers, Handler(w)
  PROVE  TypeOK' /\ OwnInv'
<1>0. Own(w) \in Reporters
  BY ReportersAre
<1>1. CASE HandlerReports(w)
  <2>1. PICK v \in 0 .. Full + 1 : StartReport(Own(w), handle[w], v)
    BY <1>1 DEF HandlerReports, Reports, Own
  <2>2. v \in Nat /\ handle[w] \in Tasks /\ handle[w] = task[w] /\ pc[w] = "handler"
    BY <1>1, ProgressAssumption DEF HandlerReports, Reports, OwnInv, TypeOK
  <2>3. UNCHANGED <<taskVars, workerVars, local, hash, faults, historyVars>>
    BY <1>1 DEF HandlerReports, Reports
  <2>4. /\ report' \in [Reporters -> [at : {"none", "hset", "expire"},
                                      ctx : Tasks \cup {NoTask}, v : Values]]
        /\ report'[Own(w)] = [at |-> "hset", ctx |-> handle[w], v |-> v]
        /\ \A q \in Reporters : q # Own(w) => report'[q] = report[q]
    BY <1>0, <2>1, <2>2, TypeStart
  <2>5. TypeOK'
    BY <2>3, <2>4 DEF TypeOK, taskVars, workerVars, historyVars
  <2>6. OwnInv'
    BY <2>2, <2>3, <2>4, ReportersAre DEF OwnInv, Idle, taskVars, workerVars
  <2> QED
    BY <2>5, <2>6
<1>2. CASE AskContext(w) \/ \E th \in Threads : AskTask(w, th) \/ DropGuard(w, th)
  <2>1. UNCHANGED <<taskVars, pc, task, ok, mux, report, hash, historyVars, faults>>
    BY <1>2 DEF AskContext, AskTask, DropGuard, workerVars
  <2>2. local' \in [Threads -> Tasks \cup {NoTask}]
    BY <1>2 DEF TypeOK, AskContext, AskTask, DropGuard
  <2>3. pc[w] = "handler" /\ task[w] \in Tasks
    BY <1>2 DEF OwnInv, AskContext, AskTask, DropGuard, InHandler
  <2>4. \/ UNCHANGED handle
        \/ \E t \in {task[w], NoTask} : handle' = [handle EXCEPT ![w] = t]
    BY <1>2 DEF AskContext, AskTask, DropGuard, progress, workerVars
  <2>5. TypeOK'
    BY <2>1, <2>2, <2>3, <2>4 DEF TypeOK, taskVars, historyVars
  <2>6. OwnInv'
    BY <2>1, <2>3, <2>4 DEF OwnInv, Idle, TypeOK
  <2> QED
    BY <2>5, <2>6
<1>3. CASE HandlerReturns(w) \/ HandlerTimesOut(w)
  <2>1. PICK success \in BOOLEAN : EndHandler(w, success)
    BY <1>3 DEF HandlerReturns, HandlerTimesOut
  <2>2. pc[w] = "handler"
    BY <1>3 DEF HandlerReturns, HandlerTimesOut, InHandler
  <2>3. \/ UNCHANGED <<report, cut>>
        \/ /\ report' = [report EXCEPT ![Own(w)] = NoReport]
           /\ Cuts({Own(w)})
    BY <1>3 DEF HandlerReturns, HandlerTimesOut, Own
  <2>4. cut' \subseteq Tasks
    BY <1>0, <2>3 DEF TypeOK, OwnInv, Cuts
  <2>5. report' \in [Reporters -> [at : {"none", "hset", "expire"},
                                   ctx : Tasks \cup {NoTask}, v : Values]]
    BY <2>3, ProgressAssumption DEF TypeOK, NoReport, Values
  <2>6. \A q \in Reporters : ~Idle(q)' => ~Idle(q) /\ report'[q] = report[q]
    BY <2>3 DEF TypeOK, NoReport, Idle
  <2>7. TypeOK'
    BY <2>1, <2>4, <2>5 DEF TypeOK, EndHandler, GoTo, taskVars
  <2>8. OwnInv'
    BY <2>1, <2>2, <2>6, ReportersAre DEF OwnInv, TypeOK, EndHandler, GoTo
  <2> QED
    BY <2>7, <2>8
<1> QED
  BY <1>1, <1>2, <1>3 DEF Handler

(* A round of a worker.                                                    *)
LEMMA TypeProcess ==
  ASSUME TypeOK, OwnInv, NEW w \in Workers, ProcessTask(w)
  PROVE  TypeOK' /\ OwnInv'
<1>0. Own(w) \in Reporters
  BY ReportersAre
<1>1. CASE \E t \in Tasks, th \in Threads : Begin(w, t, th)
  <2>1. PICK t \in Tasks, th \in Threads : Begin(w, t, th)
    BY <1>1
  <2>2. /\ report' \in [Reporters -> [at : {"none", "hset", "expire"},
                                      ctx : Tasks \cup {NoTask}, v : Values]]
        /\ report'[Own(w)] = [at |-> "hset", ctx |-> t, v |-> 0]
        /\ \A q \in Reporters : q # Own(w) => report'[q] = report[q]
    BY <1>0, <2>1, TypeStart DEF Begin, Own
  <2>3. /\ pc[w] = "idle" /\ pc' = [pc EXCEPT ![w] = "before"]
        /\ task' = [task EXCEPT ![w] = t]
        /\ UNCHANGED handle
    BY <2>1 DEF Begin, GoTo
  <2>4. TypeOK'
    BY <2>1, <2>2 DEF TypeOK, Begin, GoTo
  <2>5. OwnInv'
    BY <2>2, <2>3, ReportersAre DEF OwnInv, TypeOK, Idle
  <2> QED
    BY <2>4, <2>5
<1>2. CASE BeforeFails(w) \/ Ack(w)
  <2>1. PICK next \in {"lost", "done", "ready", "dead"} : Leave(w, next)
    BY <1>2 DEF BeforeFails, Ack
  <2>2. Idle(Own(w)) /\ pc[w] \in {"before", "ack"}
    BY <1>2 DEF BeforeFails, Ack, Own
  <2>3. TypeOK'
    BY <2>1 DEF TypeOK, Leave, GoTo, historyVars
  <2>4. OwnInv'
    BY <2>1, <2>2 DEF OwnInv, TypeOK, Idle, Leave, GoTo
  <2> QED
    BY <2>3, <2>4
<1>3. CASE StartHandler(w)
  <2>1. TypeOK'
    BY <1>3 DEF TypeOK, StartHandler, GoTo, taskVars, historyVars
  <2>2. OwnInv'
    BY <1>3 DEF OwnInv, TypeOK, Idle, StartHandler, GoTo
  <2> QED
    BY <2>1, <2>2
<1>4. CASE Handler(w)
  BY <1>4, TypeHandler
<1>5. CASE \E th \in Threads : Finish(w, th)
  <2>1. PICK th \in Threads : Finish(w, th)
    BY <1>5
  <2>2. pc[w] = "after" /\ task[w] \in Tasks /\ Full \in Nat
    BY <2>1, ProgressAssumption DEF Finish, OwnInv
  <2>3. /\ report' \in [Reporters -> [at : {"none", "hset", "expire"},
                                      ctx : Tasks \cup {NoTask}, v : Values]]
        /\ \A q \in Reporters : q # Own(w) => report'[q] = report[q]
        /\ report'[Own(w)] = report[Own(w)] \/ report'[Own(w)].ctx = task[w]
    <3>1. CASE ok[w]
      <4>1. StartReport(Own(w), task[w], Full)
        BY <2>1, <3>1 DEF Finish, Own
      <4>2. /\ report' \in [Reporters -> [at : {"none", "hset", "expire"},
                                          ctx : Tasks \cup {NoTask}, v : Values]]
            /\ report'[Own(w)] = [at |-> "hset", ctx |-> task[w], v |-> Full]
            /\ \A q \in Reporters : q # Own(w) => report'[q] = report[q]
        BY <1>0, <2>2, <4>1, TypeStart
      <4> QED
        BY <4>2
    <3>2. CASE ~ok[w]
      BY <2>1, <3>2 DEF Finish, TypeOK
    <3> QED
      BY <3>1, <3>2
  <2>4. TypeOK'
    BY <2>1, <2>3 DEF TypeOK, Finish, GoTo, taskVars, historyVars
  <2>5. OwnInv'
    <3>1. pc' = [pc EXCEPT ![w] = "ack"] /\ UNCHANGED <<task, handle>>
      BY <2>1 DEF Finish, GoTo
    <3>2. \A u \in Workers : pc'[u] # "idle" => task'[u] \in Tasks
      BY <2>2, <3>1 DEF OwnInv, TypeOK
    <3>3. \A u \in Workers : handle'[u] # NoTask => pc'[u] = "handler" /\ handle'[u] = task'[u]
      BY <2>2, <3>1 DEF OwnInv, TypeOK
    <3>4. \A u \in Workers : ~Idle(Own(u))' => pc'[u] # "idle" /\ report'[Own(u)].ctx = task'[u]
      BY <2>2, <2>3, <3>1, ReportersAre DEF OwnInv, TypeOK, Idle
    <3>5. \A q \in Reporters : ~Idle(q)' => report'[q].ctx \in Tasks
      BY <2>2, <2>3, ReportersAre DEF OwnInv, Idle
    <3> QED
      BY <3>2, <3>3, <3>4, <3>5 DEF OwnInv
  <2> QED
    BY <2>4, <2>5
<1> QED
  BY <1>1, <1>2, <1>3, <1>4, <1>5 DEF ProcessTask

(* A report of something spawned, which is of its worker's task.           *)
LEMMA TypeSpawned ==
  ASSUME TypeOK, OwnInv, NEW w \in Spawners, SpawnedReports(w)
  PROVE  TypeOK' /\ OwnInv'
<1>0. w \in Workers /\ Spawned(w) \in Reporters
  BY ReportersAre, ProgressAssumption
<1>1. PICK v \in 0 .. Full + 1 : StartReport(Spawned(w), handle[w], v)
  BY DEF SpawnedReports, Reports, Spawned
<1>2. v \in Nat /\ handle[w] \in Tasks /\ handle[w] = task[w]
  BY <1>0, ProgressAssumption DEF SpawnedReports, Reports, OwnInv, TypeOK
<1>3. UNCHANGED <<taskVars, workerVars, local, hash, faults, cut>>
  BY DEF SpawnedReports, Reports
<1>4. /\ report' \in [Reporters -> [at : {"none", "hset", "expire"},
                                    ctx : Tasks \cup {NoTask}, v : Values]]
      /\ report'[Spawned(w)] = [at |-> "hset", ctx |-> handle[w], v |-> v]
      /\ \A q \in Reporters : q # Spawned(w) => report'[q] = report[q]
  BY <1>0, <1>1, <1>2, TypeStart
<1>5. cloned' = cloned \cup {handle[w]}
  BY <1>2 DEF SpawnedReports
<1>6. TypeOK'
  BY <1>2, <1>3, <1>4, <1>5 DEF TypeOK, taskVars, workerVars
<1>7. OwnInv'
  BY <1>0, <1>2, <1>3, <1>4, ReportersAre DEF OwnInv, Idle, taskVars, workerVars
<1> QED
  BY <1>6, <1>7

(* A crash forgets everybody's task, handle and reports.                   *)
LEMMA TypeCrash ==
  ASSUME TypeOK, OwnInv, Crash
  PROVE  TypeOK' /\ OwnInv'
<1>1. cut' \subseteq Tasks
  BY DEF TypeOK, OwnInv, Crash, Cuts
<1>2. faults' \in 0 .. MaxFaults
  BY ProgressAssumption DEF TypeOK, Crash, Fault
<1>3. report' \in [Reporters -> [at : {"none", "hset", "expire"},
                                 ctx : Tasks \cup {NoTask}, v : Values]]
  BY ProgressAssumption DEF Crash, NoReport, Values
<1>4. TypeOK'
  BY <1>1, <1>2, <1>3 DEF TypeOK, Crash
<1>5. OwnInv'
  BY ReportersAre DEF OwnInv, Crash, NoReport, Idle
<1> QED
  BY <1>4, <1>5

(* Any step.                                                               *)
LEMMA TypeStep ==
  ASSUME TypeOK, OwnInv, [Next]_vars
  PROVE  TypeOK' /\ OwnInv'
<1>1. CASE \E w \in Workers : ProcessTask(w)
  BY <1>1, TypeProcess
<1>2. CASE \E w \in Spawners : SpawnedReports(w)
  BY <1>2, TypeSpawned
<1>3. CASE \E r \in Reporters : ReportStep(r)
  BY <1>3, TypeReport
<1>4. CASE \E t \in Tasks : HashGoes(t)
  <2>1. /\ hash' \in [Tasks -> Hashes] /\ faults' \in 0 .. MaxFaults
        /\ UNCHANGED <<taskVars, workerVars, local, report, historyVars>>
    BY <1>4, ProgressAssumption DEF TypeOK, HashGoes, Fault, Hashes
  <2> QED
    BY <2>1 DEF TypeOK, OwnInv, Idle, taskVars, workerVars, historyVars
<1>5. CASE Crash
  BY <1>5, TypeCrash
<1>6. CASE UNCHANGED vars
  BY <1>6 DEF vars, TypeOK, OwnInv, Idle, taskVars, workerVars, historyVars
<1> QED
  BY <1>1, <1>2, <1>3, <1>4, <1>5, <1>6 DEF Next

(* The types and whose reports they are, together inductive.               *)
LEMMA ProgressInv == Spec => [](TypeOK /\ OwnInv)
<1>1. TypeOK /\ OwnInv /\ [Next]_vars => (TypeOK /\ OwnInv)'
  BY TypeStep
<1> QED
  BY <1>1, TypeInit, PTL DEF Spec

(* Every variable keeps its type, whatever fails: TypeOK of Progress.       *)
THEOREM ProgressTypes == Spec => []TypeOK
  BY ProgressInv, PTL

(* A handler reports for its own task only: OwnReports of Progress.         *)
THEOREM ReportsAreOwn == Spec => []OwnReports
<1>1. OwnInv => OwnReports
  BY DEF OwnInv, OwnReports, Own, Idle
<1> QED
  BY <1>1, ProgressInv, PTL

-----------------------------------------------------------------------------
(* What excuses a hash without TTL.                                         *)
Excused(t) == (\E r \in Reporters : ~Idle(r) /\ report[r].ctx = t) \/ t \in cut

(* A step that starts, stops or leaves reports, and no step of one, excuses *)
(* whatever was excused.                                                    *)
LEMMA StaysExcused ==
  ASSUME TypeOK, OwnInv, Next, ~(\E r \in Reporters : SetCurrent(r) \/ SetTtl(r)),
         NEW t \in Tasks, Excused(t)
  PROVE  Excused(t)'
<1>1. SUFFICES ASSUME NEW r \in Reporters, (~Idle(r) /\ report[r].ctx = t) \/ t \in cut
               PROVE  Excused(t)'
  <2>1. Reporters # {} \/ t \in cut
    BY DEF Excused
  <2>2. CASE Reporters = {}
    <3>1. t \in cut /\ Workers = {} /\ Spawners = {}
      BY <2>1, <2>2, ReportersAre, ProgressAssumption
    <3>2. UNCHANGED cut
      BY <2>2, <3>1 DEF Next, HashGoes, Crash, historyVars
    <3> QED
      BY <3>1, <3>2 DEF Excused
  <2> QED
    BY <1>1, <2>2 DEF Excused
<1>2. CASE \E w \in Workers, u \in Tasks, th \in Threads : Begin(w, u, th)
  <2>1. PICK w \in Workers, u \in Tasks, th \in Threads : Begin(w, u, th)
    BY <1>2
  <2>2. Own(w) \in Reporters /\ Idle(Own(w)) /\ 0 \in Nat
    BY <2>1, ReportersAre DEF Begin, Own
  <2>3. /\ report'[Own(w)] = [at |-> "hset", ctx |-> u, v |-> 0]
        /\ \A q \in Reporters : q # Own(w) => report'[q] = report[q]
    BY <2>1, <2>2, TypeStart DEF Begin, Own
  <2>4. cut' = cut \ {u}
    BY <2>1 DEF Begin
  <2>5. CASE u = t
    BY <2>2, <2>3, <2>5 DEF Excused, Idle
  <2>6. CASE u # t
    BY <1>1, <2>2, <2>3, <2>4, <2>6 DEF Excused, Idle
  <2> QED
    BY <2>5, <2>6
<1>3. CASE \/ \E q \in Reporters : CommandFails(q)
           \/ Crash
           \/ \E w \in Workers : HandlerTimesOut(w)
  <2>1. PICK R \in SUBSET Reporters :
           /\ Cuts(R)
           /\ \A q \in Reporters \ R : report'[q] = report[q]
    <3>1. CASE \E q \in Reporters : CommandFails(q)
      <4>1. PICK q \in Reporters : CommandFails(q)
        BY <3>1
      <4> QED
        BY <4>1 DEF CommandFails, Done, TypeOK
    <3>2. CASE Crash
      BY <3>2 DEF Crash
    <3>3. CASE \E w \in Workers : HandlerTimesOut(w)
      <4>1. PICK w \in Workers : HandlerTimesOut(w)
        BY <3>3
      <4>2. Own(w) \in Reporters
        BY ReportersAre
      <4> QED
        BY <4>1, <4>2 DEF HandlerTimesOut, Own, TypeOK
    <3> QED
      BY <1>3, <3>1, <3>2, <3>3
  <2>2. CASE t \in cut
    BY <2>1, <2>2 DEF Cuts, Excused
  <2>3. CASE r \in R /\ ~Idle(r) /\ report[r].ctx = t
    BY <2>1, <2>3 DEF Cuts, Excused
  <2>4. CASE r \notin R /\ ~Idle(r) /\ report[r].ctx = t
    BY <2>1, <2>4 DEF Excused, Idle
  <2> QED
    BY <1>1, <2>2, <2>3, <2>4
<1>4. CASE \/ \E w \in Workers : HandlerReports(w) \/ \E th \in Threads : Finish(w, th)
           \/ \E w \in Spawners : SpawnedReports(w)
  <2>1. /\ UNCHANGED cut
        /\ report' = report \/ \E q \in Reporters, c \in Tasks \cup {NoTask}, v \in Nat : StartReport(q, c, v)
    <3>1. CASE \E w \in Workers : HandlerReports(w)
      <4>1. PICK w \in Workers : HandlerReports(w)
        BY <3>1
      <4>2. Own(w) \in Reporters /\ handle[w] \in Tasks \cup {NoTask}
        BY ReportersAre DEF TypeOK
      <4>3. \E v \in Nat : StartReport(Own(w), handle[w], v)
        BY <4>1, ProgressAssumption DEF HandlerReports, Reports, Own
      <4> QED
        BY <4>1, <4>2, <4>3 DEF HandlerReports, historyVars
    <3>2. CASE \E w \in Workers, th \in Threads : Finish(w, th)
      <4>1. PICK w \in Workers, th \in Threads : Finish(w, th)
        BY <3>2
      <4>2. Own(w) \in Reporters /\ task[w] \in Tasks \cup {NoTask} /\ Full \in Nat
        BY ReportersAre, ProgressAssumption DEF TypeOK
      <4> QED
        BY <4>1, <4>2 DEF Finish, historyVars, Own
    <3>3. CASE \E w \in Spawners : SpawnedReports(w)
      <4>1. PICK w \in Spawners : SpawnedReports(w)
        BY <3>3
      <4>2. Spawned(w) \in Reporters /\ handle[w] \in Tasks \cup {NoTask}
        BY ReportersAre, ProgressAssumption DEF TypeOK
      <4>3. \E v \in Nat : StartReport(Spawned(w), handle[w], v)
        BY <4>1, ProgressAssumption DEF SpawnedReports, Reports, Spawned
      <4> QED
        BY <4>1, <4>2, <4>3 DEF SpawnedReports
    <3> QED
      BY <1>4, <3>1, <3>2, <3>3
  <2>2. CASE report' = report
    BY <1>1, <2>1, <2>2 DEF Excused, Idle
  <2>3. CASE \E q \in Reporters, c \in Tasks \cup {NoTask}, v \in Nat : StartReport(q, c, v)
    <3>1. PICK q \in Reporters : Idle(q) /\ \A p \in Reporters : p # q => report'[p] = report[p]
      BY <2>3 DEF StartReport, TypeOK
    <3>2. ~Idle(r) => report'[r] = report[r]
      BY <3>1
    <3> QED
      BY <1>1, <2>1, <3>2 DEF Excused, Idle
  <2> QED
    BY <2>1, <2>2, <2>3
<1>5. CASE UNCHANGED <<report, cut>>
  BY <1>1, <1>5 DEF Excused, Idle
<1> QED
  <2>1. ASSUME NEW w \in Workers, ProcessTask(w)
        PROVE  Excused(t)'
    BY <2>1, <1>2, <1>3, <1>4, <1>5
       DEF ProcessTask, Handler, BeforeFails, Ack, Leave, StartHandler, AskTask, DropGuard, AskContext,
           HandlerReturns, historyVars
  <2>2. ASSUME NEW u \in Tasks, HashGoes(u)
        PROVE  Excused(t)'
    BY <2>2, <1>5 DEF HashGoes, historyVars
  <2> QED
    BY <1>3, <1>4, <2>1, <2>2 DEF Next, ReportStep

(* A step that writes a hash is the report that excuses it.                *)
LEMMA ExpireStep ==
  ASSUME TypeOK, OwnInv, HashesExpire, [Next]_vars
  PROVE  HashesExpire'
<1>0. \A t \in Tasks : hash[t] # NoHash /\ ~hash[t].ttl => Excused(t)
  BY DEF HashesExpire, Excused
<1>1. SUFFICES ASSUME NEW t \in Tasks, hash'[t] # NoHash, ~hash'[t].ttl
               PROVE  Excused(t)'
  BY DEF HashesExpire, Excused
<1>2. CASE \E r \in Reporters : SetCurrent(r)
  <2>1. PICK r \in Reporters : SetCurrent(r)
    BY <1>2
  <2>2. /\ report[r].at = "hset" /\ UNCHANGED cut
        /\ report'[r].at = "expire" /\ report'[r].ctx = report[r].ctx
        /\ \A q \in Reporters : q # r => report'[q] = report[q]
    BY <2>1 DEF SetCurrent, TypeOK, historyVars
  <2>3. \A u \in Tasks : u # report[r].ctx => hash'[u] = hash[u]
    BY <2>1 DEF SetCurrent, TypeOK
  <2>4. CASE t = report[r].ctx
    BY <2>2, <2>4 DEF Excused, Idle
  <2>5. CASE t # report[r].ctx
    <3>1. Excused(t)
      BY <1>0, <1>1, <2>3, <2>5
    <3> QED
      BY <2>2, <2>5, <3>1 DEF Excused, Idle
  <2> QED
    BY <2>4, <2>5
<1>3. CASE \E r \in Reporters : SetTtl(r)
  <2>1. PICK r \in Reporters : SetTtl(r)
    BY <1>3
  <2>2. /\ UNCHANGED cut
        /\ \A q \in Reporters : q # r => report'[q] = report[q]
    BY <2>1 DEF SetTtl, Done, TypeOK, historyVars
  <2>3. hash' = [hash EXCEPT ![report[r].ctx] = IF @ = NoHash THEN NoHash ELSE [@ EXCEPT !.ttl = TRUE]]
    BY <2>1 DEF SetTtl
  <2>4. t # report[r].ctx
    BY <1>1, <2>3 DEF TypeOK, Hashes
  <2>5. Excused(t)
    BY <1>0, <1>1, <2>3, <2>4 DEF TypeOK
  <2> QED
    BY <2>2, <2>4, <2>5 DEF Excused, Idle
<1>4. CASE Next /\ ~(\E r \in Reporters : SetCurrent(r) \/ SetTtl(r))
  <2>1. hash'[t] = hash[t] \/ hash'[t] = NoHash
    <3>1. ASSUME NEW w \in Workers, ProcessTask(w)
          PROVE  hash' = hash
      BY <3>1 DEF ProcessTask, Handler, Begin, BeforeFails, Ack, Leave, StartHandler, AskTask, DropGuard,
                  AskContext, HandlerReports, Reports, HandlerReturns, HandlerTimesOut, EndHandler, Finish
    <3>2. ASSUME NEW w \in Spawners, SpawnedReports(w)
          PROVE  hash' = hash
      BY <3>2 DEF SpawnedReports, Reports
    <3>3. ASSUME NEW u \in Tasks, HashGoes(u)
          PROVE  hash'[t] = hash[t] \/ hash'[t] = NoHash
      BY <3>3 DEF HashGoes, TypeOK
    <3>4. ASSUME NEW r \in Reporters, CommandFails(r)
          PROVE  hash' = hash
      BY <3>4 DEF CommandFails
    <3>5. Crash => hash' = hash
      BY DEF Crash
    <3> QED
      BY <1>4, <3>1, <3>2, <3>3, <3>4, <3>5 DEF Next, ReportStep
  <2>2. Excused(t)
    BY <1>0, <1>1, <2>1
  <2> QED
    BY <1>4, <2>2, StaysExcused
<1>5. CASE UNCHANGED vars
  BY <1>0, <1>1, <1>5 DEF vars, historyVars, Excused, Idle
<1> QED
  BY <1>2, <1>3, <1>4, <1>5

(* A progress hash has a TTL, or a report that gives it one is under way or *)
(* stopped halfway: HashesExpire of Progress.                               *)
THEOREM NoHashForEver == Spec => []HashesExpire
<1>1. Init => HashesExpire
  BY DEF Init, HashesExpire
<1>2. TypeOK /\ OwnInv /\ HashesExpire /\ [Next]_vars => HashesExpire'
  BY ExpireStep
<1> QED
  BY <1>1, <1>2, ProgressInv, PTL DEF Spec

-----------------------------------------------------------------------------
(* Workers have different tasks, which nobody else may take.                *)
Alone ==
    /\ \A w \in Workers : pc[w] # "idle" => life[task[w]] = "active"
    /\ \A w, u \in Workers : w # u /\ pc[w] # "idle" /\ pc[u] # "idle" => task[w] # task[u]
    /\ \A w \in Workers : ok[w] => pc[w] \in {"after", "ack"}

(* What was spawned reports for a task in cloned only.                      *)
SpawnsKnown == \A w \in Spawners : ~Idle(Spawned(w)) => report[Spawned(w)].ctx \in cloned

Settled(t) == hash[t] = NoHash \/ hash[t].current = Full

(* Once a success is being acknowledged, 100 is on its way or has arrived.  *)
LastIsFull ==
    \A w \in Workers :
        pc[w] = "ack" /\ ok[w] /\ task[w] \notin cloned \cup cut =>
            IF report[Own(w)].at = "hset" THEN report[Own(w)].v = Full ELSE Settled(task[w])

(* DoneIsFull, of the hash itself.                                         *)
DoneSettled == \A t \in Tasks : life[t] = "done" => Settled(t) \/ t \in cloned \cup cut

(* Only a ready task is begun, and it leaves with its worker.              *)
LEMMA AloneStep ==
  ASSUME TypeOK, OwnInv, Alone, [Next]_vars
  PROVE  Alone'
<1>1. CASE \E w \in Workers : ProcessTask(w)
  <2>1. PICK w \in Workers : ProcessTask(w)
    BY <1>1
  <2>2. CASE \E t \in Tasks, th \in Threads : Begin(w, t, th)
    <3>1. PICK t \in Tasks, th \in Threads : Begin(w, t, th)
      BY <2>2
    <3>2. \A u \in Workers : pc[u] # "idle" => task[u] # t
      BY <3>1 DEF Alone, Begin
    <3>3. /\ pc' = [pc EXCEPT ![w] = "before"] /\ task' = [task EXCEPT ![w] = t]
          /\ life' = [life EXCEPT ![t] = "active"] /\ UNCHANGED ok /\ pc[w] = "idle"
      BY <3>1 DEF Begin, GoTo
    <3> QED
      BY <3>2, <3>3 DEF Alone, TypeOK
  <2>3. CASE BeforeFails(w) \/ Ack(w)
    <3>1. PICK next \in {"lost", "done", "ready", "dead"} : Leave(w, next)
      BY <2>3 DEF BeforeFails, Ack
    <3>2. pc[w] # "idle"
      BY <2>3 DEF BeforeFails, Ack
    <3> QED
      BY <3>1, <3>2 DEF Leave, GoTo, Alone, OwnInv, TypeOK
  <2>4. CASE StartHandler(w)
    BY <2>4 DEF StartHandler, GoTo, taskVars, Alone, TypeOK
  <2>5. CASE HandlerReturns(w) \/ HandlerTimesOut(w)
    <3>1. PICK success \in BOOLEAN : EndHandler(w, success)
      BY <2>5 DEF HandlerReturns, HandlerTimesOut
    <3>2. pc[w] = "handler"
      BY <2>5 DEF HandlerReturns, HandlerTimesOut, InHandler
    <3> QED
      BY <3>1, <3>2 DEF EndHandler, GoTo, taskVars, Alone, TypeOK
  <2>6. CASE \E th \in Threads : Finish(w, th)
    BY <2>6 DEF Finish, GoTo, taskVars, Alone, TypeOK
  <2>7. CASE UNCHANGED <<life, pc, task, ok>>
    BY <2>7 DEF Alone
  <2> QED
    BY <2>1, <2>2, <2>3, <2>4, <2>5, <2>6, <2>7
       DEF ProcessTask, Handler, HandlerReports, Reports, AskTask, DropGuard, AskContext, taskVars, workerVars
<1>2. CASE Crash
  BY <1>2 DEF Crash, Alone
<1>3. CASE UNCHANGED <<life, pc, task, ok>>
  BY <1>3 DEF Alone
<1> QED
  BY <1>1, <1>2, <1>3
     DEF Next, SpawnedReports, Reports, ReportStep, SetCurrent, SetTtl, CommandFails, HashGoes, vars,
         taskVars, workerVars

(* A round of a worker changes no hash, and no report but its own.           *)
LEMMA OwnOnly ==
  ASSUME TypeOK, OwnInv, NEW w \in Workers, ProcessTask(w)
  PROVE  /\ UNCHANGED <<hash, cloned>>
         /\ \A q \in Reporters : q # Own(w) => report'[q] = report[q]
<1>1. UNCHANGED <<hash, cloned>>
  BY DEF ProcessTask, Handler, Begin, BeforeFails, Ack, Leave, StartHandler, AskTask, DropGuard, AskContext,
         HandlerReports, Reports, HandlerReturns, HandlerTimesOut, EndHandler, Finish, historyVars
<1>2. \/ report' = report
      \/ report' = [report EXCEPT ![Own(w)] = NoReport]
      \/ \E c, v : report' = [report EXCEPT ![Own(w)] = [at |-> "hset", ctx |-> c, v |-> v]]
  BY DEF ProcessTask, Handler, Begin, BeforeFails, Ack, Leave, StartHandler, AskTask, DropGuard, AskContext,
         HandlerReports, Reports, HandlerReturns, HandlerTimesOut, Finish, StartReport, Own
<1> QED
  BY <1>1, <1>2 DEF TypeOK

(* Whoever is spawned puts its task in cloned as it reports.               *)
LEMMA SpawnsStep ==
  ASSUME TypeOK, OwnInv, SpawnsKnown, [Next]_vars
  PROVE  SpawnsKnown'
<1>0. Spawners \subseteq Workers
  BY ProgressAssumption
<1>1. ASSUME NEW w \in Workers, ProcessTask(w)
      PROVE  SpawnsKnown'
  BY <1>0, <1>1, OwnOnly, ReportersAre DEF SpawnsKnown, Idle
<1>2. ASSUME NEW w \in Spawners, SpawnedReports(w)
      PROVE  SpawnsKnown'
  <2>1. cloned' = cloned \cup {task[w]} /\ handle[w] = task[w]
    BY <1>0, <1>2 DEF SpawnedReports, Reports, OwnInv
  <2>2. PICK v : report' = [report EXCEPT ![Spawned(w)] = [at |-> "hset", ctx |-> handle[w], v |-> v]]
    BY <1>2 DEF SpawnedReports, Reports, StartReport, Spawned
  <2>3. \A u \in Spawners : u # w => report'[Spawned(u)] = report[Spawned(u)]
    BY <2>2, ReportersAre DEF Spawned, TypeOK
  <2>4. report'[Spawned(w)].ctx \in cloned'
    BY <2>1, <2>2, ReportersAre DEF TypeOK
  <2> QED
    BY <2>1, <2>3, <2>4 DEF SpawnsKnown, Idle
<1>3. ASSUME NEW r \in Reporters, ReportStep(r)
      PROVE  SpawnsKnown'
  <2>1. \A q \in Reporters : ~Idle(q)' => ~Idle(q) /\ report'[q].ctx = report[q].ctx
    BY <1>3 DEF TypeOK, ReportStep, SetCurrent, SetTtl, CommandFails, Done, NoReport, Idle
  <2>2. UNCHANGED cloned
    BY <1>3 DEF ReportStep, SetCurrent, SetTtl, CommandFails, historyVars
  <2> QED
    BY <2>1, <2>2, ReportersAre DEF SpawnsKnown
<1>4. ASSUME Crash
      PROVE  SpawnsKnown'
  BY <1>4, ReportersAre DEF Crash, SpawnsKnown, Idle, NoReport
<1>5. CASE UNCHANGED <<report, cloned>>
  BY <1>5 DEF SpawnsKnown, Idle
<1> QED
  BY <1>1, <1>2, <1>3, <1>4, <1>5 DEF Next, HashGoes, historyVars, vars

(* Where only 100 is being written, a settled hash stays settled.           *)
LEMMA StaysSettled ==
  ASSUME TypeOK, OwnInv, SpawnsKnown, [Next]_vars,
         NEW t \in Tasks, t \notin cloned, Settled(t),
         \A w \in Workers :
            report[Own(w)].at = "hset" /\ report[Own(w)].ctx = t => report[Own(w)].v = Full
  PROVE  Settled(t)'
<1>1. ASSUME NEW r \in Reporters, SetCurrent(r)
      PROVE  Settled(t)'
  <2>1. CASE report[r].ctx = t
    <3>1. report[r].at = "hset" /\ ~Idle(r)
      BY <1>1 DEF SetCurrent, Idle
    <3>2. PICK w \in Workers : r = Own(w)
      BY <2>1, <3>1, ReportersAre DEF SpawnsKnown
    <3>3. report[r].v = Full
      BY <2>1, <3>1, <3>2
    <3>4. hash'[t] = [current |-> Full, ttl |-> hash[t] # NoHash /\ hash[t].ttl]
      BY <1>1, <2>1, <3>3 DEF SetCurrent, TypeOK
    <3> QED
      BY <3>4 DEF Settled
  <2>2. CASE report[r].ctx # t
    BY <1>1, <2>2 DEF SetCurrent, Settled, TypeOK
  <2> QED
    BY <2>1, <2>2
<1>2. ASSUME NEW r \in Reporters, SetTtl(r)
      PROVE  Settled(t)'
  <2>1. hash' = [hash EXCEPT ![report[r].ctx] = IF @ = NoHash THEN NoHash ELSE [@ EXCEPT !.ttl = TRUE]]
    BY <1>2 DEF SetTtl
  <2> QED
    BY <2>1 DEF Settled, TypeOK, Hashes
<1>3. ASSUME NEW u \in Tasks, HashGoes(u)
      PROVE  Settled(t)'
  BY <1>3 DEF HashGoes, Settled, TypeOK
<1>4. CASE UNCHANGED hash
  BY <1>4 DEF Settled
<1>5. ASSUME NEW w \in Workers, ProcessTask(w)
      PROVE  Settled(t)'
  BY <1>4, <1>5, OwnOnly
<1> QED
  BY <1>1, <1>2, <1>3, <1>4, <1>5
     DEF Next, ReportStep, CommandFails, SpawnedReports, Reports, Crash, vars

(* What excuses a task from reading 100 stays, unless it is taken again.    *)
LEMMA TracesStay ==
  ASSUME TypeOK, [Next]_vars, NEW t \in Tasks, life[t] # "ready", t \in cloned \cup cut
  PROVE  t \in cloned' \cup cut'
<1>1. ASSUME NEW w \in Workers, ProcessTask(w)
      PROVE  t \in cloned' \cup cut'
  BY <1>1 DEF ProcessTask, Handler, Begin, BeforeFails, Ack, Leave, StartHandler, AskTask, DropGuard,
              AskContext, HandlerReports, HandlerReturns, HandlerTimesOut, EndHandler, Finish, Cuts,
              historyVars
<1> QED
  BY <1>1 DEF Next, SpawnedReports, ReportStep, SetCurrent, SetTtl, CommandFails, HashGoes, Crash, Cuts,
              historyVars, vars

(* A worker that acknowledges waits for its report, which only the steps of *)
(* that report change.                                                     *)
LEMMA AckStays ==
  ASSUME TypeOK, OwnInv, [Next]_vars, NEW w \in Workers, pc'[w] = "ack",
         ~ \E th \in Threads : Finish(w, th)
  PROVE  /\ pc[w] = "ack" /\ task'[w] = task[w] /\ ok'[w] = ok[w]
         /\ report'[Own(w)] = report[Own(w)] \/ ReportStep(Own(w))
<1>0. Own(w) \in Reporters
  BY ReportersAre
<1>1. ASSUME ProcessTask(w)
      PROVE  UNCHANGED <<pc, task, ok, report>>
  <2>1. CASE Handler(w)
    BY <2>1 DEF Handler, AskTask, DropGuard, AskContext, HandlerReports, Reports, HandlerReturns,
                HandlerTimesOut, EndHandler, InHandler, GoTo, workerVars, TypeOK
  <2>2. CASE BeforeFails(w) \/ StartHandler(w) \/ Ack(w) \/ \E t \in Tasks, th \in Threads : Begin(w, t, th)
    BY <2>2 DEF BeforeFails, StartHandler, Ack, Begin, Leave, GoTo, TypeOK
  <2> QED
    BY <1>1, <2>1, <2>2 DEF ProcessTask
<1>2. ASSUME NEW u \in Workers, u # w, ProcessTask(u)
      PROVE  /\ pc'[w] = pc[w] /\ task'[w] = task[w] /\ ok'[w] = ok[w]
             /\ report'[Own(w)] = report[Own(w)]
  <2>1. report'[Own(w)] = report[Own(w)]
    BY <1>0, <1>2, OwnOnly, ReportersAre
  <2>2. pc'[w] = pc[w] /\ task'[w] = task[w] /\ ok'[w] = ok[w]
    BY <1>2 DEF ProcessTask, Handler, Begin, BeforeFails, Ack, Leave, StartHandler, AskTask, DropGuard,
                AskContext, HandlerReports, Reports, HandlerReturns, HandlerTimesOut, EndHandler, Finish,
                GoTo, workerVars, TypeOK
  <2> QED
    BY <2>1, <2>2
<1>3. ASSUME NEW u \in Spawners, SpawnedReports(u)
      PROVE  UNCHANGED <<pc, task, ok>> /\ report'[Own(w)] = report[Own(w)]
  <2>1. u \in Workers /\ Own(w) # Spawned(u)
    BY ReportersAre, ProgressAssumption
  <2> QED
    BY <1>0, <1>3, <2>1 DEF SpawnedReports, Reports, StartReport, Spawned, workerVars, TypeOK
<1>4. ASSUME NEW r \in Reporters, ReportStep(r)
      PROVE  UNCHANGED <<pc, task, ok>> /\ (r # Own(w) => report'[Own(w)] = report[Own(w)])
  BY <1>0, <1>4 DEF ReportStep, SetCurrent, SetTtl, CommandFails, Done, workerVars, TypeOK
<1>5. ~Crash
  BY DEF Crash
<1> QED
  BY <1>1, <1>2, <1>3, <1>4, <1>5 DEF Next, HashGoes, vars, workerVars

(* The last report of a success carries 100 until it is written.           *)
LEMMA LastStep ==
  ASSUME TypeOK, OwnInv, Alone, SpawnsKnown, LastIsFull, [Next]_vars
  PROVE  LastIsFull'
<1>1. SUFFICES ASSUME NEW w \in Workers, pc'[w] = "ack", ok'[w], task'[w] \notin cloned' \cup cut'
               PROVE  IF report'[Own(w)].at = "hset" THEN report'[Own(w)].v = Full ELSE Settled(task[w])'
  BY DEF LastIsFull, Settled
<1>0. Own(w) \in Reporters
  BY ReportersAre
<1>2. CASE \E th \in Threads : Finish(w, th)
  <2>1. StartReport(Own(w), task[w], Full)
    BY <1>1, <1>2 DEF Finish, Own
  <2> QED
    BY <1>0, <2>1 DEF StartReport, TypeOK
<1>3. CASE ~ \E th \in Threads : Finish(w, th)
  <2>1. /\ pc[w] = "ack" /\ task'[w] = task[w] /\ ok[w] /\ task[w] \in Tasks
        /\ report'[Own(w)] = report[Own(w)] \/ ReportStep(Own(w))
    BY <1>1, <1>3, AckStays DEF OwnInv
  <2>0. PICK t \in Tasks : t = task[w] /\ t = task'[w]
    BY <2>1
  <2>2. t \notin cloned \cup cut
    BY <1>1, <2>1, <2>0, TracesStay DEF Alone
  <2>3. IF report[Own(w)].at = "hset" THEN report[Own(w)].v = Full ELSE Settled(t)
    BY <2>1, <2>2, <2>0 DEF LastIsFull
  <2>4. CASE report[Own(w)].at = "hset" /\ ReportStep(Own(w))
    <3>0. report[Own(w)].ctx = t /\ report[Own(w)].v = Full
      BY <2>3, <2>4, <2>0 DEF OwnInv, Idle
    <3>1. ~CommandFails(Own(w))
      <4>1. ASSUME CommandFails(Own(w))
            PROVE  report[Own(w)].ctx \in cut'
        BY <4>1 DEF CommandFails, Cuts, Idle
      <4> QED
        BY <1>1, <2>0, <3>0, <4>1
    <3>2. SetCurrent(Own(w))
      BY <2>4, <3>1 DEF ReportStep, SetTtl
    <3>3. report'[Own(w)].at = "expire"
      BY <1>0, <3>2 DEF SetCurrent, TypeOK
    <3>4. hash'[t] = [current |-> Full, ttl |-> hash[t] # NoHash /\ hash[t].ttl]
      BY <3>0, <3>2 DEF SetCurrent, TypeOK
    <3>5. Settled(t)'
      BY <3>4 DEF Settled
    <3> QED
      BY <2>0, <3>3, <3>5 DEF Settled
  <2>5. CASE report[Own(w)].at = "hset" /\ report'[Own(w)] = report[Own(w)]
    BY <2>3, <2>5
  <2>6. CASE report[Own(w)].at # "hset"
    <3>1. \A u \in Workers :
             report[Own(u)].at = "hset" /\ report[Own(u)].ctx = t => report[Own(u)].v = Full
      BY <2>1, <2>6, <2>0 DEF Alone, OwnInv, Idle
    <3>2. Settled(t)'
      BY <2>2, <2>3, <2>6, <3>1, StaysSettled
    <3>3. report'[Own(w)].at # "hset"
      BY <1>0, <2>1, <2>6 DEF ReportStep, SetCurrent, SetTtl, CommandFails, Done, NoReport, TypeOK
    <3> QED
      BY <2>0, <3>2, <3>3 DEF Settled
  <2> QED
    BY <2>1, <2>4, <2>5, <2>6
<1> QED
  BY <1>2, <1>3

(* A task becomes done with a settled hash, and keeps it.                  *)
LEMMA DoneStep ==
  ASSUME TypeOK, OwnInv, Alone, SpawnsKnown, LastIsFull, DoneSettled, [Next]_vars
  PROVE  DoneSettled'
<1>1. SUFFICES ASSUME NEW t \in Tasks, life'[t] = "done", t \notin cloned' \cup cut'
               PROVE  Settled(t)'
  BY DEF DoneSettled, Settled
<1>2. CASE life[t] = "done"
  <2>1. t \notin cloned \cup cut
    BY <1>1, <1>2, TracesStay
  <2>2. Settled(t)
    BY <1>2, <2>1 DEF DoneSettled, Settled
  <2>3. \A w \in Workers :
           report[Own(w)].at = "hset" /\ report[Own(w)].ctx = t => report[Own(w)].v = Full
    BY <1>2 DEF Alone, OwnInv, Idle
  <2> QED
    BY <2>1, <2>2, <2>3, StaysSettled
<1>3. CASE life[t] # "done"
  <2>0. ~Crash /\ life' # life
    BY <1>1, <1>3 DEF Crash, TypeOK
  <2>1. \E w \in Workers : ProcessTask(w)
    BY <2>0 DEF Next, SpawnedReports, Reports, ReportStep, SetCurrent, SetTtl, CommandFails, HashGoes,
                taskVars, vars
  <2>2. PICK w \in Workers : Ack(w)
    BY <1>1, <1>3, <2>1
       DEF ProcessTask, Handler, Begin, BeforeFails, Leave, StartHandler, AskTask, DropGuard, AskContext,
           HandlerReports, Reports, HandlerReturns, HandlerTimesOut, EndHandler, Finish, taskVars, TypeOK
  <2>3. t = task[w] /\ ok[w] /\ pc[w] = "ack" /\ Idle(Own(w))
    BY <1>1, <1>3, <2>2 DEF Ack, Leave, TypeOK, Own
  <2>4. UNCHANGED <<hash, cloned, cut>>
    BY <2>2 DEF Ack, Leave, historyVars
  <2>5. Settled(t)
    BY <1>1, <2>3, <2>4 DEF LastIsFull, Idle
  <2> QED
    BY <2>4, <2>5 DEF Settled
<1> QED
  BY <1>2, <1>3

(* A processed task reads 100: DoneIsFull of Progress.                      *)
THEOREM DoneReadsFull == Spec => []DoneIsFull
<1>1. Init => Alone /\ SpawnsKnown /\ LastIsFull /\ DoneSettled
  BY ReportersAre DEF Init, Alone, SpawnsKnown, LastIsFull, DoneSettled, Idle, NoReport
<1>2. /\ TypeOK /\ OwnInv /\ Alone /\ SpawnsKnown /\ LastIsFull /\ DoneSettled
      /\ [Next]_vars
      => (Alone /\ SpawnsKnown /\ LastIsFull /\ DoneSettled)'
  BY AloneStep, SpawnsStep, LastStep, DoneStep
<1>3. DoneSettled => DoneIsFull
  BY DEF DoneSettled, Settled, DoneIsFull, get_task_progress
<1> QED
  BY <1>1, <1>2, <1>3, ProgressInv, PTL DEF Spec
=============================================================================
