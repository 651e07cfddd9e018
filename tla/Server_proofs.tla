---------------------------- MODULE Server_proofs ----------------------------
(* Proofs of the registry invariants of Server, for any servers, workers    *)
(* and bounds.                                                              *)
EXTENDS Server, TLAPS

(* What is left of a worker in Redis.                                      *)
Gone(w) == w \notin workers /\ meta[w] = Absent

(* What each step of registering and unregistering has behind it: the       *)
(* metadata come before the entry in the set and go after it.               *)
Placed(w) ==
    /\ w \in workers => meta[w] # Absent
    /\ wpc[w] \in {"reg_set", "reg_beat", "reg_ttl", "un_set"} \cup LoopPcs => meta[w] # Absent
    /\ wpc[w] \in {"reg_beat", "reg_ttl"} \cup LoopPcs => w \in workers
    /\ wpc[w] = "un_meta" => w \notin workers
    /\ wpc[w] = "un_beat" => Gone(w)
    /\ wpc[w] \in {"abort", "ended"} /\ w \notin broken => Gone(w)
    /\ wpc[w] = "panicked" => w \in broken
    /\ wpc[w] = "count_put" => read[w] = meta[w]
    /\ spc[ServerOf[w]] = "stopped" /\ w \notin broken => Gone(w)

RegistryInv == \A w \in Workers : Placed(w)

USE DEF Runs, Absent, RegisterPcs, LoopPcs, UnregisterPcs, OverPcs

-----------------------------------------------------------------------------
LEMMA TypeInit == Init => TypeOK
  BY ServerAssumption DEF Init, TypeOK

(* The steps of the process keep the types.                                *)
LEMMA TypeProcess ==
  ASSUME TypeOK, NEW s \in Servers, ProcessStep(s)
  PROVE  TypeOK'
<1>0. ServerOf \in [Workers -> Servers]
  BY ServerAssumption
<1>1. CASE StartServer(s)
  <2>1. starts' \in [Servers -> 0 .. MaxStarts]
    BY <1>1, ServerAssumption DEF TypeOK, StartServer
  <2>2. wpc' \in [Workers -> {"none", "abort"} \cup RegisterPcs \cup LoopPcs \cup UnregisterPcs \cup OverPcs]
    BY <1>1 DEF TypeOK, StartServer
  <2>3. \A w \in Workers : ~Runs(ServerOf[w])' => wpc'[w] = "none" /\ hpc'[w] = "off"
    BY <1>0, <1>1 DEF TypeOK, StartServer
  <2> QED
    BY <1>1, <2>1, <2>2, <2>3 DEF TypeOK, StartServer, redisVars, WorkersOf
<1>2. CASE Interrupt(s) \/ Drain(s) \/ JanitorExit(s)
  <2>1. shutdown' \in [Servers -> BOOLEAN] /\ sigint' \in [Servers -> BOOLEAN]
    BY <1>2 DEF TypeOK, Interrupt, Drain, JanitorExit
  <2>2. spc' \in [Servers -> {"down", "up", "draining", "stopped"}]
    BY <1>2 DEF TypeOK, Interrupt, Drain, JanitorExit
  <2>3. UNCHANGED <<redisVars, starts, workerVars, broken>>
    BY <1>2 DEF Interrupt, Drain, JanitorExit
  <2>4. \A w \in Workers : ~Runs(ServerOf[w])' => wpc'[w] = "none" /\ hpc'[w] = "off"
    BY <1>0, <1>2 DEF TypeOK, Interrupt, Drain, JanitorExit, workerVars
  <2> QED
    BY <2>1, <2>2, <2>3, <2>4 DEF TypeOK, redisVars, workerVars
<1>3. CASE Exit(s) \/ Crash(s)
  <2>1. PICK how \in {"stopped", "down"} : ProcessEnds(s, how)
    BY <1>3 DEF Exit, Crash
  <2>2. shutdown' \in [Servers -> BOOLEAN] /\ sigint' \in [Servers -> BOOLEAN]
    BY <2>1 DEF TypeOK, ProcessEnds
  <2>3. spc' \in [Servers -> {"down", "up", "draining", "stopped"}]
    BY <2>1 DEF TypeOK, ProcessEnds
  <2>4. broken' \subseteq Workers
    BY <1>3 DEF TypeOK, Exit, Crash, WorkersOf
  <2>5. \A w \in Workers : ~Runs(ServerOf[w])' => wpc'[w] = "none" /\ hpc'[w] = "off"
    BY <1>0, <2>1 DEF TypeOK, ProcessEnds
  <2>6. /\ wpc' \in [Workers -> {"none", "abort"} \cup RegisterPcs \cup LoopPcs \cup UnregisterPcs \cup OverPcs]
        /\ hpc' \in [Workers -> {"off", "check", "tick", "ttl"}]
        /\ read' \in [Workers -> Nat]
    BY <2>1 DEF TypeOK, ProcessEnds
  <2>7. UNCHANGED <<redisVars, starts>>
    BY <2>1 DEF ProcessEnds
  <2> QED
    BY <2>2, <2>3, <2>4, <2>5, <2>6, <2>7 DEF TypeOK, redisVars
<1> QED
  BY <1>1, <1>2, <1>3 DEF ProcessStep

(* So do those of a worker and of its heartbeat task, which exist only      *)
(* while the process runs.                                                  *)
LEMMA TypeWorker ==
  ASSUME TypeOK, NEW w \in Workers,
         WorkerStep(w) \/ Heartbeat(w) \/ BeatExpires(w) \/ StopWorker(w)
  PROVE  TypeOK'
<1>0. ServerOf \in [Workers -> Servers]
  BY ServerAssumption
<1>1. CASE Register(w)
  BY <1>0, <1>1 DEF TypeOK, Register, RegisterMeta, RegisterSet, RegisterBeat, RegisterTtl,
     RegisterFails, GoTo, ExpireBeat, redisVars, serverVars
<1>2. CASE Dequeue(w) \/ HandlerFails(w) \/ HandlerPanics(w) \/ HandlerSucceeds(w)
  BY <1>0, <1>2 DEF TypeOK, Dequeue, HandlerFails, HandlerPanics, HandlerSucceeds, GoTo,
     redisVars, serverVars
<1>3. CASE CountGet(w) \/ CountPut(w) \/ CountFails(w)
  BY <1>0, <1>3 DEF TypeOK, CountGet, CountPut, CountFails, GoTo, redisVars, serverVars
<1>4. CASE Unregister(w)
  BY <1>0, <1>4 DEF TypeOK, Unregister, LeaveLoop, UnregisterSet, UnregisterMeta,
     UnregisterBeat, UnregisterFails, Abort, GoTo, redisVars, serverVars
<1>5. CASE Heartbeat(w)
  BY <1>0, <1>5 DEF TypeOK, Heartbeat, BeatCheck, BeatSet, BeatTtl, BeatFails, ExpireBeat,
     redisVars, serverVars
<1>6. CASE BeatExpires(w) \/ StopWorker(w)
  BY <1>0, <1>6 DEF TypeOK, BeatExpires, StopWorker, serverVars, workerVars
<1> QED
  BY <1>1, <1>2, <1>3, <1>4, <1>5, <1>6 DEF WorkerStep, Work

LEMMA TypeStep == TypeOK /\ [Next]_vars => TypeOK'
<1> SUFFICES ASSUME TypeOK, [Next]_vars PROVE TypeOK'
  OBVIOUS
<1>1. CASE \E s \in Servers : ProcessStep(s)
  BY <1>1, TypeProcess
<1>2. CASE \E w \in Workers : WorkerStep(w) \/ Heartbeat(w) \/ BeatExpires(w) \/ StopWorker(w)
  BY <1>2, TypeWorker
<1>3. CASE UNCHANGED vars
  BY <1>3 DEF TypeOK, vars, redisVars, serverVars, workerVars
<1> QED
  BY <1>1, <1>2, <1>3 DEF Next

(* Every variable keeps its type, and the tasks of a process (the workers   *)
(* and the heartbeats that tokio runs) never outlive it.                    *)
THEOREM ServerTypes == Spec => []TypeOK
  BY TypeInit, TypeStep, PTL DEF Spec

-----------------------------------------------------------------------------
LEMMA RegistryInit == Init => RegistryInv
  BY ServerAssumption DEF Init, RegistryInv, Placed, Gone

(* A step of one worker leaves the others as they are.                      *)
Only(w) ==
    /\ \A v \in Workers \ {w} :
          /\ wpc'[v] = wpc[v] /\ meta'[v] = meta[v] /\ read'[v] = read[v]
          /\ v \in workers' <=> v \in workers
          /\ v \in broken' <=> v \in broken
    /\ spc' = spc

LEMMA OnlyPlaced ==
  ASSUME RegistryInv, NEW w \in Workers, Only(w), Placed(w)'
  PROVE  RegistryInv'
  BY DEF RegistryInv, Placed, Gone, Only

LEMMA RegistryProcess ==
  ASSUME TypeOK, RegistryInv, NEW s \in Servers, ProcessStep(s)
  PROVE  RegistryInv'
<1> SUFFICES ASSUME NEW w \in Workers PROVE Placed(w)'
  BY DEF RegistryInv
<1>0. ServerOf[w] \in Servers /\ Placed(w)
  BY ServerAssumption DEF RegistryInv
<1>1. CASE StartServer(s)
  BY <1>0, <1>1 DEF TypeOK, StartServer, Placed, Gone, redisVars, WorkersOf
<1>2. CASE Interrupt(s) \/ Drain(s) \/ JanitorExit(s)
  BY <1>0, <1>2 DEF TypeOK, Interrupt, Drain, JanitorExit, Placed, Gone, redisVars, workerVars
<1>3. CASE Exit(s)
  BY <1>0, <1>3 DEF TypeOK, Exit, ProcessEnds, Placed, Gone, redisVars, WorkersOf
<1>4. CASE Crash(s)
  BY <1>0, <1>4 DEF TypeOK, Crash, ProcessEnds, Placed, Gone, redisVars, WorkersOf
<1> QED
  BY <1>1, <1>2, <1>3, <1>4 DEF ProcessStep

LEMMA RegistryWorker ==
  ASSUME TypeOK, RegistryInv, NEW w \in Workers,
         WorkerStep(w) \/ Heartbeat(w) \/ BeatExpires(w) \/ StopWorker(w)
  PROVE  RegistryInv'
<1>0. ServerOf[w] \in Servers /\ Placed(w) /\ (wpc[w] # "none" => Runs(ServerOf[w]))
  BY ServerAssumption DEF RegistryInv, TypeOK
<1>1. CASE Register(w)
  BY <1>0, <1>1, OnlyPlaced DEF TypeOK, Only, Register, RegisterMeta, RegisterSet, RegisterBeat,
     RegisterTtl, RegisterFails, GoTo, Placed, Gone, redisVars, serverVars
<1>2. CASE Dequeue(w) \/ HandlerFails(w) \/ HandlerPanics(w) \/ HandlerSucceeds(w)
  BY <1>0, <1>2, OnlyPlaced DEF TypeOK, Only, Dequeue, HandlerFails, HandlerPanics,
     HandlerSucceeds, GoTo, Placed, Gone, redisVars, serverVars
<1>3. CASE CountGet(w) \/ CountPut(w) \/ CountFails(w)
  BY <1>0, <1>3, OnlyPlaced DEF TypeOK, Only, CountGet, CountPut, CountFails, GoTo, Placed, Gone,
     redisVars, serverVars
<1>4. CASE Unregister(w)
  BY <1>0, <1>4, OnlyPlaced DEF TypeOK, Only, Unregister, LeaveLoop, UnregisterSet, UnregisterMeta,
     UnregisterBeat, UnregisterFails, Abort, GoTo, Placed, Gone, redisVars, serverVars
<1>5. CASE Heartbeat(w) \/ BeatExpires(w) \/ StopWorker(w)
  BY <1>0, <1>5, OnlyPlaced DEF TypeOK, Only, Heartbeat, BeatCheck, BeatSet, BeatTtl, BeatFails,
     BeatExpires, StopWorker, Placed, Gone, redisVars, serverVars, workerVars
<1> QED
  BY <1>1, <1>2, <1>3, <1>4, <1>5 DEF WorkerStep, Work

LEMMA RegistryStep == TypeOK /\ RegistryInv /\ [Next]_vars => RegistryInv'
<1> SUFFICES ASSUME TypeOK, RegistryInv, [Next]_vars PROVE RegistryInv'
  OBVIOUS
<1>1. CASE \E s \in Servers : ProcessStep(s)
  BY <1>1, RegistryProcess
<1>2. CASE \E w \in Workers : WorkerStep(w) \/ Heartbeat(w) \/ BeatExpires(w) \/ StopWorker(w)
  BY <1>2, RegistryWorker
<1>3. CASE UNCHANGED vars
  BY <1>3 DEF RegistryInv, Placed, Gone, vars, redisVars, serverVars, workerVars
<1> QED
  BY <1>1, <1>2, <1>3 DEF Next

LEMMA RegistryHolds == Spec => [](TypeOK /\ RegistryInv)
  BY TypeInit, TypeStep, RegistryInit, RegistryStep, PTL DEF Spec

(* Every listed worker has metadata, through errors, crashes and restarts.  *)
THEOREM AlwaysDescribed == Spec => []ListedIsDescribed
<1>1. TypeOK /\ RegistryInv => ListedIsDescribed
  BY DEF TypeOK, RegistryInv, Placed, ListedIsDescribed
<1> QED
  BY <1>1, RegistryHolds, PTL

(* A worker is listed as long as it takes tasks.                            *)
THEOREM AlwaysListed == Spec => []LoopIsListed
<1>1. RegistryInv => LoopIsListed
  BY DEF RegistryInv, Placed, LoopIsListed
<1> QED
  BY <1>1, RegistryHolds, PTL

(* A graceful shutdown leaves no registration of a worker that nothing      *)
(* interrupted.                                                             *)
THEOREM ExitIsClean == Spec => []CleanExit
<1>1. RegistryInv => CleanExit
  BY DEF RegistryInv, Placed, Gone, CleanExit
<1> QED
  BY <1>1, RegistryHolds, PTL

(* What increment_processed read is still stored when it writes.            *)
THEOREM CountStaysFresh == Spec => []CountIsFresh
<1>1. RegistryInv => CountIsFresh
  BY DEF RegistryInv, Placed, CountIsFresh
<1> QED
  BY <1>1, RegistryHolds, PTL
=============================================================================
