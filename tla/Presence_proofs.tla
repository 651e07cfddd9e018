--------------------------- MODULE Presence_proofs ---------------------------
(* What the heartbeat key says about its worker, and what the dashboard      *)
(* counts of all workers, for any configuration that build lets through,    *)
(* any number of workers and any horizon.                                   *)
EXTENDS Presence, FiniteSetTheorems, WellFoundedInduction, TLAPS

(* The types the heartbeat relies on.                                       *)
BeatTypes ==
    /\ horizon \in Horizons
    /\ now \in Nat /\ config \in ServerConfigs \cup {NoConfig} /\ shutdown \in BOOLEAN
    /\ beat \in [Workers -> Nat \cup {NoKey, NoTTL}]
    /\ pc \in [Workers -> {"new", "registering", "live", "panicked", "leaving", "ended"}]
    /\ due \in [Workers -> Nat]
    /\ beating \in [Workers -> BOOLEAN] /\ half \in [Workers -> BOOLEAN]
    /\ missed \in [Workers -> Nat] /\ bare \in [Workers -> BOOLEAN]
    /\ stopped \in [Workers -> BOOLEAN] /\ ended \in [Workers -> Nat]

(* Nobody beats before the server is built.                                 *)
Built(w) ==
    /\ pc[w] # "new" => config # NoConfig
    /\ pc[w] = "new" => beat[w] = NoKey /\ ~beating[w] /\ ~half[w]

(* No tick is later than MaxLate, and one that is half done is due.          *)
OnTime(w) ==
    /\ Beats(w) => now <= due[w] + MaxLate
    /\ half[w] => due[w] <= now

(* The key of a worker that beats lasts until its TTL after the tick before  *)
(* the ones it missed, unless it is without TTL.                            *)
Lasts(w) ==
    /\ pc[w] \in {"registering", "live", "panicked"} /\ half[w] /\ ~stopped[w] => beat[w] = NoTTL
    /\ pc[w] \in {"live", "panicked"} /\ beating[w] /\ ~stopped[w] =>
          \/ beat[w] = NoTTL
          \/ beat[w] \in Nat /\ due[w] + Ttl <= beat[w] + (missed[w] + 1) * Interval

(* The key is within a TTL of the last tick, and of the heartbeat task's end. *)
Ends(w) ==
    /\ beat[w] \in Nat => beat[w] <= now + Ttl
    /\ beat[w] = NoTTL => half[w] \/ bare[w]
    /\ pc[w] = "ended" => ~beating[w]
    /\ pc[w] = "registering" => beat[w] \notin Nat
    /\ pc[w] \notin {"new", "registering"} /\ ~beating[w] =>
          /\ ~half[w]
          /\ beat[w] \in Nat => beat[w] <= ended[w] + Ttl

WorkerInv(w) == Built(w) /\ OnTime(w) /\ Lasts(w) /\ Ends(w)

PresenceInv == BeatTypes /\ \A w \in Workers : WorkerInv(w)

-----------------------------------------------------------------------------
(* The interval and the TTL of a configuration are natural numbers.         *)
LEMMA SpansAreNat ==
  ASSUME config \in ServerConfigs
  PROVE  Interval \in Nat /\ Ttl \in Nat
<1> DEFINE c == config
<1>1. IsServerConfig(c)
  BY PresenceAssumption
<1>2. /\ c.heartbeat_interval \in Nat /\ c.worker_timeout \in Nat
      /\ c.multiplier[1] \in Nat /\ c.multiplier[2] \in Nat /\ c.multiplier[2] > 0
  BY <1>1 DEF IsServerConfig
<1>3. \A a, b, d \in Nat : d > 0 => (a * b) \div d \in Nat
  <2>1. \A a, b \in Nat : a * b \in Nat
    OBVIOUS
  <2>2. \A a, d \in Nat : d > 0 => a \div d \in Nat
    OBVIOUS
  <2> QED
    BY <2>1, <2>2
<1>4. (c.worker_timeout * c.multiplier[1]) \div c.multiplier[2] \in Nat
  BY <1>2, <1>3
<1> QED
  BY <1>2, <1>4 DEF Interval, Ttl

LEMMA OneMore == \A m, i \in Nat : (m + 1 + 1) * i = (m + 1) * i + i /\ (m + 1) * i \in Nat
OBVIOUS

(* Which configurations there are to build.                                 *)
LEMMA HorizonConfigs ==
  ASSUME horizon \in Horizons, NEW c \in horizon.configs
  PROVE  c \in ServerConfigs
BY DEF ServerConfigs

LEMMA TypesInit == Init => BeatTypes
<1> SUFFICES ASSUME Init PROVE BeatTypes
  OBVIOUS
<1>1. beat \in [Workers -> Nat \cup {NoKey, NoTTL}]
  BY DEF Init
<1>2. /\ pc \in [Workers -> {"new", "registering", "live", "panicked", "leaving", "ended"}]
      /\ due \in [Workers -> Nat] /\ missed \in [Workers -> Nat] /\ ended \in [Workers -> Nat]
  BY DEF Init
<1>3. /\ beating \in [Workers -> BOOLEAN] /\ half \in [Workers -> BOOLEAN]
      /\ bare \in [Workers -> BOOLEAN] /\ stopped \in [Workers -> BOOLEAN]
  BY DEF Init
<1> QED
  BY <1>1, <1>2, <1>3 DEF Init, BeatTypes

LEMMA TypesStep ==
  ASSUME BeatTypes, [Next]_vars, \A w \in Workers : Built(w)
  PROVE  BeatTypes'
<1>1. ASSUME NEW c \in horizon.configs, Build(c)
      PROVE  BeatTypes'
  <2>1. c \in ServerConfigs
    BY <1>1, HorizonConfigs DEF BeatTypes
  <2> QED
    BY <1>1, <2>1 DEF Build, BeatTypes, redisVars, workerVars, histVars
<1>2. ASSUME NEW w \in Workers, WorkerStep(w) \/ StopWorker(w) \/ GetWorker(w)
      PROVE  BeatTypes'
  <2>1. pc[w] # "new" => Interval \in Nat /\ Ttl \in Nat
    BY SpansAreNat DEF BeatTypes, Built
  <2>2. CASE Register(w)
    BY <2>2 DEF Register, BeatTypes, serverVars, histVars
  <2>3. CASE SetBeat(w)
    BY <2>3 DEF SetBeat, BeatTypes, serverVars
  <2>4. CASE ExpireBeat(w)
    <3>1. now + Ttl \in Nat /\ NextDue(w) \in Nat
      BY <2>1, <2>4 DEF ExpireBeat, Beats, Built, NextDue, BeatTypes
    <3> QED
      BY <2>4, <3>1 DEF ExpireBeat, BeatTypes, serverVars
  <2>5. CASE BeatFails(w)
    <3>1. due[w] + Interval \in Nat
      BY <2>1, <2>5 DEF BeatFails, Built, BeatTypes
    <3> QED
      BY <2>5, <3>1 DEF BeatFails, BeatTypes, serverVars, redisVars
  <2>6. CASE Succeed(w)
    BY <2>6 DEF Succeed, BeatTypes, serverVars, workerVars
  <2>11. CASE Panics(w)
    BY <2>11 DEF Panics, BeatTypes, serverVars, redisVars, histVars
  <2>7. CASE Unregister(w)
    BY <2>7 DEF Unregister, BeatTypes, serverVars, histVars
  <2>8. CASE End(w)
    BY <2>8 DEF End, BeatTypes, serverVars, redisVars
  <2>9. CASE StopWorker(w)
    BY <2>9 DEF StopWorker, BeatTypes, serverVars, workerVars
  <2>10. CASE GetWorker(w)
    BY <2>10 DEF GetWorker, BeatTypes, serverVars, redisVars, workerVars, histVars
  <2> QED
    BY <1>2, <2>2, <2>3, <2>4, <2>5, <2>6, <2>7, <2>8, <2>9, <2>10, <2>11 DEF WorkerStep
<1>3. ASSUME ListWorkers \/ ListFails \/ EndRefresh \/ Shutdown \/ Tick \/ UNCHANGED vars
      PROVE  BeatTypes'
  <2>1. CASE ListWorkers
    BY <2>1 DEF ListWorkers, BeatTypes, serverVars, redisVars, workerVars, histVars
  <2>2. CASE ListFails
    BY <2>2 DEF ListFails, BeatTypes, serverVars, redisVars, workerVars, histVars
  <2>3. CASE EndRefresh
    BY <2>3 DEF EndRefresh, BeatTypes, serverVars, redisVars, workerVars, histVars
  <2>4. CASE Shutdown
    BY <2>4 DEF Shutdown, BeatTypes, redisVars, workerVars, histVars
  <2>5. CASE Tick
    BY <2>5 DEF Tick, BeatTypes, serverVars, redisVars, workerVars, histVars
  <2>6. CASE UNCHANGED vars
    BY <2>6 DEF vars, BeatTypes, serverVars, redisVars, workerVars, histVars
  <2> QED
    BY <1>3, <2>1, <2>2, <2>3, <2>4, <2>5, <2>6
<1> QED
  BY <1>1, <1>2, <1>3 DEF Next

-----------------------------------------------------------------------------
(* One worker at a time.                                                    *)

LEMMA WorkersInit == Init => \A w \in Workers : WorkerInv(w)
BY PresenceAssumption DEF Init, WorkerInv, Built, OnTime, Lasts, Ends, Beats

(* What the invariant of a worker depends on.                               *)
Still(w) ==
    /\ config' = config /\ now' = now
    /\ pc'[w] = pc[w] /\ beat'[w] = beat[w] /\ due'[w] = due[w]
    /\ beating'[w] = beating[w] /\ half'[w] = half[w] /\ missed'[w] = missed[w]
    /\ bare'[w] = bare[w] /\ stopped'[w] = stopped[w] /\ ended'[w] = ended[w]

(* The interval and the TTL change with the configuration only.             *)
LEMMA SameSpans == config' = config => Interval' = Interval /\ Ttl' = Ttl
BY DEF Interval, Ttl

LEMMA StillHolds ==
  ASSUME NEW w \in Workers, WorkerInv(w), Still(w)
  PROVE  WorkerInv(w)'
BY SameSpans DEF WorkerInv, Built, OnTime, Lasts, Ends, Beats, Still

(* A worker's step leaves the others alone.                                 *)
LEMMA OthersStill ==
  ASSUME BeatTypes, NEW w \in Workers, WorkerStep(w) \/ StopWorker(w) \/ GetWorker(w),
         NEW v \in Workers, v # w
  PROVE  Still(v)
BY DEF BeatTypes, WorkerStep, Register, SetBeat, ExpireBeat, BeatFails, Succeed, Panics, Unregister, End,
       StopWorker, GetWorker, Still, serverVars, redisVars, workerVars, histVars

(* The types of one worker's part of the state.                             *)
LEMMA OneWorker ==
  ASSUME BeatTypes, NEW w \in Workers, Built(w), pc[w] # "new"
  PROVE  /\ Interval \in Nat /\ Ttl \in Nat
         /\ now \in Nat /\ due[w] \in Nat /\ missed[w] \in Nat /\ ended[w] \in Nat
         /\ beat[w] \in Nat \cup {NoKey, NoTTL} /\ half[w] \in BOOLEAN
  BY SpansAreNat DEF BeatTypes, Built

LEMMA RegisterHolds ==
  ASSUME BeatTypes, NEW w \in Workers, WorkerInv(w), Register(w)
  PROVE  WorkerInv(w)'
BY PresenceAssumption DEF BeatTypes, Register, WorkerInv, Built, OnTime, Lasts, Ends, Beats, serverVars, histVars

LEMMA SetBeatHolds ==
  ASSUME BeatTypes, NEW w \in Workers, WorkerInv(w), SetBeat(w)
  PROVE  WorkerInv(w)'
<1>1. pc[w] # "new"
  BY DEF SetBeat, Beats, WorkerInv, Built
<1>2. pc[w] # "ended"
  BY DEF SetBeat, Beats, WorkerInv, Ends
<1>3. /\ config' = config /\ now' = now /\ pc' = pc /\ due' = due /\ beating' = beating
      /\ beat'[w] = NoTTL /\ half'[w] /\ due[w] <= now
  BY DEF SetBeat, BeatTypes, serverVars
<1>4. pc[w] = "registering" \/ beating[w]
  BY DEF SetBeat, Beats
<1>5. NoTTL \notin Nat
  BY PresenceAssumption
<1>6. Built(w)' /\ OnTime(w)' /\ Lasts(w)'
  BY <1>1, <1>3 DEF WorkerInv, Built, OnTime, Lasts, Beats
<1>7. Ends(w)'
  BY <1>2, <1>3, <1>4, <1>5 DEF Ends
<1> QED
  BY <1>6, <1>7 DEF WorkerInv

(* The expiry counts from now, and the next tick is due an interval after   *)
(* one that was due.                                                        *)
LEMMA ExpireBeatHolds ==
  ASSUME BeatTypes, NEW w \in Workers, WorkerInv(w), ExpireBeat(w)
  PROVE  WorkerInv(w)'
<1>1. pc[w] # "new" /\ pc[w] # "ended"
  BY DEF ExpireBeat, WorkerInv, Built, Ends
<1>2. /\ Interval \in Nat /\ Ttl \in Nat /\ now \in Nat /\ due[w] \in Nat
      /\ Interval' = Interval /\ Ttl' = Ttl
  BY <1>1, OneWorker, SameSpans DEF ExpireBeat, WorkerInv, serverVars
<1>3. /\ config' = config /\ now' = now /\ stopped' = stopped
      /\ beating'[w] = ~shutdown /\ ended'[w] = IF shutdown THEN now ELSE ended[w]
      /\ beat'[w] = IF beat[w] = NoKey THEN NoKey ELSE now + Ttl
      /\ ~half'[w] /\ missed'[w] = 0
      /\ pc'[w] = IF pc[w] = "registering" THEN "live" ELSE pc[w]
      /\ due'[w] = NextDue(w)
  BY DEF ExpireBeat, BeatTypes, serverVars
<1>4. due[w] <= now
  BY DEF ExpireBeat, WorkerInv, OnTime
<1>5. NextDue(w) \in Nat /\ NextDue(w) <= now + Interval /\ now <= NextDue(w) + MaxLate
  BY <1>2, <1>4, PresenceAssumption DEF NextDue, ExpireBeat, WorkerInv, OnTime
<1>6. (missed'[w] + 1) * Interval = Interval
  BY <1>2, <1>3
<1>7. Lasts(w)'
  <2>1. ASSUME pc'[w] \in {"live", "panicked"}, ~stopped[w] PROVE beat'[w] = now + Ttl
    BY <2>1, <1>3, PresenceAssumption DEF ExpireBeat, WorkerInv, Lasts
  <2> QED
    BY <2>1, <1>2, <1>3, <1>5, <1>6 DEF Lasts
<1>8. Built(w)' /\ OnTime(w)'
  BY <1>1, <1>3, <1>5 DEF Built, OnTime, WorkerInv
<1>9. Ends(w)'
  <2>1. pc'[w] \notin {"new", "registering", "ended"}
    BY <1>1, <1>3
  <2>2. beat'[w] \in Nat => beat'[w] = now + Ttl
    BY <1>3, PresenceAssumption
  <2>3. beat'[w] # NoTTL
    BY <1>2, <1>3, PresenceAssumption
  <2>4. ~beating'[w] => ended'[w] = now
    BY <1>3
  <2> QED
    BY <1>2, <1>3, <2>1, <2>2, <2>3, <2>4 DEF Ends
<1> QED
  BY <1>7, <1>8, <1>9 DEF WorkerInv

(* A tick that fails moves the next one and counts one more missed.         *)
LEMMA BeatFailsHolds ==
  ASSUME BeatTypes, NEW w \in Workers, WorkerInv(w), BeatFails(w)
  PROVE  WorkerInv(w)'
<1>1. pc[w] # "new" /\ pc[w] # "ended"
  BY DEF BeatFails, WorkerInv, Built, Ends
<1>2. /\ Interval \in Nat /\ Ttl \in Nat /\ now \in Nat /\ due[w] \in Nat /\ missed[w] \in Nat
      /\ Interval' = Interval /\ Ttl' = Ttl
  BY <1>1, OneWorker, SameSpans DEF BeatFails, WorkerInv, serverVars
<1>3. /\ config' = config /\ now' = now /\ stopped' = stopped
      /\ beating'[w] = ~shutdown /\ ended'[w] = (IF shutdown THEN now ELSE ended[w])
      /\ pc' = pc /\ beat' = beat
      /\ ~half'[w] /\ missed'[w] = missed[w] + 1
      /\ due'[w] = due[w] + Interval
      /\ bare'[w] = (bare[w] \/ half[w])
      /\ beating[w]
  BY DEF BeatFails, BeatTypes, serverVars, redisVars
<1>4. Lasts(w)'
  <2>1. /\ (missed'[w] + 1) * Interval = (missed[w] + 1) * Interval + Interval
        /\ (missed[w] + 1) * Interval \in Nat
    BY <1>2, <1>3, OneMore
  <2> QED
    BY <2>1, <1>2, <1>3 DEF Lasts, WorkerInv
<1>5. Built(w)' /\ OnTime(w)'
  BY <1>1, <1>2, <1>3, PresenceAssumption DEF Built, OnTime, WorkerInv, Beats
<1>6. Ends(w)'
  BY <1>1, <1>2, <1>3 DEF Ends, WorkerInv
<1> QED
  BY <1>4, <1>5, <1>6 DEF WorkerInv

LEMMA PanicsHolds ==
  ASSUME BeatTypes, NEW w \in Workers, WorkerInv(w), Panics(w)
  PROVE  WorkerInv(w)'
<1>1. /\ config' = config /\ now' = now /\ beat' = beat /\ due' = due /\ beating' = beating
      /\ half' = half /\ missed' = missed /\ bare' = bare /\ stopped' = stopped /\ ended' = ended
      /\ pc[w] = "live" /\ pc'[w] = "panicked" /\ Ttl' = Ttl /\ Interval' = Interval
  BY SameSpans DEF Panics, BeatTypes, serverVars, redisVars, histVars
<1> QED
  BY <1>1 DEF WorkerInv, Built, OnTime, Lasts, Ends, Beats

LEMMA UnregisterHolds ==
  ASSUME BeatTypes, NEW w \in Workers, WorkerInv(w), Unregister(w)
  PROVE  WorkerInv(w)'
BY PresenceAssumption DEF BeatTypes, Unregister, WorkerInv, Built, OnTime, Lasts, Ends, Beats, serverVars, histVars

LEMMA EndHolds ==
  ASSUME BeatTypes, NEW w \in Workers, WorkerInv(w), End(w)
  PROVE  WorkerInv(w)'
<1>1. pc[w] # "new"
  BY DEF End
<1>2. /\ config' = config /\ now' = now /\ beat' = beat /\ Ttl' = Ttl
      /\ pc'[w] = "ended" /\ ~beating'[w] /\ ~half'[w]
      /\ ended'[w] = IF beating[w] THEN now ELSE ended[w]
      /\ bare'[w] = (bare[w] \/ half[w])
  BY SameSpans DEF End, BeatTypes, serverVars, redisVars
<1> QED
  BY <1>1, <1>2 DEF WorkerInv, Built, OnTime, Lasts, Ends, Beats

LEMMA StopWorkerHolds ==
  ASSUME BeatTypes, NEW w \in Workers, WorkerInv(w), StopWorker(w)
  PROVE  WorkerInv(w)'
BY PresenceAssumption DEF BeatTypes, StopWorker, WorkerInv, Built, OnTime, Lasts, Ends, Beats, serverVars, workerVars

(* A second passes only while no tick is at its latest.                     *)
LEMMA TickHolds ==
  ASSUME BeatTypes, NEW w \in Workers, WorkerInv(w), Tick
  PROVE  WorkerInv(w)'
<1>1. /\ now' = now + 1 /\ now \in Nat /\ config' = config /\ pc' = pc /\ beat' = beat
      /\ due' = due /\ due[w] \in Nat /\ beating' = beating /\ half' = half /\ missed' = missed
      /\ bare' = bare /\ stopped' = stopped /\ ended' = ended
      /\ Beats(w) => now < due[w] + MaxLate
  BY DEF Tick, BeatTypes, serverVars, redisVars, workerVars, histVars
<1>2. Interval' = Interval /\ Ttl' = Ttl
  BY <1>1, SameSpans
<1>3. Built(w)' /\ Lasts(w)'
  BY <1>1, <1>2 DEF WorkerInv, Built, Lasts
<1>4. OnTime(w)'
  BY <1>1, PresenceAssumption DEF WorkerInv, OnTime, Beats
<1>5. Ends(w)'
  <2>1. ASSUME beat[w] \in Nat PROVE Ttl \in Nat
    BY <2>1, OneWorker, PresenceAssumption DEF WorkerInv, Built
  <2> QED
    BY <2>1, <1>1, <1>2 DEF WorkerInv, Ends
<1> QED
  BY <1>3, <1>4, <1>5 DEF WorkerInv

-----------------------------------------------------------------------------
LEMMA PresenceStep == PresenceInv /\ [Next]_vars => PresenceInv'
<1> SUFFICES ASSUME PresenceInv, [Next]_vars
             PROVE  PresenceInv'
  OBVIOUS
<1>1. BeatTypes /\ \A w \in Workers : WorkerInv(w)
  BY DEF PresenceInv
<1>2. BeatTypes'
  BY <1>1, TypesStep DEF WorkerInv
<1>3. ASSUME NEW v \in Workers PROVE WorkerInv(v)'
  <2>1. ASSUME NEW c \in horizon.configs, Build(c) PROVE WorkerInv(v)'
    <3>1. pc[v] = "new" /\ beat[v] = NoKey /\ ~beating[v] /\ ~half[v]
      BY <2>1, <1>1 DEF Build, WorkerInv, Built
    <3>2. pc' = pc /\ beat' = beat /\ beating' = beating /\ half' = half
      BY <2>1 DEF Build, redisVars, workerVars
    <3> QED
      BY <3>1, <3>2, PresenceAssumption DEF WorkerInv, Built, OnTime, Lasts, Ends, Beats
  <2>2. ASSUME NEW w \in Workers, WorkerStep(w) \/ StopWorker(w) \/ GetWorker(w)
        PROVE  WorkerInv(v)'
    <3>1. CASE v # w
      BY <3>1, <2>2, <1>1, OthersStill, StillHolds
    <3>2. CASE v = w
      <4>1. CASE Succeed(w) \/ GetWorker(w)
        <5>1. Still(v)
          BY <4>1, <3>2 DEF Succeed, GetWorker, Still, serverVars, redisVars, workerVars, histVars
        <5> QED
          BY <5>1, <1>1, StillHolds
      <4> QED
        BY <4>1, <3>2, <2>2, <1>1, RegisterHolds, SetBeatHolds, ExpireBeatHolds, BeatFailsHolds,
           PanicsHolds, UnregisterHolds, EndHolds, StopWorkerHolds DEF WorkerStep
    <3> QED
      BY <3>1, <3>2
  <2>3. CASE Tick
    BY <2>3, <1>1, TickHolds
  <2>4. CASE ListWorkers \/ ListFails \/ EndRefresh \/ Shutdown \/ UNCHANGED vars
    <3>1. Still(v)
      BY <2>4 DEF ListWorkers, ListFails, EndRefresh, Shutdown, Still, vars, serverVars, redisVars,
                  workerVars, histVars
    <3> QED
      BY <3>1, <1>1, StillHolds
  <2> QED
    BY <2>1, <2>2, <2>3, <2>4 DEF Next
<1> QED
  BY <1>2, <1>3 DEF PresenceInv

(* What the heartbeat key says of one worker follows.                       *)
LEMMA InvMeansAlive == PresenceInv => BeatMeansAlive
<1> SUFFICES ASSUME PresenceInv, NEW w \in Workers
             PROVE  /\ /\ pc[w] \in {"live", "panicked"} /\ beating[w] /\ ~stopped[w]
                       /\ Ttl > (missed[w] + 1) * Interval + MaxLate
                       => Key(w)
                    /\ pc[w] \notin {"new", "registering"} /\ ~beating[w] /\ Key(w)
                       => bare[w] \/ now < ended[w] + Ttl
  BY DEF BeatMeansAlive
<1>1. BeatTypes /\ WorkerInv(w)
  BY DEF PresenceInv
<1>2. ASSUME pc[w] \in {"live", "panicked"}, beating[w], ~stopped[w], Ttl > (missed[w] + 1) * Interval + MaxLate
      PROVE  Key(w)
  <2>1. Interval \in Nat /\ Ttl \in Nat /\ now \in Nat /\ due[w] \in Nat /\ missed[w] \in Nat
    BY <1>1, <1>2, OneWorker DEF WorkerInv
  <2>2. (missed[w] + 1) * Interval \in Nat
    BY <2>1
  <2>3. now <= due[w] + MaxLate
    BY <1>1, <1>2 DEF WorkerInv, OnTime, Beats
  <2>4. \/ beat[w] = NoTTL
        \/ beat[w] \in Nat /\ due[w] + Ttl <= beat[w] + (missed[w] + 1) * Interval
    BY <1>1, <1>2 DEF WorkerInv, Lasts
  <2>5. CASE beat[w] = NoTTL
    BY <2>5 DEF Key
  <2>6. CASE beat[w] \in Nat /\ due[w] + Ttl <= beat[w] + (missed[w] + 1) * Interval
    <3>1. beat[w] > now
      BY <2>1, <2>2, <2>3, <2>6, <1>2, PresenceAssumption
    <3> QED
      BY <3>1, <2>6, PresenceAssumption DEF Key
  <2> QED
    BY <2>4, <2>5, <2>6
<1>3. ASSUME pc[w] \notin {"new", "registering"}, ~beating[w], Key(w)
      PROVE  bare[w] \/ now < ended[w] + Ttl
  <2>1. Ttl \in Nat /\ now \in Nat /\ ended[w] \in Nat /\ beat[w] \in Nat \cup {NoKey, NoTTL}
    BY <1>1, <1>3, OneWorker DEF WorkerInv
  <2> QED
    BY <2>1, <1>1, <1>3 DEF Key, WorkerInv, Ends
<1> QED
  BY <1>2, <1>3

(* update_heartbeat_for, for any interval, timeout and multiplier: while the *)
(* heartbeat task runs, with its worker or after a panic of the worker, the  *)
(* key is there as long as the TTL outlasts the missed ticks and the delay   *)
(* of the next one; a TTL after the task stopped, it is gone.                *)
THEOREM BeatsWhileAlive == Spec => []BeatMeansAlive
<1>1. Init => PresenceInv
  BY TypesInit, WorkersInit DEF PresenceInv
<1> QED
  BY <1>1, PresenceStep, InvMeansAlive, PTL DEF Spec
-----------------------------------------------------------------------------
(* Sums over finite sets.  The library's theorems of induction take an      *)
(* operator, which no prover here instantiates; so each lemma looks at the  *)
(* smallest set for which it would fail.                                    *)

(* The sum of f over S, as the fold unfolds it.                            *)
Any(s) == CHOOSE x \in s : TRUE

Unfolds(f, S, g) ==
    g = [s \in SUBSET S |-> IF s = {} THEN 0 ELSE g[s \ {Any(s)}] + f[Any(s)]]

Sum(f, S) == (CHOOSE g : Unfolds(f, S, g))[S]

(* A set of numbers that has a member has a least one.                      *)
LEMMA LeastNumber ==
    ASSUME NEW T \in SUBSET Nat, T # {}
    PROVE  \E m \in T : \A n \in T : m <= n
<1> DEFINE R == OpToRel(<, Nat)
<1>1. IsWellFoundedOn(R, Nat)
  BY NatLessThanWellFounded
<1>2. \A x, y \in Nat : x < y => <<x, y>> \in R
  BY DEF OpToRel
<1> HIDE DEF R
<1>3. PICK m \in T : \A n \in T : <<n, m>> \notin R
  BY <1>1, WFMin
<1>4. ASSUME NEW n \in T PROVE m <= n
  <2>1. ~(n < m)
    BY <1>2, <1>3
  <2> QED
    BY <2>1, SMT
<1> QED
  BY <1>4

(* A family of subsets of a finite set has a smallest one.                  *)
LEMMA SmallestSet ==
    ASSUME NEW S, IsFiniteSet(S), NEW B \in SUBSET SUBSET S, B # {}
    PROVE  \E s \in B : /\ IsFiniteSet(s)
                        /\ \A x \in s : s \ {x} \notin B
<1> DEFINE Sizes == {Cardinality(s) : s \in B}
<1>1. \A s \in B : IsFiniteSet(s) /\ Cardinality(s) \in Nat
  BY FS_Subset, FS_CardinalityType
<1>2. PICK m \in Sizes : \A n \in Sizes : m <= n
  <2>1. Sizes \subseteq Nat /\ Sizes # {}
    BY <1>1
  <2> QED
    BY <2>1, LeastNumber
<1>3. PICK s \in B : m = Cardinality(s)
  BY <1>2
<1>4. ASSUME NEW x \in s, s \ {x} \in B PROVE FALSE
  <2>1. Cardinality(s \ {x}) = Cardinality(s) - 1
    BY <1>1, FS_RemoveElement
  <2>2. Cardinality(s) <= Cardinality(s \ {x})
    BY <1>2, <1>3, <1>4
  <2> QED
    BY <1>1, <2>1, <2>2
<1> QED
  BY <1>1, <1>4

(* The recursion has at most one solution.                                  *)
LEMMA UnfoldsOnce ==
    ASSUME NEW f, NEW S, IsFiniteSet(S), NEW T \in SUBSET S,
           NEW g, Unfolds(f, S, g), NEW h, Unfolds(f, T, h)
    PROVE  \A s \in SUBSET T : g[s] = h[s]
<1> DEFINE B == {s \in SUBSET T : g[s] # h[s]}
<1>1. IsFiniteSet(T)
  BY FS_Subset
<1> SUFFICES ASSUME B # {} PROVE FALSE
  OBVIOUS
<1>2. PICK s \in B : \A x \in s : s \ {x} \notin B
  BY <1>1, SmallestSet
<1>3. g[s] = IF s = {} THEN 0 ELSE g[s \ {Any(s)}] + f[Any(s)]
  BY DEF Unfolds
<1>4. h[s] = IF s = {} THEN 0 ELSE h[s \ {Any(s)}] + f[Any(s)]
  BY DEF Unfolds
<1>5. s # {} => Any(s) \in s
  BY DEF Any
<1>6. s # {} => g[s \ {Any(s)}] = h[s \ {Any(s)}]
  BY <1>2, <1>5
<1> QED
  BY <1>3, <1>4, <1>6

(* The sums over the subsets of S are what a solution for S says.          *)
LEMMA SumIsSolution ==
    ASSUME NEW f, NEW S, IsFiniteSet(S), NEW g, Unfolds(f, S, g), NEW T \in SUBSET S
    PROVE  Sum(f, T) = g[T]
<1> DEFINE k == [s \in SUBSET T |-> g[s]]
<1>1. Unfolds(f, T, k)
  <2>1. ASSUME NEW s \in SUBSET T PROVE k[s] = IF s = {} THEN 0 ELSE k[s \ {Any(s)}] + f[Any(s)]
    <3>1. g[s] = IF s = {} THEN 0 ELSE g[s \ {Any(s)}] + f[Any(s)]
      BY DEF Unfolds
    <3>2. k[s \ {Any(s)}] = g[s \ {Any(s)}] /\ k[s] = g[s]
      OBVIOUS
    <3> QED
      BY <3>1, <3>2
  <2> QED
    BY <2>1 DEF Unfolds
<1> DEFINE h == CHOOSE e : Unfolds(f, T, e)
<1>2. Unfolds(f, T, h)
  BY <1>1, Zenon
<1>3. Sum(f, T) = h[T]
  BY DEF Sum
<1> HIDE DEF h, k
<1>4. g[T] = h[T]
  BY <1>2, UnfoldsOnce
<1> QED
  BY <1>3, <1>4

(* The recursion has a solution for every finite set.                       *)
LEMMA UnfoldsExists ==
    ASSUME NEW f, NEW S, IsFiniteSet(S)
    PROVE  \E g : Unfolds(f, S, g)
<1> DEFINE B == {T \in SUBSET S : ~\E g : Unfolds(f, T, g)}
<1> SUFFICES ASSUME B # {} PROVE FALSE
  BY DEF B
<1>1. PICK T \in B : IsFiniteSet(T) /\ \A x \in T : T \ {x} \notin B
  BY SmallestSet
<1> DEFINE g == [s \in SUBSET T |-> IF s = {} THEN 0 ELSE Sum(f, s \ {Any(s)}) + f[Any(s)]]
<1>2. ASSUME NEW s \in SUBSET T, s # {} PROVE g[s \ {Any(s)}] = Sum(f, s \ {Any(s)})
  <2> DEFINE x == Any(s)
             t == s \ {x}
  <2>1. x \in s
    BY <1>2 DEF Any
  <2>2. PICK h : Unfolds(f, T \ {x}, h)
    BY <1>1, <2>1
  <2>3. IsFiniteSet(T \ {x}) /\ t \in SUBSET (T \ {x})
    BY <1>1, FS_Subset
  <2>4. Sum(f, t) = h[t]
    BY <2>2, <2>3, SumIsSolution
  <2>5. h[t] = IF t = {} THEN 0 ELSE h[t \ {Any(t)}] + f[Any(t)]
    BY <2>2, <2>3 DEF Unfolds
  <2>6. Sum(f, t \ {Any(t)}) = h[t \ {Any(t)}]
    BY <2>2, <2>3, SumIsSolution
  <2>7. g[t] = IF t = {} THEN 0 ELSE Sum(f, t \ {Any(t)}) + f[Any(t)]
    BY <2>3
  <2> QED
    BY <2>4, <2>5, <2>6, <2>7
<1>3. Unfolds(f, T, g)
  <2> SUFFICES g = [s \in SUBSET T |-> IF s = {} THEN 0 ELSE g[s \ {Any(s)}] + f[Any(s)]]
    BY DEF Unfolds
  <2> HIDE DEF g
  <2>1. \A s \in SUBSET T : g[s] = IF s = {} THEN 0 ELSE Sum(f, s \ {Any(s)}) + f[Any(s)]
    BY DEF g
  <2>2. g = [s \in SUBSET T |-> g[s]]
    BY DEF g
  <2> QED
    BY <1>2, <2>1, <2>2
<1> QED
  BY <1>1, <1>3 DEF B

(* What the sum over a finite set is.                                       *)
LEMMA SumUnfolds ==
    ASSUME NEW f, NEW S, IsFiniteSet(S)
    PROVE  Sum(f, S) = IF S = {} THEN 0 ELSE Sum(f, S \ {Any(S)}) + f[Any(S)]
<1>1. PICK g : Unfolds(f, S, g)
  BY UnfoldsExists
<1>2. g[S] = IF S = {} THEN 0 ELSE g[S \ {Any(S)}] + f[Any(S)]
  BY <1>1 DEF Unfolds
<1>3. Sum(f, S) = g[S] /\ Sum(f, S \ {Any(S)}) = g[S \ {Any(S)}]
  BY <1>1, SumIsSolution
<1> QED
  BY <1>2, <1>3

(* Where f and g agree they have the same sum.                              *)
LEMMA SumAgrees ==
    ASSUME NEW f, NEW g, NEW S, IsFiniteSet(S), \A x \in S : f[x] = g[x]
    PROVE  Sum(f, S) = Sum(g, S)
<1> DEFINE B == {s \in SUBSET S : Sum(f, s) # Sum(g, s)}
<1> SUFFICES ASSUME B # {} PROVE FALSE
  BY DEF B
<1>1. PICK s \in B : IsFiniteSet(s) /\ \A x \in s : s \ {x} \notin B
  BY SmallestSet
<1>2. s # {} => Any(s) \in s
  BY DEF Any
<1>3. s # {} => Sum(f, s \ {Any(s)}) = Sum(g, s \ {Any(s)}) /\ f[Any(s)] = g[Any(s)]
  BY <1>1, <1>2
<1>4. /\ Sum(f, s) = IF s = {} THEN 0 ELSE Sum(f, s \ {Any(s)}) + f[Any(s)]
      /\ Sum(g, s) = IF s = {} THEN 0 ELSE Sum(g, s \ {Any(s)}) + g[Any(s)]
  BY <1>1, SumUnfolds
<1> QED
  BY <1>3, <1>4

(* The sum of natural numbers is one.                                       *)
LEMMA SumType ==
    ASSUME NEW f, NEW S, IsFiniteSet(S), \A x \in S : f[x] \in Nat
    PROVE  Sum(f, S) \in Nat
<1> DEFINE B == {s \in SUBSET S : Sum(f, s) \notin Nat}
<1> SUFFICES ASSUME B # {} PROVE FALSE
  BY DEF B
<1>1. PICK s \in B : IsFiniteSet(s) /\ \A x \in s : s \ {x} \notin B
  BY SmallestSet
<1>2. s # {} => Any(s) \in s
  BY DEF Any
<1>3. s # {} => Sum(f, s \ {Any(s)}) \in Nat /\ f[Any(s)] \in Nat
  BY <1>1, <1>2
<1>4. Sum(f, s) = IF s = {} THEN 0 ELSE Sum(f, s \ {Any(s)}) + f[Any(s)]
  BY <1>1, SumUnfolds
<1> QED
  BY <1>3, <1>4

(* Any element can be taken out first.                                     *)
LEMMA SumTakesOut ==
    ASSUME NEW f, NEW S, IsFiniteSet(S), \A x \in S : f[x] \in Nat, NEW e \in S
    PROVE  Sum(f, S) = Sum(f, S \ {e}) + f[e]
<1> DEFINE B == {s \in SUBSET S : \E x \in s : Sum(f, s) # Sum(f, s \ {x}) + f[x]}
<1> SUFFICES ASSUME B # {} PROVE FALSE
  BY DEF B
<1>1. PICK s \in B : IsFiniteSet(s) /\ \A x \in s : s \ {x} \notin B
  BY SmallestSet
<1>2. PICK x \in s : Sum(f, s) # Sum(f, s \ {x}) + f[x]
  OBVIOUS
<1> DEFINE y == Any(s)
<1>3. y \in s
  BY DEF Any
<1>4. Sum(f, s) = Sum(f, s \ {y}) + f[y]
  BY <1>1, <1>2, SumUnfolds
<1>5. x # y
  BY <1>2, <1>4
<1>6. Sum(f, s \ {y}) = Sum(f, (s \ {y}) \ {x}) + f[x]
  BY <1>1, <1>3, <1>5
<1>7. Sum(f, s \ {x}) = Sum(f, (s \ {x}) \ {y}) + f[y]
  BY <1>1, <1>3, <1>5
<1>8. (s \ {y}) \ {x} = (s \ {x}) \ {y}
  OBVIOUS
<1>9. Sum(f, (s \ {x}) \ {y}) \in Nat /\ f[x] \in Nat /\ f[y] \in Nat
  <2>1. IsFiniteSet((s \ {x}) \ {y})
    BY <1>1, FS_RemoveElement
  <2> QED
    BY <1>3, <2>1, SumType
<1> HIDE DEF y, B
<1> QED
  BY <1>2, <1>4, <1>6, <1>7, <1>8, <1>9

(* A sum is that over a part and that over the rest.                        *)
LEMMA SumSplits ==
    ASSUME NEW f, NEW S, IsFiniteSet(S), \A x \in S : f[x] \in Nat, NEW T \in SUBSET S
    PROVE  Sum(f, S) = Sum(f, T) + Sum(f, S \ T)
<1> DEFINE B == {s \in SUBSET T : Sum(f, (S \ T) \cup s) # Sum(f, s) + Sum(f, S \ T)}
<1> SUFFICES ASSUME B # {} PROVE FALSE
  <2>1. (S \ T) \cup T = S
    OBVIOUS
  <2> QED
    BY <2>1 DEF B
<1>0. IsFiniteSet(T) /\ IsFiniteSet(S \ T)
  BY FS_Subset
<1>1. PICK s \in B : IsFiniteSet(s) /\ \A x \in s : s \ {x} \notin B
  BY <1>0, SmallestSet
<1>2. Sum(f, S \ T) \in Nat
  BY <1>0, SumType
<1>3. CASE s = {}
  <2>1. (S \ T) \cup s = S \ T /\ Sum(f, s) = 0
    BY <1>3, FS_EmptySet, SumUnfolds
  <2> QED
    BY <1>2, <2>1
<1>4. ASSUME NEW x \in s PROVE FALSE
  <2> DEFINE u == (S \ T) \cup s
  <2>1. IsFiniteSet(u) /\ u \subseteq S /\ IsFiniteSet(s \ {x})
    BY <1>0, <1>1, FS_Subset
  <2>2. Sum(f, u) = Sum(f, u \ {x}) + f[x]
    BY <2>1, SumTakesOut
  <2>3. Sum(f, s) = Sum(f, s \ {x}) + f[x]
    BY <1>1, SumTakesOut
  <2>4. u \ {x} = (S \ T) \cup (s \ {x})
    OBVIOUS
  <2>5. Sum(f, u \ {x}) = Sum(f, s \ {x}) + Sum(f, S \ T)
    BY <1>1, <2>4
  <2>6. Sum(f, s \ {x}) \in Nat /\ f[x] \in Nat
    BY <2>1, SumType
  <2>7. Sum(f, u) # Sum(f, s) + Sum(f, S \ T)
    OBVIOUS
  <2> HIDE DEF u, B
  <2> QED
    BY <1>2, <2>2, <2>3, <2>5, <2>6, <2>7
<1> QED
  BY <1>3, <1>4

(* A sum of lesser numbers is less, or the same.                            *)
LEMMA SumGrows ==
    ASSUME NEW f, NEW g, NEW S, IsFiniteSet(S),
           \A x \in S : f[x] \in Nat /\ g[x] \in Nat /\ f[x] <= g[x]
    PROVE  Sum(f, S) <= Sum(g, S)
<1> DEFINE B == {s \in SUBSET S : ~(Sum(f, s) <= Sum(g, s))}
<1> SUFFICES ASSUME B # {} PROVE FALSE
  BY DEF B
<1>1. PICK s \in B : IsFiniteSet(s) /\ \A x \in s : s \ {x} \notin B
  BY SmallestSet
<1>2. CASE s = {}
  <2>1. Sum(f, s) = 0 /\ Sum(g, s) = 0
    BY <1>1, <1>2, SumUnfolds
  <2> QED
    BY <2>1
<1>3. ASSUME NEW x \in s PROVE FALSE
  <2>1. Sum(f, s) = Sum(f, s \ {x}) + f[x] /\ Sum(g, s) = Sum(g, s \ {x}) + g[x]
    BY <1>1, SumTakesOut
  <2>2. IsFiniteSet(s \ {x})
    BY <1>1, FS_RemoveElement
  <2>3. /\ Sum(f, s \ {x}) \in Nat /\ Sum(g, s \ {x}) \in Nat
        /\ f[x] \in Nat /\ g[x] \in Nat /\ f[x] <= g[x]
    BY <2>2, SumType
  <2>4. Sum(f, s \ {x}) <= Sum(g, s \ {x})
    BY <1>1
  <2>5. ~(Sum(f, s) <= Sum(g, s))
    OBVIOUS
  <2> HIDE DEF B
  <2> QED
    BY <2>1, <2>3, <2>4, <2>5
<1> QED
  BY <1>2, <1>3

-----------------------------------------------------------------------------
(* The operations that the dashboard counts.                               *)

(* Total is the sum over all workers of a table.                            *)
LEMMA TotalIsSum == ASSUME NEW f PROVE Total(f) = Sum(f, DOMAIN f)
  BY Zenon DEF Total, FoldSet, MapThenFoldSet, Sum, Unfolds, Any

(* The types of the rest.                                                  *)
OpsTypes ==
    /\ faults \in Nat /\ workers \subseteq Workers
    /\ meta \in [Workers -> Nat \cup {NoMeta}] /\ done \in [Workers -> Nat]
    /\ opc \in {"idle", "read"} /\ ids \subseteq Workers
    /\ DOMAIN table \subseteq Workers /\ table \in [DOMAIN table -> Nat]
    /\ DOMAIN got \subseteq Workers /\ got \in [DOMAIN got -> Nat]
    /\ total_processed \in Nat /\ refreshes \in Nat /\ counted \in Nat /\ dropped \in Nat

(* What is stored of a worker is what it did; what was read is no more than *)
(* that, and what a refresh reads is no less than what the table shows.     *)
Read(w) ==
    /\ meta[w] # NoMeta => meta[w] <= done[w]
    /\ pc[w] = "new" => meta[w] = NoMeta /\ w \notin DOMAIN table \cup DOMAIN got
    /\ w \in DOMAIN table =>
          /\ table[w] <= done[w]
          /\ meta[w] # NoMeta => table[w] <= meta[w]
          /\ w \in DOMAIN got => table[w] <= got[w]
    /\ w \in DOMAIN got =>
          /\ got[w] <= done[w]
          /\ meta[w] # NoMeta => got[w] <= meta[w]

(* What was shown, summed up, is what the table shows, and at most what     *)
(* dropped out more.                                                       *)
Books ==
    /\ total_processed = Total(table)
    /\ Total(table) <= counted
    /\ counted <= Total(table) + dropped

OpsInv ==
    /\ OpsTypes
    /\ \A w \in Workers : Read(w)
    /\ Books

(* The total of a table is a natural number.                                *)
LEMMA TotalType ==
    ASSUME NEW f, DOMAIN f \subseteq Workers, f \in [DOMAIN f -> Nat]
    PROVE  Total(f) \in Nat /\ IsFiniteSet(DOMAIN f) /\ \A w \in DOMAIN f : f[w] \in Nat
<1>1. IsFiniteSet(DOMAIN f)
  BY PresenceAssumption, FS_Subset
<1>2. \A w \in DOMAIN f : f[w] \in Nat
  OBVIOUS
<1> QED
  BY <1>1, <1>2, TotalIsSum, SumType

(* A table whose workers have all caught up in another one, but for those   *)
(* that are not there.                                                     *)
LEMMA TotalOfNext ==
    ASSUME NEW f, DOMAIN f \subseteq Workers, f \in [DOMAIN f -> Nat],
           NEW g, DOMAIN g \subseteq Workers, g \in [DOMAIN g -> Nat],
           \A w \in DOMAIN f \cap DOMAIN g : f[w] <= g[w]
    PROVE  /\ Total(f) <= Total(g) + Total([w \in DOMAIN f \ DOMAIN g |-> f[w]])
           /\ Total([w \in DOMAIN f \ DOMAIN g |-> f[w]]) \in Nat
<1> DEFINE F == DOMAIN f
           G == DOMAIN g
           r == [w \in F \ G |-> f[w]]
<1>1. IsFiniteSet(F) /\ IsFiniteSet(G) /\ IsFiniteSet(F \cap G) /\ IsFiniteSet(F \ G) /\ IsFiniteSet(G \ F)
  BY PresenceAssumption, FS_Subset
<1>2. (\A w \in F : f[w] \in Nat) /\ (\A w \in G : g[w] \in Nat)
  OBVIOUS
<1>3. Total(f) = Sum(f, F) /\ Total(g) = Sum(g, G) /\ Total(r) = Sum(r, F \ G)
  BY TotalIsSum
<1>4. Sum(r, F \ G) = Sum(f, F \ G)
  <2>1. \A w \in F \ G : r[w] = f[w]
    OBVIOUS
  <2> HIDE DEF r
  <2> QED
    BY <1>1, <2>1, SumAgrees
<1>5. Sum(f, F) = Sum(f, F \cap G) + Sum(f, F \ G)
  <2>1. F \cap G \in SUBSET F /\ F \ (F \cap G) = F \ G
    OBVIOUS
  <2> QED
    BY <1>1, <1>2, <2>1, SumSplits
<1>6. Sum(g, G) = Sum(g, F \cap G) + Sum(g, G \ F)
  <2>1. F \cap G \in SUBSET G /\ G \ (F \cap G) = G \ F
    OBVIOUS
  <2> QED
    BY <1>1, <1>2, <2>1, SumSplits
<1>7. Sum(f, F \cap G) <= Sum(g, F \cap G)
  BY <1>1, <1>2, SumGrows
<1>8. /\ Sum(f, F \cap G) \in Nat /\ Sum(f, F \ G) \in Nat
      /\ Sum(g, F \cap G) \in Nat /\ Sum(g, G \ F) \in Nat
  BY <1>1, <1>2, SumType
<1>9. Total(f) <= Total(g) + Sum(f, F \ G)
  BY <1>3, <1>5, <1>6, <1>7, <1>8
<1> QED
  BY <1>3, <1>4, <1>8, <1>9

(* What the workers did is at least what a table shows of them.             *)
LEMMA TotalOfAll ==
    ASSUME OpsTypes, \A w \in Workers : Read(w)
    PROVE  Total(table) <= Total(done)
<1> DEFINE F == DOMAIN table
<1>1. IsFiniteSet(Workers) /\ IsFiniteSet(F) /\ IsFiniteSet(Workers \ F) /\ F \in SUBSET Workers
  BY PresenceAssumption, FS_Subset DEF OpsTypes
<1>2. (\A w \in Workers : done[w] \in Nat) /\ DOMAIN done = Workers
  BY DEF OpsTypes
<1>3. \A w \in F : table[w] \in Nat /\ done[w] \in Nat /\ table[w] <= done[w]
  BY <1>1, <1>2 DEF Read, OpsTypes
<1>4. Total(table) = Sum(table, F) /\ Total(done) = Sum(done, Workers)
  BY <1>2, TotalIsSum
<1>5. Sum(table, F) <= Sum(done, F)
  BY <1>1, <1>3, SumGrows
<1>6. Sum(done, Workers) = Sum(done, F) + Sum(done, Workers \ F)
  BY <1>1, <1>2, SumSplits
<1>7. Sum(table, F) \in Nat /\ Sum(done, F) \in Nat /\ Sum(done, Workers \ F) \in Nat
  BY <1>1, <1>2, <1>3, SumType
<1> HIDE DEF F
<1> QED
  BY <1>4, <1>5, <1>6, <1>7

(* Nothing is read, shown or done at first.                                 *)
LEMMA OpsInit == Init => OpsInv
<1> SUFFICES ASSUME Init PROVE OpsInv
  OBVIOUS
<1>1. DOMAIN Nobody = {} /\ Total(Nobody) = 0
  <2>1. DOMAIN Nobody = {}
    BY DEF Nobody
  <2> QED
    BY <2>1, TotalIsSum, SumUnfolds, FS_EmptySet
<1>2. OpsTypes
  BY <1>1 DEF Init, OpsTypes
<1> QED
  BY <1>1, <1>2, PresenceAssumption DEF Init, OpsInv, Read, Books


(* Every step keeps the types.                                              *)
LEMMA OpsTypesStep ==
    ASSUME PresenceInv, OpsTypes, [Next]_vars
    PROVE  OpsTypes'
<1>0. horizon \in Horizons
  BY DEF PresenceInv, BeatTypes
<1> DEFINE Rest == UNCHANGED <<table, total_processed, counted, dropped>>
<1>1. ASSUME NEW c \in horizon.configs, Build(c) PROVE OpsTypes'
  BY <1>1 DEF Build, OpsTypes, redisVars, histVars, dashVars
<1>2. ASSUME NEW w \in Workers, WorkerStep(w) \/ StopWorker(w) PROVE OpsTypes'
  <2>1. UNCHANGED dashVars
    BY <1>2 DEF WorkerStep, Register, SetBeat, ExpireBeat, BeatFails, Succeed, Panics, Unregister, End, StopWorker
  <2>2. faults' \in Nat
    BY <1>2 DEF WorkerStep, Register, SetBeat, ExpireBeat, BeatFails, Succeed, Panics, Unregister, End, StopWorker,
       Fault, OpsTypes
  <2>3. workers' \subseteq Workers
    BY <1>2 DEF WorkerStep, Register, SetBeat, ExpireBeat, BeatFails, Succeed, Panics, Unregister, End, StopWorker,
       redisVars, OpsTypes
  <2>4. meta' \in [Workers -> Nat \cup {NoMeta}] /\ done' \in [Workers -> Nat]
    BY <1>2 DEF WorkerStep, Register, SetBeat, ExpireBeat, BeatFails, Succeed, Panics, Unregister, End, StopWorker,
       redisVars, histVars, OpsTypes
  <2> QED
    BY <2>1, <2>2, <2>3, <2>4 DEF OpsTypes, dashVars
<1>3. ASSUME NEW w \in Workers, GetWorker(w) PROVE OpsTypes'
  <2>1. DOMAIN got' \subseteq Workers /\ got' \in [DOMAIN got' -> Nat]
    <3>1. CASE UNCHANGED got
      BY <3>1 DEF OpsTypes
    <3>2. CASE meta[w] # NoMeta /\ got' = [v \in DOMAIN got \cup {w} |-> IF v = w THEN meta[w] ELSE got[v]]
      BY <3>2 DEF OpsTypes
    <3> QED
      BY <1>3, <3>1, <3>2 DEF GetWorker
  <2> QED
    BY <1>3, <2>1 DEF GetWorker, Fault, OpsTypes, redisVars, histVars
<1>4. CASE EndRefresh
  <2> DEFINE r == [w \in DOMAIN table \ DOMAIN got |-> table[w]]
  <2>1. Total(got) \in Nat /\ Total(r) \in Nat
    <3>1. DOMAIN r \subseteq Workers /\ r \in [DOMAIN r -> Nat]
      BY DEF OpsTypes
    <3> QED
      BY <3>1, TotalType DEF OpsTypes
  <2>2. counted' \in Nat /\ dropped' \in Nat /\ total_processed' \in Nat
    BY <1>4, <2>1 DEF EndRefresh, Minus, OpsTypes
  <2>3. DOMAIN Nobody = {} /\ Nobody \in [DOMAIN Nobody -> Nat]
    BY DEF Nobody
  <2> QED
    BY <1>4, <2>2, <2>3 DEF EndRefresh, OpsTypes, redisVars, histVars
<1>5. CASE ListWorkers
  <2>1. DOMAIN Nobody = {} /\ Nobody \in [DOMAIN Nobody -> Nat]
    BY DEF Nobody
  <2> QED
    BY <1>5, <2>1 DEF ListWorkers, OpsTypes, redisVars, histVars
<1>6. CASE ListFails
  BY <1>6 DEF ListFails, Fault, OpsTypes, redisVars, histVars
<1>7. CASE Shutdown \/ Tick \/ UNCHANGED vars
  BY <1>7 DEF Shutdown, Tick, vars, OpsTypes, redisVars, histVars, dashVars
<1> QED
  BY <1>1, <1>2, <1>3, <1>4, <1>5, <1>6, <1>7 DEF Next

(* What the bookkeeping of a worker depends on.                             *)
LEMMA ReadStays ==
    ASSUME NEW w \in Workers, Read(w), meta'[w] = meta[w], done'[w] = done[w], pc[w] # "new" => pc'[w] # "new",
           UNCHANGED <<table, got>>
    PROVE  Read(w)'
  BY DEF Read

(* No step of a worker takes back what was counted.                         *)
LEMMA WorkerReads ==
    ASSUME PresenceInv, OpsTypes, NEW v \in Workers, Read(v),
           NEW w \in Workers, WorkerStep(w) \/ StopWorker(w)
    PROVE  Read(v)'
<1>0. pc \in [Workers -> {"new", "registering", "live", "panicked", "leaving", "ended"}]
  BY DEF PresenceInv, BeatTypes
<1>1. UNCHANGED <<table, got>>
  BY DEF WorkerStep, Register, SetBeat, ExpireBeat, BeatFails, Succeed, Panics, Unregister, End, StopWorker, dashVars
<1>2. pc[v] # "new" => pc'[v] # "new"
  BY <1>0 DEF WorkerStep, Register, SetBeat, ExpireBeat, BeatFails, Succeed, Panics, Unregister, End, StopWorker,
     workerVars
<1>3. CASE Register(w) /\ v = w
  <2>1. meta'[w] = 0 /\ done' = done /\ pc[w] = "new" /\ pc'[w] = "registering"
    BY <1>0, <1>3 DEF Register, histVars, OpsTypes
  <2> QED
    BY <1>1, <1>3, <2>1 DEF Read, OpsTypes
<1>4. CASE Succeed(w) /\ v = w
  <2>1. /\ meta[w] \in Nat /\ done[w] \in Nat /\ meta'[w] = meta[w] + 1 /\ done'[w] = done[w] + 1
        /\ meta[w] # NoMeta /\ pc' = pc
    BY <1>4 DEF Succeed, OpsTypes, workerVars
  <2>2. (v \in DOMAIN table => table[v] \in Nat) /\ (v \in DOMAIN got => got[v] \in Nat)
    BY DEF OpsTypes
  <2> QED
    BY <1>1, <1>4, <2>1, <2>2, PresenceAssumption DEF Read
<1>5. CASE Unregister(w) /\ v = w
  <2>1. meta'[w] = NoMeta /\ done' = done
    BY <1>5 DEF Unregister, OpsTypes, histVars
  <2> QED
    BY <1>1, <1>2, <1>5, <2>1 DEF Read
<1>6. CASE v # w \/ ~(Register(w) \/ Succeed(w) \/ Unregister(w))
  <2>1. meta'[v] = meta[v] /\ done'[v] = done[v]
    BY <1>6 DEF WorkerStep, Register, SetBeat, ExpireBeat, BeatFails, Succeed, Panics, Unregister, End, StopWorker,
       redisVars, histVars, OpsTypes
  <2> QED
    BY <1>1, <1>2, <2>1, ReadStays
<1> QED
  BY <1>3, <1>4, <1>5, <1>6

(* The end of a refresh: the table is replaced by what was read.            *)
LEMMA EndRefreshBooks ==
    ASSUME OpsInv, EndRefresh
    PROVE  Books' /\ \A w \in Workers : Read(w)'
<1>0. OpsTypes /\ Books /\ \A w \in Workers : Read(w)
  BY DEF OpsInv
<1> DEFINE r == [w \in DOMAIN table \ DOMAIN got |-> table[w]]
<1>1. /\ Total(table) \in Nat /\ Total(got) \in Nat /\ Total(r) \in Nat
      /\ Total(table) <= Total(got) + Total(r)
  <2>1. Total(table) \in Nat /\ Total(got) \in Nat
    BY <1>0, TotalType DEF OpsTypes
  <2>2. \A w \in DOMAIN table \cap DOMAIN got : table[w] <= got[w]
    BY <1>0 DEF OpsTypes, Read
  <2> QED
    BY <1>0, <2>1, <2>2, TotalOfNext DEF OpsTypes
<1>2. /\ table' = got /\ total_processed' = Total(got)
      /\ counted' = counted + Minus(Total(got), Total(table))
      /\ dropped' = dropped + Total(r)
      /\ got' = Nobody /\ UNCHANGED <<meta, done, pc>>
  BY <1>0 DEF EndRefresh, Books, redisVars, histVars, workerVars
<1>3. counted \in Nat /\ dropped \in Nat /\ Total(table) <= counted /\ counted <= Total(table) + dropped
  BY <1>0 DEF Books, OpsTypes
<1>4. Total(table)' = Total(got)
  BY <1>2
<1> HIDE DEF r
<1>5. Books'
  BY <1>1, <1>2, <1>3, <1>4 DEF Books, Minus
<1>6. DOMAIN Nobody = {}
  BY DEF Nobody
<1> QED
  BY <1>0, <1>2, <1>5, <1>6 DEF Read

(* Every step keeps the books.                                              *)
LEMMA OpsStep ==
    ASSUME PresenceInv, OpsInv, [Next]_vars
    PROVE  OpsInv'
<1>0. OpsTypes /\ Books /\ \A w \in Workers : Read(w)
  BY DEF OpsInv
<1>1. OpsTypes'
  BY <1>0, OpsTypesStep
<1>2. ASSUME UNCHANGED <<table, total_processed, counted, dropped>> PROVE Books'
  BY <1>0, <1>2 DEF Books
<1>3. ASSUME NEW w \in Workers, WorkerStep(w) \/ StopWorker(w) PROVE OpsInv'
  <2>1. UNCHANGED <<table, total_processed, counted, dropped>>
    BY <1>3 DEF WorkerStep, Register, SetBeat, ExpireBeat, BeatFails, Succeed, Panics, Unregister, End, StopWorker,
       dashVars
  <2> QED
    BY <1>0, <1>1, <1>2, <1>3, <2>1, WorkerReads DEF OpsInv
<1>4. ASSUME NEW w \in Workers, GetWorker(w) PROVE OpsInv'
  <2>1. UNCHANGED <<table, total_processed, counted, dropped, meta, done, pc>>
    BY <1>4 DEF GetWorker, redisVars, histVars, workerVars
  <2>2. ASSUME NEW v \in Workers PROVE Read(v)'
    <3>1. CASE UNCHANGED got
      BY <1>0, <2>1, <3>1, ReadStays
    <3>2. CASE meta[w] # NoMeta /\ got' = [u \in DOMAIN got \cup {w} |-> IF u = w THEN meta[w] ELSE got[u]]
      <4>1. pc[w] # "new"
        BY <1>0, <3>2 DEF Read
      <4> QED
        BY <1>0, <2>1, <3>2, <4>1 DEF Read, OpsTypes
    <3> QED
      BY <1>4, <3>1, <3>2 DEF GetWorker
  <2> QED
    BY <1>1, <1>2, <2>1, <2>2 DEF OpsInv
<1>5. CASE EndRefresh
  BY <1>1, <1>5, EndRefreshBooks DEF OpsInv
<1>6. CASE ListWorkers
  <2>1. /\ UNCHANGED <<table, total_processed, counted, dropped, meta, done, pc>>
        /\ got' = Nobody /\ DOMAIN Nobody = {}
    BY <1>6 DEF ListWorkers, redisVars, histVars, workerVars, Nobody
  <2> QED
    BY <1>0, <1>1, <1>2, <2>1 DEF OpsInv, Read
<1>7. ASSUME (\E c \in horizon.configs : Build(c)) \/ ListFails \/ Shutdown \/ Tick \/ UNCHANGED vars
      PROVE  OpsInv'
  <2>1. UNCHANGED <<table, got, total_processed, counted, dropped, meta, done, pc>>
    BY <1>7 DEF Build, ListFails, Shutdown, Tick, vars, redisVars, histVars, workerVars, dashVars
  <2> QED
    BY <1>0, <1>1, <1>2, <2>1, ReadStays DEF OpsInv
<1> QED
  BY <1>3, <1>4, <1>5, <1>6, <1>7 DEF Next

(* Summed up over its refreshes, the dashboard counts every task of the     *)
(* workers it shows, and none twice but of those that were missing from its *)
(* table for a while, whatever fails.                                      *)
THEOREM OpsAreHonest == Spec => []OpsHonest
<1>1. Init => PresenceInv /\ OpsInv
  BY TypesInit, WorkersInit, OpsInit DEF PresenceInv
<1>2. PresenceInv /\ OpsInv /\ [Next]_vars => (PresenceInv /\ OpsInv)'
  BY PresenceStep, OpsStep
<1>3. OpsInv => OpsHonest
  <2> SUFFICES ASSUME OpsInv PROVE OpsHonest
    OBVIOUS
  <2>1. DOMAIN done = Workers /\ done \in [DOMAIN done -> Nat]
    BY DEF OpsInv, OpsTypes
  <2>2. Total(done) \in Nat
    BY <2>1, TotalType
  <2>3. Total(table) \in Nat /\ counted \in Nat /\ dropped \in Nat
    BY TotalType DEF OpsInv, OpsTypes
  <2>4. Total(table) <= Total(done)
    BY TotalOfAll DEF OpsInv
  <2> QED
    BY <2>2, <2>3, <2>4 DEF OpsInv, Books, OpsHonest
<1> QED
  BY <1>1, <1>2, <1>3, PTL DEF Spec

(* Every variable keeps its type, the table and the totals of the dashboard *)
(* included.                                                               *)
THEOREM PresenceTypes == Spec => []TypeOK
<1>1. Init => PresenceInv /\ OpsInv
  BY TypesInit, WorkersInit, OpsInit DEF PresenceInv
<1>2. PresenceInv /\ OpsInv /\ [Next]_vars => (PresenceInv /\ OpsInv)'
  BY PresenceStep, OpsStep
<1>3. PresenceInv /\ OpsInv => TypeOK
  BY DEF PresenceInv, OpsInv, BeatTypes, OpsTypes, TypeOK
<1> QED
  BY <1>1, <1>2, <1>3, PTL DEF Spec
=============================================================================
