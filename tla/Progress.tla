------------------------------ MODULE Progress ------------------------------
(***************************************************************************)
(* Progress reports of handlers.  process_task makes a ProgressContext for  *)
(* an attempt, leaves it in a thread local for task.progress(), and reports *)
(* 0 before and 100 after the handler.  A tokio task may go on on another   *)
(* thread after every await: an action is what a task does between two      *)
(* awaits, on any thread.  A report sends HSET and EXPIRE, one by one.      *)
(*                                                                         *)
(* A handler may use task.progress() and its HandlerContext, and may give a *)
(* clone of the reporter to a task it spawns.  Messages and timestamps are  *)
(* left out, and so is current_value, from which increment counts; 100 is   *)
(* the constant Full.  What acknowledging does is in TaskQueue.             *)
(***************************************************************************)
EXTENDS Integers

CONSTANTS
    Tasks, Workers, Threads,
    Spawners,           \* workers with handlers that spawn a task that reports
    Full,               \* a finished task: 100
    MaxTries,           \* attempts a task has
    MaxFaults,          \* bound: commands that fail, crashes, hashes that go
    NoTask, NoWorker, NoHash

ASSUME ProgressAssumption ==
    /\ Spawners \subseteq Workers
    /\ Full \in Nat \ {0} /\ MaxTries \in [Tasks -> Nat \ {0}]
    /\ MaxFaults \in Nat
    /\ NoTask \notin Tasks /\ NoWorker \notin Workers

Values == 0 .. Full

(* Who reports: the worker itself, and what its handler spawned.            *)
Reporters == (Workers \X {"own"}) \cup (Spawners \X {"spawned"})

VARIABLES
    \* a task: whether a worker may take it, and the attempts begun
    life, tries,
    \* a worker: where it is, its task, how the handler ended, the reporter that
    \* the handler holds; the lock around the handlers
    pc, task, ok, handle, mux,
    \* PROGRESS_CONTEXT of each thread.  A context is known by its task: that is
    \* what task.progress() compares and where reports go
    local,
    \* the reports that are under way
    report,
    \* Redis: rediq:progress:{t}
    hash,
    faults,
    \* history: tasks for which something spawned reported, and those with a
    \* report that stopped before its end in their latest attempt
    cloned, cut

taskVars == <<life, tries>>
workerVars == <<pc, task, ok, handle, mux>>
historyVars == <<cloned, cut>>
vars == <<taskVars, workerVars, local, report, hash, faults, historyVars>>

NoReport == [at |-> "none", ctx |-> NoTask, v |-> 0]
Idle(r) == report[r].at = "none"

Init ==
    /\ life = [t \in Tasks |-> "ready"] /\ tries = [t \in Tasks |-> 0]
    /\ pc = [w \in Workers |-> "idle"] /\ task = [w \in Workers |-> NoTask]
    /\ ok = [w \in Workers |-> FALSE] /\ handle = [w \in Workers |-> NoTask]
    /\ mux = NoWorker
    /\ local = [th \in Threads |-> NoTask]
    /\ report = [r \in Reporters |-> NoReport]
    /\ hash = [t \in Tasks |-> NoHash]
    /\ faults = 0 /\ cloned = {} /\ cut = {}

-----------------------------------------------------------------------------
(* report_with_message.                                                    *)

(* Mutant: the range of the value is not checked.                          *)
StartReportAny(r, c, v) ==
    /\ Idle(r)
    /\ report' = [report EXCEPT ![r] = [at |-> "hset", ctx |-> c, v |-> v]]

(* A value too large is refused, and one below 100 is skipped if it comes   *)
(* within throttle_ms of the last report: then the call changes nothing.    *)
(* How much time passed is any; last_update is taken under a lock that is   *)
(* released before HSET.                                                   *)
StartReport(r, c, v) ==
    /\ Idle(r)
    /\ v <= Full
    /\ report' = [report EXCEPT ![r] = [at |-> "hset", ctx |-> c, v |-> v]]

Done(r) == report' = [report EXCEPT ![r] = NoReport]

(* Mutant: only the first report of a handler sets the TTL.                 *)
SetCurrentOnly(r) ==
    LET t == report[r].ctx
    IN  /\ report[r].at = "hset"
        /\ hash' = [hash EXCEPT ![t] =
                      [current |-> report[r].v, ttl |-> @ # NoHash /\ @.ttl]]
        /\ report' = [report EXCEPT ![r] =
                        IF report[r].v = 0 THEN [@ EXCEPT !.at = "expire"] ELSE NoReport]
        /\ UNCHANGED <<taskVars, workerVars, local, historyVars, faults>>

(* HSET keeps the TTL of a hash that is there.                              *)
SetCurrent(r) ==
    LET t == report[r].ctx
    IN  /\ report[r].at = "hset"
        /\ hash' = [hash EXCEPT ![t] =
                      [current |-> report[r].v, ttl |-> @ # NoHash /\ @.ttl]]
        /\ report' = [report EXCEPT ![r].at = "expire"]
        /\ UNCHANGED <<taskVars, workerVars, local, historyVars, faults>>

SetTtl(r) ==
    LET t == report[r].ctx
    IN  /\ report[r].at = "expire"
        /\ hash' = [hash EXCEPT ![t] = IF @ = NoHash THEN NoHash ELSE [@ EXCEPT !.ttl = TRUE]]
        /\ Done(r)
        /\ UNCHANGED <<taskVars, workerVars, local, historyVars, faults>>

(* What stops a report stops it before HSET, or leaves the rest undone.     *)
Cuts(R) == cut' = cut \cup {report[r].ctx : r \in {q \in R : ~Idle(q)}}

Fault == faults < MaxFaults /\ faults' = faults + 1

CommandFails(r) ==
    /\ Fault
    /\ report[r].at \in {"hset", "expire"}
    /\ Cuts({r})
    /\ Done(r)
    /\ UNCHANGED <<taskVars, workerVars, local, hash, cloned>>

(* The TTL runs out, or cancel_task deletes the hash.                       *)
HashGoes(t) ==
    /\ Fault
    /\ hash[t] # NoHash
    /\ hash' = [hash EXCEPT ![t] = NoHash]
    /\ UNCHANGED <<taskVars, workerVars, local, report, historyVars>>

-----------------------------------------------------------------------------
(* process_task.                                                           *)

GoTo(w, next) == pc' = [pc EXCEPT ![w] = next]

(* A new context has an old last_update: its first report is not skipped.   *)
Begin(w, t, th) ==
    /\ pc[w] = "idle" /\ Idle(<<w, "own">>)
    /\ life[t] = "ready" /\ tries[t] < MaxTries[t]
    /\ life' = [life EXCEPT ![t] = "active"]
    /\ tries' = [tries EXCEPT ![t] = @ + 1]
    /\ task' = [task EXCEPT ![w] = t]
    /\ GoTo(w, "before")
    /\ local' = [local EXCEPT ![th] = t]
    /\ StartReport(<<w, "own">>, t, 0)
    /\ cut' = cut \ {t}
    /\ UNCHANGED <<ok, handle, mux, hash, cloned, faults>>

(* The task of the worker is over, or may be taken again.                   *)
Leave(w, next) ==
    /\ GoTo(w, "idle")
    /\ life' = [life EXCEPT ![task[w]] = next]
    /\ task' = [task EXCEPT ![w] = NoTask]
    /\ ok' = [ok EXCEPT ![w] = FALSE]
    /\ UNCHANGED <<tries, handle, mux, local, report, hash, historyVars, faults>>

(* An error of a before hook returns at once: the thread local stays.       *)
BeforeFails(w) ==
    /\ pc[w] = "before" /\ Idle(<<w, "own">>)
    /\ Leave(w, "lost")

StartHandler(w) ==
    /\ pc[w] = "before" /\ Idle(<<w, "own">>)
    /\ mux = NoWorker
    /\ mux' = w
    /\ GoTo(w, "handler")
    /\ UNCHANGED <<taskVars, task, ok, handle, local, report, hash, historyVars, faults>>

InHandler(w) == pc[w] = "handler" /\ Idle(<<w, "own">>)

(* Mutant: the task id is not compared.                                    *)
progress_of_thread(t, th) == local[th]

(* task.progress(): what is in the thread local, if it is of this task.     *)
progress(t, th) == IF local[th] = t THEN t ELSE NoTask

AskTask(w, th) ==
    /\ InHandler(w)
    /\ handle' = [handle EXCEPT ![w] = progress(task[w], th)]
    /\ UNCHANGED <<taskVars, pc, task, ok, mux, local, report, hash, historyVars, faults>>

(* A ProgressGuard clears the thread local of the thread it is dropped on.  *)
DropGuard(w, th) ==
    /\ InHandler(w) /\ handle[w] # NoTask
    /\ local' = [local EXCEPT ![th] = NoTask]
    /\ UNCHANGED <<taskVars, workerVars, report, hash, historyVars, faults>>

(* HandlerContext::progress.                                                *)
AskContext(w) ==
    /\ InHandler(w)
    /\ handle' = [handle EXCEPT ![w] = task[w]]
    /\ UNCHANGED <<taskVars, pc, task, ok, mux, local, report, hash, historyVars, faults>>

(* report of any value, and increment, which caps its sum at 100.           *)
Reports(r, c) ==
    /\ c # NoTask
    /\ \E v \in 0 .. Full + 1 : StartReport(r, c, v)
    /\ UNCHANGED <<taskVars, workerVars, local, hash, faults>>

HandlerReports(w) ==
    /\ InHandler(w)
    /\ Reports(<<w, "own">>, handle[w])
    /\ UNCHANGED historyVars

(* The handler spawns a task that reports through a clone of its context    *)
(* and may outlive the handler.  A report that the clone starts later is     *)
(* here one that starts now and whose HSET comes that late.                  *)
SpawnedReports(w) ==
    /\ InHandler(w)
    /\ Reports(<<w, "spawned">>, handle[w])
    /\ cloned' = cloned \cup {task[w]}
    /\ UNCHANGED cut

EndHandler(w, success) ==
    /\ GoTo(w, "after")
    /\ ok' = [ok EXCEPT ![w] = success]
    /\ handle' = [handle EXCEPT ![w] = NoTask]
    /\ mux' = NoWorker
    /\ UNCHANGED <<taskVars, task, local, hash, cloned, faults>>

HandlerReturns(w) ==
    /\ InHandler(w)
    /\ \E success \in BOOLEAN : EndHandler(w, success)
    /\ UNCHANGED <<report, cut, faults>>

(* The timeout drops the handler where it waits, in a report or not.        *)
HandlerTimesOut(w) ==
    /\ pc[w] = "handler"
    /\ EndHandler(w, FALSE)
    /\ Cuts({<<w, "own">>})
    /\ report' = [report EXCEPT ![<<w, "own">>] = NoReport]

(* Mutant: the last report may come too soon after the one before it.       *)
FinishThrottled(w, th) ==
    /\ pc[w] = "after"
    /\ local' = [local EXCEPT ![th] = NoTask]
    /\ \/ ok[w] /\ StartReport(<<w, "own">>, task[w], Full)
       \/ UNCHANGED report
    /\ GoTo(w, "ack")
    /\ UNCHANGED <<taskVars, task, ok, handle, mux, hash, historyVars, faults>>

(* After the after hooks: clear the thread local of the thread it runs on.  *)
(* A success reports 100, which is never skipped.                           *)
Finish(w, th) ==
    /\ pc[w] = "after"
    /\ local' = [local EXCEPT ![th] = NoTask]
    /\ IF ok[w] THEN StartReport(<<w, "own">>, task[w], Full) ELSE UNCHANGED report
    /\ GoTo(w, "ack")
    /\ UNCHANGED <<taskVars, task, ok, handle, mux, hash, historyVars, faults>>

(* The acknowledgement, and schedule_retry while there are attempts left.   *)
Ack(w) ==
    /\ pc[w] = "ack" /\ Idle(<<w, "own">>)
    /\ Leave(w, IF ok[w] THEN "done" ELSE IF tries[task[w]] < MaxTries[task[w]] THEN "ready" ELSE "dead")

(* The process ends; its workers take new tasks after a restart.            *)
Crash ==
    /\ Fault
    /\ (\E w \in Workers : pc[w] # "idle") \/ (\E r \in Reporters : ~Idle(r))
    /\ Cuts(Reporters)
    /\ life' = [t \in Tasks |-> IF life[t] = "active" THEN "lost" ELSE life[t]]
    /\ pc' = [w \in Workers |-> "idle"] /\ task' = [w \in Workers |-> NoTask]
    /\ ok' = [w \in Workers |-> FALSE] /\ handle' = [w \in Workers |-> NoTask]
    /\ mux' = NoWorker
    /\ local' = [th \in Threads |-> NoTask]
    /\ report' = [r \in Reporters |-> NoReport]
    /\ UNCHANGED <<tries, hash, cloned>>

-----------------------------------------------------------------------------
ReportStep(r) == SetCurrent(r) \/ SetTtl(r) \/ CommandFails(r)

Handler(w) ==
    \/ (\E th \in Threads : AskTask(w, th) \/ DropGuard(w, th)) \/ AskContext(w)
    \/ HandlerReports(w)
    \/ HandlerReturns(w) \/ HandlerTimesOut(w)

ProcessTask(w) ==
    \/ \E t \in Tasks, th \in Threads : Begin(w, t, th)
    \/ BeforeFails(w) \/ StartHandler(w) \/ Handler(w)
    \/ \E th \in Threads : Finish(w, th)
    \/ Ack(w)

Next ==
    \/ \E w \in Workers : ProcessTask(w)
    \/ \E w \in Spawners : SpawnedReports(w)
    \/ \E r \in Reporters : ReportStep(r)
    \/ \E t \in Tasks : HashGoes(t)
    \/ Crash

Spec == Init /\ [][Next]_vars

-----------------------------------------------------------------------------
Hashes == [current : Values, ttl : BOOLEAN] \cup {NoHash}

TypeOK ==
    /\ life \in [Tasks -> {"ready", "active", "done", "dead", "lost"}]
    /\ tries \in [Tasks -> Nat]
    /\ pc \in [Workers -> {"idle", "before", "handler", "after", "ack"}]
    /\ task \in [Workers -> Tasks \cup {NoTask}]
    /\ ok \in [Workers -> BOOLEAN]
    /\ handle \in [Workers -> Tasks \cup {NoTask}]
    /\ mux \in Workers \cup {NoWorker}
    /\ local \in [Threads -> Tasks \cup {NoTask}]
    /\ report \in [Reporters -> [at : {"none", "hset", "expire"},
                                 ctx : Tasks \cup {NoTask}, v : Values]]
    /\ hash \in [Tasks -> Hashes]
    /\ faults \in 0 .. MaxFaults
    /\ cloned \subseteq Tasks /\ cut \subseteq Tasks

(* A handler never reports for another task, although its thread may hold   *)
(* the context of any: those of tasks that were suspended on the thread,    *)
(* ended on another, or never reached the line that clears it.              *)
OwnReports ==
    /\ \A w \in Workers : handle[w] # NoTask => handle[w] = task[w]
    /\ \A w \in Workers :
          LET r == report[<<w, "own">>]
          IN  r.at # "none" => r.ctx = task[w]

(* What Inspector::get_task_progress answers: 0 without a readable `current`, *)
(* which SetCurrent never leaves, and nothing without a hash.  A hash holds  *)
(* the value of one report; HGETALL never sees two mixed.                  *)
get_task_progress(t) == IF hash[t] = NoHash THEN NoHash ELSE hash[t].current

(* A processed task reads 100, whatever was throttled and in what attempt it*)
(* succeeded, unless its hash is gone, a report of it stopped halfway, or a *)
(* spawned task may still report for it.                                    *)
DoneIsFull ==
    \A t \in Tasks :
        life[t] = "done" /\ t \notin cloned \cup cut => get_task_progress(t) \in {Full, NoHash}

(* A hash without TTL stays for ever.  There is one only for as long as the *)
(* report that made it is on its way, or because one stopped halfway.       *)
HashesExpire ==
    \A t \in Tasks :
        hash[t] # NoHash /\ ~hash[t].ttl =>
            \/ \E r \in Reporters : ~Idle(r) /\ report[r].ctx = t
            \/ t \in cut
=============================================================================
