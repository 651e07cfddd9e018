----------------------------- MODULE Dashboard -----------------------------
(***************************************************************************)
(* The dashboard of the command line (rediq dash) and the reads of the      *)
(* Inspector it is made of.  One loop draws, waits for a key, carries it    *)
(* out and, when it is time, refreshes: it lists the queues and reads the   *)
(* statistics of all of them at once, one Redis command after the other for *)
(* each, while clients, workers and schedulers move tasks.                 *)
(*                                                                         *)
(* What moves tasks is in TaskQueue; here a task is moved by one step, from *)
(* one container to where the code may put it next.  The priority queue is  *)
(* left out: queue_stats and flush_queue do not look at it.  So are the     *)
(* messages; the table of workers is in Presence.                          *)
(***************************************************************************)
EXTENDS Integers, FiniteSets, SequencesExt

CONSTANTS
    Queues, Tasks,
    QueueOf,            \* the queue of a task
    PageSize,           \* tasks a list shows: 20
    Settings,           \* dead_threshold (100), error_rate_threshold (20 %) and
                        \* max_points (60); and bounds: whether keys are pressed, the
                        \* queues in use, how many tasks move during one refresh, how
                        \* many of a queue are counted as completed
    NoQueue, NoList

Lists == [queue : Queues, n : 0 .. PageSize, task : 0 .. PageSize - 1]

ASSUME DashboardAssumption ==
    /\ IsFiniteSet(Queues) /\ IsFiniteSet(Tasks)
    /\ QueueOf \in [Tasks -> Queues]
    /\ PageSize \in Nat \ {0}
    /\ \A s \in Settings :
          /\ {s.dead_threshold, s.error_rate_threshold, s.max_points, s.moves, s.completed} \subseteq Nat
          /\ s.keys \in BOOLEAN /\ s.queues \subseteq Queues
    /\ NoQueue \notin Queues /\ NoList \notin Lists

VARIABLES
    settings,
    \* Redis: where a task is, the queues in rediq:meta:queues, `processed` in
    \* rediq:stats:{queue}
    place, listed, completed,
    \* where the loop is, and whether the refresh of run() is behind it
    pc, periodic,
    \* DashboardState: the view, the table of queues, the row, the task list
    view, queues, selected, list,
    \* a refresh: the queues found, and how far the statistics of each are
    found, read,
    \* DashboardState: the alerts that are up, the last max_points totals of dead
    \* tasks; and the alerts that the table asks for
    alerts, trend, verdict,
    \* history: the queue of the row on the screen, and the tasks that moved
    \* while the statistics are being read
    shown, moved,
    \* the queue that a key pauses, resumes or flushes
    target,
    \* history: of the completed tasks of a queue, those that the refresh sees for
    \* certain; and after it, the alerts that had to be up and that could be up
    floor, truth

redisVars == <<place, listed, completed>>
stateVars == <<view, queues, selected, list>>
refreshVars == <<found, read>>
alertVars == <<alerts, trend, verdict, truth>>
vars == <<settings, redisVars, pc, periodic, stateVars, refreshVars, alertVars, floor,
          shown, moved, target>>

(* Where queue_stats looks, in this order.                                 *)
Counted == <<"pending", "active", "delayed", "retry", "dead">>
Counts == Range(Counted)

NoRead == [at |-> 0, stats |-> [p \in Counts \cup {"completed"} |-> 0]]

TasksAt(q, p) == {t \in Tasks : QueueOf[t] = q /\ place[t] = p}

NoAlert == [dead |-> FALSE, error_rate |-> FALSE]
NoTruth == [must |-> NoAlert, may |-> NoAlert]
NoFloor == [q \in Queues |-> 0]

Init ==
    /\ settings \in Settings /\ periodic = FALSE
    /\ alerts = NoAlert /\ verdict = NoAlert /\ trend = <<>>
    /\ truth = NoTruth
    /\ completed = [q \in Queues |-> 0] /\ floor = NoFloor
    /\ place = [t \in Tasks |-> "none"] /\ listed = {}
    /\ pc = "list"
    /\ view = "Main" /\ queues = <<>> /\ selected = 1 /\ list = NoList
    /\ found = {} /\ read = [q \in Queues |-> NoRead]
    /\ shown = NoQueue /\ moved = {} /\ target = NoQueue

-----------------------------------------------------------------------------
(* Clients, workers and schedulers.                                        *)

(* Out of every container a task is not enqueued yet, in a worker's hand, or *)
(* over: "none".  What is written together is one move.                     *)
Moves ==
    {<<"none", p>> : p \in Counts} \cup {<<"pending", "none">>, <<"active", "none">>}
        \cup {<<p, "pending">> : p \in {"delayed", "retry", "dead"}}

(* A worker that is done with a task counts it; the count can fail.         *)
CountCompleted(t, m) ==
    \/ /\ m = <<"active", "none">> /\ completed[QueueOf[t]] < settings.completed
       /\ completed' = [completed EXCEPT ![QueueOf[t]] = @ + 1]
    \/ UNCHANGED completed

MoveTask(t) ==
    /\ \E m \in Moves :
          /\ place[t] = m[1]
          /\ place' = [place EXCEPT ![t] = m[2]]
          /\ CountCompleted(t, m)
    /\ moved' = IF pc = "stats" THEN moved \cup {t} ELSE moved
    /\ Cardinality(moved') <= settings.moves
    /\ UNCHANGED <<settings, listed, pc, periodic, stateVars, refreshVars, alertVars, floor, shown, target>>

(* An enqueue, or a worker that registers.                                  *)
ListQueue(q) ==
    /\ q \in settings.queues \ listed
    /\ listed' = listed \cup {q}
    /\ UNCHANGED <<settings, place, completed, pc, periodic, stateVars, refreshVars, alertVars,
                   floor, shown, moved, target>>

-----------------------------------------------------------------------------
(* refresh_data.                                                           *)

GoTo(next) == pc' = next

LastRead == Len(Counted) + 1
Finished == LastRead + 1
Failed == Finished + 1

(* SMEMBERS; in which order, matters only for the table, see EndRefresh.    *)
ListQueues ==
    /\ pc = "list"
    /\ found' = listed
    /\ read' = [q \in Queues |-> [NoRead EXCEPT !.at = IF q \in listed THEN 1 ELSE Failed]]
    /\ verdict' = NoAlert /\ truth' = NoTruth /\ floor' = completed
    /\ GoTo("stats")
    /\ UNCHANGED <<settings, redisVars, periodic, stateVars, alerts, trend, shown, moved, target>>

(* HistoryData::add_point; its five rings are filled alike.                 *)
AddPoint(ring, value) ==
    LET longer == Append(ring, value)
    IN  IF Len(longer) > settings.max_points THEN Tail(longer) ELSE longer

(* Mutant: the alerts that are up stay.                                     *)
UpdateAlertsLatched(asked) ==
    alerts' = IF periodic THEN [a \in DOMAIN alerts |-> alerts[a] \/ asked[a]] ELSE alerts

(* Only the periodic refresh is followed by check_and_update_alerts.        *)
UpdateAlerts(asked) == alerts' = IF periodic THEN asked ELSE alerts

(* If SMEMBERS fails the table stays as it is, and goes into the history    *)
(* again.                                                                  *)
ListFails ==
    /\ pc = "list"
    /\ trend' = IF queues # <<>> /\ trend # <<>> THEN AddPoint(trend, Last(trend)) ELSE trend
    /\ UpdateAlerts(verdict)
    /\ GoTo("draw")
    /\ UNCHANGED <<settings, redisVars, periodic, stateVars, refreshVars, verdict, truth, floor,
                   shown, moved, target>>

(* Mutant: the retry set is read under the wrong key.                     *)
ReadCountMixed(q) ==
    LET p == Counted[read[q].at]
        from == IF p = "retry" THEN "delayed" ELSE p
    IN  /\ pc = "stats" /\ read[q].at < LastRead
        /\ read' = [read EXCEPT ![q].at = @ + 1,
                                ![q].stats[p] = Cardinality(TasksAt(q, from))]
        /\ UNCHANGED <<settings, redisVars, pc, periodic, stateVars, found, alertVars, floor,
                       shown, moved, target>>

(* The next LLEN or ZRANGEBYSCORE of queue_stats.                           *)
ReadCount(q) ==
    LET p == Counted[read[q].at]
    IN  /\ pc = "stats" /\ read[q].at < LastRead
        /\ read' = [read EXCEPT ![q].at = @ + 1,
                                ![q].stats[p] = Cardinality(TasksAt(q, p))]
        /\ UNCHANGED <<settings, redisVars, pc, periodic, stateVars, found, alertVars, floor,
                       shown, moved, target>>

(* Last, HGET of the completed tasks; an error counts as none.              *)
ReadCompleted(q) ==
    /\ pc = "stats" /\ read[q].at = LastRead
    /\ \/ /\ read' = [read EXCEPT ![q].at = Finished, ![q].stats["completed"] = completed[q]]
          /\ UNCHANGED floor
       \/ /\ read' = [read EXCEPT ![q].at = Finished]
          /\ floor' = [floor EXCEPT ![q] = 0]
    /\ UNCHANGED <<settings, redisVars, pc, periodic, stateVars, found, alertVars, shown, moved, target>>

(* A queue that cannot be read is not in the new table.                     *)
ReadFails(q) ==
    /\ pc = "stats" /\ read[q].at < LastRead
    /\ read' = [read EXCEPT ![q] = [NoRead EXCEPT !.at = Failed]]
    /\ UNCHANGED <<settings, redisVars, pc, periodic, stateVars, found, alertVars, floor,
                   shown, moved, target>>

(* The queues that get a row.                                              *)
Answered == {q \in found : read[q].at = Finished}

(* The alerts that totals of dead, of dead and retried, and of completed     *)
(* tasks ask for: calculate_error_rate is in percent, and 0 without tasks.   *)
Alerts(dead, failures, done) ==
    [dead |-> dead > settings.dead_threshold,
     error_rate |-> 100 * failures > settings.error_rate_threshold * (failures + done)]

TotalRead(p) == MapThenSumSet(LAMBDA q : read[q].stats[p], Answered)

Asked == Alerts(TotalRead("dead"), TotalRead("dead") + TotalRead("retry"), TotalRead("completed"))

(* What the tables of this refresh may ask for, by the tasks themselves: at  *)
(* least for the tasks that stayed, at most for those that moved as well,    *)
(* which may have been counted twice, as retried and as dead.                *)
Truth ==
    LET Stayed(ps) == Cardinality({t \in Tasks \ moved : QueueOf[t] \in Answered /\ place[t] \in ps})
        movers == Cardinality({t \in moved : QueueOf[t] \in Answered})
        dead == Stayed({"dead"})
        failures == Stayed({"dead", "retry"})
    IN  [must |-> Alerts(dead, failures, MapThenSumSet(LAMBDA q : completed[q], Answered)),
         may  |-> Alerts(dead + movers, failures + 2 * movers,
                         MapThenSumSet(LAMBDA q : floor[q], Answered))]

(* Mutant: the row is not moved up.                                       *)
EndRefreshUnclamped ==
    /\ pc = "stats"
    /\ \A q \in Queues : read[q].at >= Finished
    /\ queues' \in SetToSeqs(Answered)
    /\ trend' = IF Answered = {} THEN trend ELSE AddPoint(trend, TotalRead("dead"))
    /\ verdict' = Asked /\ truth' = Truth
    /\ UpdateAlerts(Asked)
    /\ found' = {} /\ read' = [q \in Queues |-> NoRead]
    /\ moved' = {} /\ floor' = NoFloor
    /\ GoTo("draw")
    /\ UNCHANGED <<settings, redisVars, periodic, view, selected, list, shown, target>>

(* join_all is over: a row for each queue that answered, in the order of    *)
(* SMEMBERS, which is any.  The selected row is moved up if the table became *)
(* too short for it; an empty table leaves it, and no point in the history.  *)
EndRefresh ==
    LET rows == Cardinality(Answered)
    IN  /\ pc = "stats"
        /\ \A q \in Queues : read[q].at >= Finished
        /\ queues' \in SetToSeqs(Answered)
        /\ selected' = IF rows > 0 /\ selected > rows THEN rows ELSE selected
        /\ trend' = IF rows = 0 THEN trend ELSE AddPoint(trend, TotalRead("dead"))
        /\ verdict' = Asked /\ truth' = Truth
        /\ UpdateAlerts(Asked)
        /\ found' = {} /\ read' = [q \in Queues |-> NoRead]
        /\ moved' = {} /\ floor' = NoFloor
        /\ GoTo("draw")
        /\ UNCHANGED <<settings, redisVars, periodic, view, list, shown, target>>

-----------------------------------------------------------------------------
(* run_dashboard, handle_main_input.                                       *)

Row == queues[selected]

Draw ==
    /\ pc = "draw"
    /\ shown' = IF queues = <<>> THEN NoQueue ELSE Row
    /\ GoTo("keys")
    /\ UNCHANGED <<settings, redisVars, periodic, stateVars, refreshVars, alertVars, floor, moved, target>>

NoKey ==
    /\ pc = "keys"
    /\ GoTo("check")
    /\ UNCHANGED <<settings, redisVars, periodic, stateVars, refreshVars, alertVars, floor, shown, moved, target>>

(* Once refresh_duration is over, a refresh.                                *)
Check ==
    /\ pc = "check"
    /\ \/ GoTo("list") /\ periodic' = TRUE
       \/ GoTo("draw") /\ UNCHANGED periodic
    /\ shown' = NoQueue /\ target' = NoQueue
    /\ UNCHANGED <<settings, redisVars, stateVars, refreshVars, alertVars, floor, moved>>

Key(v) ==
    /\ pc = "keys" /\ view = v /\ settings.keys
    /\ GoTo("check")
    /\ UNCHANGED <<settings, listed, completed, periodic, queues, refreshVars, alertVars, floor,
                   shown, moved>>

Quit ==
    /\ pc = "keys" /\ view = "Main"
    /\ GoTo("over")
    /\ UNCHANGED <<settings, redisVars, periodic, stateVars, refreshVars, alertVars, floor, shown, moved, target>>

MoveRow ==
    /\ Key("Main")
    /\ \/ selected > 1 /\ selected' = selected - 1
       \/ selected < Len(queues) /\ selected' = selected + 1
    /\ UNCHANGED <<place, target, view, list>>

(* pause_queue or resume_queue of the queue in the row.  Nothing of the     *)
(* dashboard reads the flag they write.                                    *)
PauseOrResumeRow ==
    /\ Key("Main") /\ queues # <<>>
    /\ target' = Row
    /\ UNCHANGED <<place, view, selected, list>>

FlushRow ==
    /\ Key("Main") /\ queues # <<>>
    /\ target' = Row
    /\ place' = [t \in Tasks |-> IF t \in TasksAt(Row, "pending") THEN "none" ELSE place[t]]
    /\ UNCHANGED <<view, selected, list>>

ShowHelp ==
    /\ Key("Main")
    /\ view' = "Help"
    /\ UNCHANGED <<place, target, selected, list>>

HideHelp ==
    /\ Key("Help")
    /\ view' = "Main"
    /\ UNCHANGED <<place, target, selected, list>>

-----------------------------------------------------------------------------
(* The task list.                                                          *)

(* How many tasks list_tasks returns: of the ids it read, those whose task  *)
(* can still be read.                                                      *)
Found(q) == 0 .. Min({PageSize, Cardinality(TasksAt(q, "pending"))})

Loaded(l, n) == [l EXCEPT !.n = n, !.task = IF n > 0 /\ @ >= n THEN n - 1 ELSE @]

(* refresh_task_list; an error keeps the tasks that are shown.              *)
RefreshList(l) == {Loaded(l, n) : n \in Found(l.queue)} \cup {l}

(* If the first list_tasks fails the view stays; the second fills the list. *)
EnterList ==
    /\ Key("Main") /\ queues # <<>>
    /\ view' = "TaskList"
    /\ list' \in RefreshList([queue |-> Row, n |-> 0, task |-> 0])
    /\ UNCHANGED <<place, target, selected>>

LeaveList ==
    /\ Key("TaskList")
    /\ view' = "Main" /\ list' = NoList
    /\ UNCHANGED <<place, target, selected>>

(* There is a second page in the state, which no key can reach: it needs    *)
(* more tasks than the list ever loads.                                    *)
PreviousTask ==
    /\ Key("TaskList")
    /\ list.task > 0
    /\ list' = [list EXCEPT !.task = @ - 1]
    /\ UNCHANGED <<place, target, view, selected>>

NextTask ==
    /\ Key("TaskList")
    /\ list.task < list.n - 1
    /\ list' = [list EXCEPT !.task = @ + 1]
    /\ UNCHANGED <<place, target, view, selected>>

ReloadList ==
    /\ Key("TaskList")
    /\ list' \in RefreshList(list)
    /\ UNCHANGED <<place, target, view, selected>>

-----------------------------------------------------------------------------
MainKey == MoveRow \/ PauseOrResumeRow \/ FlushRow \/ ShowHelp \/ EnterList

ListKey == LeaveList \/ PreviousTask \/ NextTask \/ ReloadList

Refresh ==
    \/ ListQueues \/ ListFails \/ EndRefresh
    \/ \E q \in Queues : ReadCount(q) \/ ReadCompleted(q) \/ ReadFails(q)

Loop == Draw \/ NoKey \/ Check \/ MainKey \/ ListKey \/ HideHelp \/ Refresh

Next ==
    \/ \E t \in Tasks : MoveTask(t)
    \/ \E q \in Queues : ListQueue(q)
    \/ Loop
    \/ Quit

Spec == Init /\ [][Next]_vars

-----------------------------------------------------------------------------
TypeOK ==
    /\ place \in [Tasks -> Counts \cup {"none"}]
    /\ listed \subseteq Queues
    /\ pc \in {"list", "stats", "draw", "keys", "check", "over"}
    /\ view \in {"Main", "TaskList", "Help"}
    /\ queues \in Seq(listed) /\ found \subseteq listed
    /\ selected \in 1 .. Cardinality(Queues)
    /\ list \in Lists \cup {NoList}
    /\ list # NoList <=> view = "TaskList"
    /\ read \in [Queues -> [at : 0 .. Failed, stats : [Counts \cup {"completed"} -> Nat]]]
    /\ settings \in Settings /\ periodic \in BOOLEAN
    /\ {completed, floor} \subseteq [Queues -> Nat] /\ trend \in Seq(Nat)
    /\ {alerts, verdict, truth.must, truth.may} \subseteq [dead : BOOLEAN, error_rate : BOOLEAN]
    /\ {shown, target} \subseteq Queues \cup {NoQueue} /\ moved \subseteq Tasks

(* The counts of a queue are read one by one while tasks move.  A task that *)
(* stays is counted where it is, and the counts are wrong by no more than   *)
(* the tasks that moved.                                                   *)
CountsNearTruth ==
    pc = "stats" =>
        \A q \in Queues, i \in 1 .. Len(Counted) :
            i < read[q].at /\ read[q].at <= Finished =>
                LET still == Cardinality(TasksAt(q, Counted[i]) \ moved)
                    others == Cardinality({t \in moved : QueueOf[t] = q})
                IN  read[q].stats[Counted[i]] \in still .. still + others

(* Whatever a refresh makes of the table and of its order, the marked row   *)
(* and the marked task exist (an index past the end is a panic), and a key  *)
(* pauses, resumes or flushes the queue that is marked on the screen when   *)
(* the loop takes the key: nothing comes between a draw and the next key.   *)
MarkedRow ==
    /\ queues # <<>> => selected <= Len(queues)
    /\ list # NoList /\ list.n > 0 => list.task < list.n
    /\ target # NoQueue => target = shown

(* Whenever the screen is drawn after a periodic refresh, whatever failed    *)
(* and moved meanwhile, an alert is up if the tasks that stayed where they   *)
(* were are enough for it, and only if they are with those that moved; and   *)
(* the red line of the trend ends above the threshold just when the alert    *)
(* about dead tasks is up.                                                  *)
AlertsHonest ==
    periodic /\ pc \in {"draw", "keys", "check"} =>
        /\ \A a \in DOMAIN alerts :
              /\ truth.must[a] => alerts[a]
              /\ alerts[a] => truth.may[a]
        /\ queues # <<>> /\ trend # <<>> =>
              (alerts.dead <=> Last(trend) > settings.dead_threshold)
=============================================================================
