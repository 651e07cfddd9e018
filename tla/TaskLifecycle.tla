--------------------------- MODULE TaskLifecycle ---------------------------
(***************************************************************************)
(* What Rediq promises of one task, without Redis, clients or workers: the  *)
(* state machine TaskStatus stands for.  A task is in exactly one stage,    *)
(* its handler starts only while it is active and at most Limit times, and  *)
(* a task that was processed, is dead or was dropped never comes back.      *)
(***************************************************************************)
EXTENDS Naturals

CONSTANTS Tasks, Limit

VARIABLES
    stage,     \* where each task is in its life
    attempts   \* how often its handler was started

lifeVars == <<stage, attempts>>

Waiting == {"pending", "delayed", "retry"}
Final == {"processed", "dead", "dropped"}
Stages == Waiting \cup Final \cup {"new", "active"}

LifeInit ==
    /\ stage = [t \in Tasks |-> "new"]
    /\ attempts = [t \in Tasks |-> 0]

MoveTo(t, s) ==
    /\ stage' = [stage EXCEPT ![t] = s]
    /\ UNCHANGED attempts

Accept(t) == stage[t] = "new" /\ \E s \in {"pending", "delayed"} : MoveTo(t, s)

(* The scheduler's move: a delay or a retry interval is over.              *)
Due(t) == stage[t] \in {"delayed", "retry"} /\ MoveTo(t, "pending")

Dequeue(t) == stage[t] = "pending" /\ MoveTo(t, "active")

Attempt(t) ==
    /\ stage[t] = "active"
    /\ attempts[t] < Limit
    /\ attempts' = [attempts EXCEPT ![t] = @ + 1]
    /\ UNCHANGED stage

Finish(t) ==
    /\ stage[t] = "active"
    /\ attempts[t] > 0
    /\ \E s \in {"processed", "dead", "retry"} : MoveTo(t, s)

(* Cancelled, lost by its worker or, when it has no readable data, refused. *)
Drop(t) == stage[t] \in Waiting \cup {"active"} /\ MoveTo(t, "dropped")

(* flush_queue drops several pending tasks in one step.                     *)
DropPending ==
    /\ \E S \in SUBSET {t \in Tasks : stage[t] = "pending"} :
          stage' = [t \in Tasks |-> IF t \in S THEN "dropped" ELSE stage[t]]
    /\ UNCHANGED attempts

LifeNext ==
    \/ DropPending
    \/ \E t \in Tasks : Accept(t) \/ Due(t) \/ Dequeue(t) \/ Attempt(t) \/ Finish(t) \/ Drop(t)

LifeSpec == LifeInit /\ [][LifeNext]_lifeVars
=============================================================================
