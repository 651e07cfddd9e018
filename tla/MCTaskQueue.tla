---------------------------- MODULE MCTaskQueue ----------------------------
(* Two workers of one server, a task with the default priority and one that *)
(* is urgent, both with the same unique key.  A behaviour keeps to one of    *)
(* two mixes: everything that fails or is administered for the whole queue,  *)
(* or priorities and cancellation with crashes; both at once is beyond TLC.  *)
EXTENDS TaskQueue, TLC

CONSTANTS t1, t2, w1, w2, k1

VARIABLE mix

MCServerOf == [w \in Workers |-> w1]
MCUniqueKey == [t \in Tasks |-> k1]
MCPriority == (t1 :> 50 @@ t2 :> 10)

WorkerSymmetry == Permutations(Workers)

Calls(ops) == op' \in [Tasks -> {"none"} \cup ops]

Faults == UNCHANGED apc /\ Calls(SubmitOps \ {"enqueue_priority"})

Cancels ==
    /\ Calls({"enqueue", "enqueue_priority"})
    /\ UNCHANGED paused
    /\ ~Flush
    /\ \A t \in Tasks : ~Expire(t)
    /\ \A w \in Workers : ~BeforeFails(w)

MCInit == Init /\ mix \in {"faults", "cancels"}

MCNext ==
    /\ Next
    /\ mix = "faults" => Faults
    /\ mix = "cancels" => Cancels
    /\ UNCHANGED mix

MCSpec == MCInit /\ [][MCNext]_<<vars, mix>>
=============================================================================
