----------------------------- MODULE MCTaskDeps -----------------------------
(* Three tasks without unique keys on two workers, and the shapes of their  *)
(* dependencies.                                                            *)
EXTENDS TaskDeps, TLC

CONSTANTS t1, t2, t3, w1, w2

MCServerOf == [w \in Workers |-> w]
MCUniqueKey == [t \in Tasks |-> NoKey]
MCPriority == [t \in Tasks |-> 50]

FanOut == (t1 :> {} @@ t2 :> {t1} @@ t3 :> {t1})
Diamond == (t1 :> {} @@ t2 :> {} @@ t3 :> {t1, t2})

WorkerSymmetry == Permutations(Workers)
=============================================================================
