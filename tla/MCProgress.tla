----------------------------- MODULE MCProgress -----------------------------
(* Two workers of one server on two threads, two tasks, one with a retry.   *)
EXTENDS Progress, TLC

CONSTANTS t1, t2, w1, w2, th1, th2

MCMaxTries == (t1 :> 2 @@ t2 :> 1)

ThreadSymmetry == Permutations(Threads)
=============================================================================
