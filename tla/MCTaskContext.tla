--------------------------- MODULE MCTaskContext ---------------------------
(***************************************************************************)
(* TaskContext for TLC: two modules share a single-threaded executor, with *)
(* its worker, and a pool, of which one worker is modelled.                *)
(***************************************************************************)
EXTENDS TaskContext, TLC

CONSTANTS m1, m2, single, pool, single_worker, pool_worker, comm, t1, t2, t3, none

MCExecutorOf == (single_worker :> single) @@ (pool_worker :> pool)

Alike == Permutations(Tasks) \cup Permutations(Modules)
=============================================================================
