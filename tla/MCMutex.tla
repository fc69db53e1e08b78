------------------------------ MODULE MCMutex ------------------------------
(***************************************************************************)
(* Mutex for TLC: coroutines c1, c2, ... and one thread t1 that blocks in  *)
(* lock().  Safety is checked with four users, so that Unlock() reverses   *)
(* a stack of three awaiters while nobody else is left to push, and a      *)
(* stack of two while the third pushes; liveness with three.               *)
(***************************************************************************)
EXTENDS Mutex, TLC

CONSTANTS c1, c2, c3, t1, mutex, null

MCUsers == {c1, c2, c3, t1}
MCUsersLive == {c1, c2, t1}
MCBlocking == {t1}

\* The coroutines do the same thing; the blocking thread is of its own kind.
Alike == Permutations({c1, c2, c3})
=============================================================================
