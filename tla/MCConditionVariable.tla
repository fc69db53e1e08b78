------------------------ MODULE MCConditionVariable ------------------------
(***************************************************************************)
(* ConditionVariable for TLC: two waiters, two notifiers, and as many      *)
(* frames as there are waiters, so that a new Wait() reuses the memory of  *)
(* an earlier one.  In MCConditionVariable.cfg and ...Slot.cfg notifiers   *)
(* hold the mutex, in ...Unlocked.cfg and ...Free.cfg they do not; ...Free *)
(* has one of them only.                                                   *)
(***************************************************************************)
EXTENDS ConditionVariable

CONSTANTS w1, w2, n1, n2, f1, f2, null
=============================================================================
