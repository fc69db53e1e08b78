------------------------------ MODULE FifoLock ------------------------------
(***************************************************************************)
(* What sync::Mutex promises its users: at most one owner, waiters served  *)
(* in the order in which they were queued, and no barging: a lock with     *)
(* waiters is handed over, it is never free in between.                    *)
(*                                                                         *)
(* The module is the abstract side of the refinement of Mutex and the lock *)
(* that ConditionVariable is built upon.                                   *)
(***************************************************************************)
EXTENDS Sequences

CONSTANTS Users,   \* the coroutines and threads that use the lock
          NoOne    \* stands for "no user"

VARIABLES owner,   \* the user that holds the lock, or NoOne
          queue    \* the users waiting for it, first come first

lockVars == <<owner, queue>>

Queued == {queue[i] : i \in DOMAIN queue}

LockInit == /\ owner = NoOne
            /\ queue = <<>>

\* TryLock() or the fast path of Lock(): only a free lock is taken at once.
Acquire(u) == /\ owner = NoOne
              /\ owner' = u
              /\ UNCHANGED queue

\* Lock() of a lock that is held: the user waits its turn.
Enqueue(u) == /\ owner # NoOne
              /\ u \notin Queued
              /\ queue' = Append(queue, u)
              /\ UNCHANGED owner

\* Unlock(): the lock passes to the first waiter, or becomes free.
Release(u) == /\ owner = u
              /\ IF queue = <<>>
                 THEN /\ owner' = NoOne
                      /\ UNCHANGED queue
                 ELSE /\ owner' = Head(queue)
                      /\ queue' = Tail(queue)

LockNext == \E u \in Users : Acquire(u) \/ Enqueue(u) \/ Release(u)

LockSpec == LockInit /\ [][LockNext]_lockVars
=============================================================================
