---------------------------- MODULE HandoverLock ----------------------------
(***************************************************************************)
(* The safety that users of sync::Mutex rely on, whatever the order of the *)
(* waiters: one owner at most, a lock with waiters is handed to one of     *)
(* them and is never free in between, so no waiter is forgotten.           *)
(***************************************************************************)
CONSTANTS Users,   \* the coroutines and threads that use the lock
          NoOne    \* stands for "no user"

VARIABLES owner,    \* the user that holds the lock, or NoOne
          waiting   \* the users that wait for it

lockVars == <<owner, waiting>>

LockInit == /\ owner = NoOne
            /\ waiting = {}

\* Only a free lock is taken at once.
Acquire(u) == /\ owner = NoOne
              /\ owner' = u
              /\ UNCHANGED waiting

Enqueue(u) == /\ owner # NoOne
              /\ u # owner
              /\ u \notin waiting
              /\ waiting' = waiting \cup {u}
              /\ UNCHANGED owner

Free(u) == /\ owner = u
           /\ waiting = {}
           /\ owner' = NoOne
           /\ UNCHANGED waiting

HandOver(u, w) == /\ owner = u
                  /\ w \in waiting
                  /\ owner' = w
                  /\ waiting' = waiting \ {w}

LockNext == \E u \in Users : \/ Acquire(u)
                             \/ Enqueue(u)
                             \/ Free(u)
                             \/ \E w \in Users : HandOver(u, w)

LockSpec == LockInit /\ [][LockNext]_lockVars
=============================================================================
