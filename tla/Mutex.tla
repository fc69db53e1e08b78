------------------------------- MODULE Mutex -------------------------------
(***************************************************************************)
(* sync::v2::Mutex (src/src/sync/mutex.{h,cpp}), the coroutine mutex that  *)
(* sync::Mutex names.  One word, state_, says whether the mutex is free    *)
(* (its own address), held (nullptr) or held with a lock-free LIFO stack   *)
(* of awaiters (the top of the stack).  A second list, awaiter_, belongs   *)
(* to the holder: when it is empty Unlock() takes the whole stack with one *)
(* exchange and reverses it, so that awaiters are resumed first come first *)
(* served.                                                                 *)
(*                                                                         *)
(* An action is the code between two accesses to state_, the word that     *)
(* users race for.  awaiter_ and the next_ links of taken awaiters are     *)
(* touched by the holder alone.  Accesses to state_ are taken to be        *)
(* sequentially consistent.                                                *)
(*                                                                         *)
(* A coroutine that gets the lock by a handover runs inside the Unlock()   *)
(* of the previous holder (continuation_.resume() is a call), until it     *)
(* suspends again: host records that.  A thread that blocks in lock()      *)
(* (Lock().Sync()) is only signalled, and Unlock() returns at once.        *)
(***************************************************************************)
EXTENDS Naturals, Sequences, FiniteSets

CONSTANTS Users,      \* the coroutines and threads that use the mutex
          Blocking,   \* those that lock with lock(), blocking their thread
          Unlocked,   \* UnlockedState(): the address of the mutex
          Null        \* nullptr

ASSUME MutexAssumption ==
  /\ Blocking \subseteq Users
  /\ Unlocked \notin Users
  /\ Null \notin Users
  /\ Unlocked # Null

VARIABLES state_,     \* std::atomic<void*> state_
          awaiter_,   \* Awaiter* awaiter_, the holder's FIFO list
          next_,      \* Awaiter::next_ of the awaiter of each user
          pc,         \* where each user is
          seen,       \* the value of state_ a user loaded in LockAndSuspend
          curr,       \* local curr of the reversal loop of Unlock
          rest,       \* local next of the reversal loop of Unlock
          host        \* whose Unlock() a resumed coroutine runs in, or Null

vars == <<state_, awaiter_, next_, pc, seen, curr, rest, host>>

\* Where Unlock() stands, from its first test to its last resume().
Releasing == {"unlocking", "releasing", "taking", "reversing"}

Places == {"idle",        \* outside the mutex
           "suspending",  \* LockAndSuspend, about to load state_
           "pushing",     \* LockAndSuspend, about to compare and exchange
           "queued",      \* suspended in an awaiter list
           "critical",    \* holds the lock, runs its critical section
           "resuming"}    \* in Unlock, in the resume() of the next holder
          \cup Releasing

Init == /\ state_ = Unlocked
        /\ awaiter_ = Null
        /\ next_ = [u \in Users |-> Null]
        /\ pc = [u \in Users |-> "idle"]
        /\ seen = [u \in Users |-> Null]
        /\ curr = [u \in Users |-> Null]
        /\ rest = [u \in Users |-> Null]
        /\ host = [u \in Users |-> Null]

-----------------------------------------------------------------------------
(* Lock                                                                    *)

\* TryLock(), and Lock() whose await_ready() is TryLock(), on a free mutex.
TryLock(u) == /\ pc[u] = "idle"
              /\ state_ = Unlocked
              /\ state_' = Null
              /\ pc' = [pc EXCEPT ![u] = "critical"]
              /\ UNCHANGED <<awaiter_, next_, seen, curr, rest, host>>

\* Lock(), await_ready() was false: await_suspend() enters LockAndSuspend().
Lock(u) == /\ pc[u] = "idle"
           /\ state_ # Unlocked
           /\ pc' = [pc EXCEPT ![u] = "suspending"]
           /\ UNCHANGED <<state_, awaiter_, next_, seen, curr, rest, host>>

LoadToLock(u) == /\ pc[u] = "suspending"
                 /\ seen' = [seen EXCEPT ![u] = state_]
                 /\ pc' = [pc EXCEPT ![u] = "pushing"]
                 /\ UNCHANGED <<state_, awaiter_, next_, curr, rest, host>>

\* The mutex was seen free and still is: locked without suspending.
LockCas(u) == /\ pc[u] = "pushing"
              /\ seen[u] = Unlocked
              /\ state_ = Unlocked
              /\ state_' = Null
              /\ seen' = [seen EXCEPT ![u] = Null]
              /\ pc' = [pc EXCEPT ![u] = "critical"]
              /\ UNCHANGED <<awaiter_, next_, curr, rest, host>>

\* The resume() that runs u returns to the Unlock() it was called from.
BackToHost(u, places) ==
  IF host[u] = Null THEN places ELSE [places EXCEPT ![host[u]] = "idle"]

\* Mutant of PushCas: an awaiter is pushed even if the mutex was seen free.
PushCasUnchecked(u) == /\ pc[u] = "pushing"
                       /\ state_ = seen[u]
                       /\ next_' = [next_ EXCEPT ![u] = seen[u]]
                       /\ state_' = u
                       /\ pc' = BackToHost(u, [pc EXCEPT ![u] = "queued"])
                       /\ host' = [host EXCEPT ![u] = Null]
                       /\ seen' = [seen EXCEPT ![u] = Null]
                       /\ UNCHANGED <<awaiter_, curr, rest>>

\* The mutex was seen held and state_ is as it was seen: the awaiter is on
\* top of the stack, and the coroutine is suspended.
PushCas(u) == /\ pc[u] = "pushing"
              /\ seen[u] # Unlocked
              /\ state_ = seen[u]
              /\ next_' = [next_ EXCEPT ![u] = seen[u]]
              /\ state_' = u
              /\ pc' = BackToHost(u, [pc EXCEPT ![u] = "queued"])
              /\ host' = [host EXCEPT ![u] = Null]
              /\ seen' = [seen EXCEPT ![u] = Null]
              /\ UNCHANGED <<awaiter_, curr, rest>>

\* The weak compare-and-exchange fails, because state_ has changed or for no
\* reason, and the loop starts again.
LockCasFails(u) ==
  /\ pc[u] = "pushing"
  /\ next_' = IF seen[u] = Unlocked THEN next_ ELSE [next_ EXCEPT ![u] = seen[u]]
  /\ seen' = [seen EXCEPT ![u] = Null]
  /\ pc' = [pc EXCEPT ![u] = "suspending"]
  /\ UNCHANGED <<state_, awaiter_, curr, rest, host>>

-----------------------------------------------------------------------------
(* Unlock                                                                  *)

\* awaiter_to_resume->continuation_.resume(), the mutex staying locked.
\* The awaiter ends with the co_await it was made for.
Resume(u, w) ==
  /\ next_' = [next_ EXCEPT ![w] = Null]
  /\ pc' = [pc EXCEPT ![w] = "critical",
                      ![u] = IF w \in Blocking THEN "idle" ELSE "resuming"]
  /\ host' = [host EXCEPT ![w] = IF w \in Blocking THEN Null ELSE u]

\* Mutant of HandOver: the mutex is unlocked as well as handed over.
HandOverAndFree(u) == /\ pc[u] = "critical"
                      /\ awaiter_ # Null
                      /\ awaiter_' = next_[awaiter_]
                      /\ Resume(u, awaiter_)
                      /\ state_' = Unlocked
                      /\ UNCHANGED <<seen, curr, rest>>

\* Unlock() with a non-empty FIFO list.
HandOver(u) == /\ pc[u] = "critical"
               /\ awaiter_ # Null
               /\ awaiter_' = next_[awaiter_]
               /\ Resume(u, awaiter_)
               /\ UNCHANGED <<state_, seen, curr, rest>>

\* Unlock() with an empty FIFO list enters the loop on state_.
Unlock(u) == /\ pc[u] = "critical"
             /\ awaiter_ = Null
             /\ pc' = [pc EXCEPT ![u] = "unlocking"]
             /\ UNCHANGED <<state_, awaiter_, next_, seen, curr, rest, host>>

LoadToUnlock(u) ==
  /\ pc[u] = "unlocking"
  /\ pc' = [pc EXCEPT ![u] = IF state_ = Null THEN "releasing" ELSE "taking"]
  /\ UNCHANGED <<state_, awaiter_, next_, seen, curr, rest, host>>

\* Mutant of UnlockCas: a plain store of the unlocked state.
UnlockStore(u) == /\ pc[u] = "releasing"
                  /\ state_' = Unlocked
                  /\ pc' = [pc EXCEPT ![u] = "idle"]
                  /\ UNCHANGED <<awaiter_, next_, seen, curr, rest, host>>

\* Mutant of UnlockCas: a success is taken for a failure, and unlocks again.
UnlockTwice(u) == /\ pc[u] = "releasing"
                  /\ state_ = Null
                  /\ state_' = Unlocked
                  /\ pc' = [pc EXCEPT ![u] = "unlocking"]
                  /\ UNCHANGED <<awaiter_, next_, seen, curr, rest, host>>

UnlockCas(u) == /\ pc[u] = "releasing"
                /\ state_ = Null
                /\ state_' = Unlocked
                /\ pc' = [pc EXCEPT ![u] = "idle"]
                /\ UNCHANGED <<awaiter_, next_, seen, curr, rest, host>>

UnlockCasFails(u) ==
  /\ pc[u] = "releasing"
  /\ pc' = [pc EXCEPT ![u] = "unlocking"]
  /\ UNCHANGED <<state_, awaiter_, next_, seen, curr, rest, host>>

\* Mutant of TakeStack: the stack is not reversed.
TakeStackAsIs(u) == /\ pc[u] = "taking"
                    /\ state_' = Null
                    /\ awaiter_' = state_
                    /\ rest' = [rest EXCEPT ![u] = state_]
                    /\ pc' = [pc EXCEPT ![u] = "reversing"]
                    /\ UNCHANGED <<next_, seen, curr, host>>

\* state_.exchange(nullptr): the whole stack now belongs to the holder.
TakeStack(u) == /\ pc[u] = "taking"
                /\ state_' = Null
                /\ awaiter_' = state_
                /\ curr' = [curr EXCEPT ![u] = state_]
                /\ rest' = [rest EXCEPT ![u] = Null]
                /\ pc' = [pc EXCEPT ![u] = "reversing"]
                /\ UNCHANGED <<next_, seen, host>>

\* One turn of the do-while loop that reverses the stack.
ReverseOne(u) == /\ pc[u] = "reversing"
                 /\ curr[u] # Null
                 /\ next_' = [next_ EXCEPT ![curr[u]] = rest[u]]
                 /\ rest' = [rest EXCEPT ![u] = curr[u]]
                 /\ curr' = [curr EXCEPT ![u] = next_[curr[u]]]
                 /\ UNCHANGED <<state_, awaiter_, pc, seen, host>>

\* The stack is reversed: its first awaiter is popped and resumed.
HandOverTaken(u) == /\ pc[u] = "reversing"
                    /\ curr[u] = Null
                    /\ awaiter_' = next_[rest[u]]
                    /\ Resume(u, rest[u])
                    /\ rest' = [rest EXCEPT ![u] = Null]
                    /\ UNCHANGED <<state_, seen, curr>>

\* A coroutine that was resumed inside an Unlock() finishes, or suspends on
\* something else than this mutex: the Unlock() returns.
Leave(u) == /\ pc[u] \in {"idle", "critical"}
            /\ host[u] # Null
            /\ pc' = BackToHost(u, pc)
            /\ host' = [host EXCEPT ![u] = Null]
            /\ UNCHANGED <<state_, awaiter_, next_, seen, curr, rest>>

-----------------------------------------------------------------------------

LockStep(u) == TryLock(u) \/ Lock(u) \/ LoadToLock(u) \/ LockCas(u)
               \/ PushCas(u) \/ LockCasFails(u)

UnlockStep(u) == HandOver(u) \/ Unlock(u) \/ LoadToUnlock(u) \/ UnlockCas(u)
                 \/ UnlockCasFails(u) \/ TakeStack(u) \/ ReverseOne(u)
                 \/ HandOverTaken(u)

Next == \E u \in Users : LockStep(u) \/ UnlockStep(u) \/ Leave(u)

Spec == Init /\ [][Next]_vars

\* The executor runs every coroutine that can run, and a holder unlocks;
\* nobody is obliged to ask for the lock.  A weak compare-and-exchange does not
\* fail for ever for no reason, but nobody in particular is promised to be the
\* one that succeeds in locking.
Fairness ==
  /\ SF_vars(\E u \in Users : LockCas(u))
  /\ \A u \in Users : /\ WF_vars(LoadToLock(u))
                      /\ WF_vars(LockCas(u) \/ PushCas(u) \/ LockCasFails(u))
                      /\ WF_vars(UnlockStep(u))
                      /\ SF_vars(UnlockCas(u))

FairSpec == Spec /\ Fairness

-----------------------------------------------------------------------------
(* Properties                                                              *)

Link == Users \cup {Null}

TypeOK == /\ state_ \in Link \cup {Unlocked}
          /\ awaiter_ \in Link
          /\ next_ \in [Users -> Link]
          /\ pc \in [Users -> Places]
          /\ seen \in [Users -> Link \cup {Unlocked}]
          /\ curr \in [Users -> Link]
          /\ rest \in [Users -> Link]
          /\ host \in [Users -> Link]

Holds(u) == pc[u] \in {"critical"} \cup Releasing

\* At most one user holds the mutex, from the compare-and-exchange or the
\* handover that gave it the lock to the end of its Unlock(); and state_
\* says so: it is the mutex' own address exactly when nobody holds it.
MutualExclusion ==
  /\ \A u, v \in Users : Holds(u) /\ Holds(v) => u = v
  /\ state_ = Unlocked <=> \A u \in Users : ~Holds(u)

\* The assertions of Unlock(): it never finds the mutex unlocked, the stack
\* it takes is not empty, and there is an awaiter to resume after reversing
\* it.
UnlockAsserts ==
  \A u \in Users :
    /\ pc[u] = "unlocking" => state_ # Unlocked
    /\ pc[u] = "taking" => state_ \in Users
    /\ pc[u] = "reversing" => curr[u] # Null \/ rest[u] # Null

\* The pointer p leads to q[i], q[i + 1], ..., q[j], along next_, and no further.
Forward(p, q, i, j) ==
  IF i > j THEN p \notin Users
  ELSE /\ p = q[i]
       /\ \A x \in i..(j - 1) : next_[q[x]] = q[x + 1]
       /\ next_[q[j]] \notin Users

\* The pointer p leads to q[j], ..., q[i + 1], q[i], and no further.
Backward(p, q, i, j) ==
  IF i > j THEN p \notin Users
  ELSE /\ p = q[j]
       /\ \A x \in i..(j - 1) : next_[q[x + 1]] = q[x]
       /\ next_[q[i]] \notin Users

Holders == {u \in Users : Holds(u)}
Waiters == {u \in Users : pc[u] = "queued"}

\* The user that holds the mutex, or Null.
Holder == IF Holders = {} THEN Null ELSE CHOOSE u \in Holders : TRUE

\* The first k of q are the holder's list; while the holder reverses it, the
\* first c of these have yet to be reversed.
IsHeldOrder(q, k) ==
  \/ /\ \A u \in Users : pc[u] # "reversing"
     /\ Forward(awaiter_, q, 1, k)
  \/ \E u \in Users, c \in 0..k :
       /\ pc[u] = "reversing"
       /\ Backward(curr[u], q, 1, c)
       /\ Forward(rest[u], q, c + 1, k)

\* The waiters will get the lock in the order q: those of the holder's list,
\* then those of the stack, whose top is the last.
IsWaitingOrder(q) ==
  \E k \in 0..Len(q) : /\ IsHeldOrder(q, k)
                       /\ Backward(state_, q, k + 1, Len(q))

Orders == {q \in [1..Cardinality(Waiters) -> Waiters] :
             \A i, j \in DOMAIN q : q[i] = q[j] => i = j}

WaitingOrder == CHOOSE q \in Orders : IsWaitingOrder(q)

\* No waiter is lost or listed twice: the lists lead to each suspended user
\* once, whatever races the pushes and the exchange ran.
NoLostWaiter == \E q \in Orders : IsWaitingOrder(q)

\* The mutex is a first-come-first-served lock that is handed over: Unlock()
\* never lets a newcomer overtake an awaiter that was queued before.
Fifo == INSTANCE FifoLock WITH owner <- Holder, queue <- WaitingOrder, NoOne <- Null

FirstComeFirstServed == Fifo!LockSpec

\* Unlock() hands the mutex to a waiter, and lets it go only when nobody
\* waits: no interleaving of the pushes with the last compare-and-exchange
\* of Unlock() forgets a waiter.
Handover == INSTANCE HandoverLock
  WITH owner <- Holder, waiting <- Waiters, NoOne <- Null

NoForgottenWaiter == Handover!LockSpec

\* An awaiter that was queued gets the lock.
QueuedGetsLock == \A u \in Users : pc[u] = "queued" ~> pc[u] = "critical"

\* Lock() cannot spin for ever with nobody getting the lock.
SomebodyGetsLock ==
  (\E u \in Users : pc[u] \in {"suspending", "pushing"})
    ~> (\E u \in Users : pc[u] = "critical")
=============================================================================
