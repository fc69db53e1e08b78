------------------------- MODULE ConditionVariable -------------------------
(***************************************************************************)
(* sync::ConditionVariable (src/src/sync/condition_variable.h) with its    *)
(* mutex and its users: coroutines that wait for a flag in the predicate   *)
(* loop of Wait(lock, func) and take it, and notifiers that raise the flag *)
(* and call NotifyOne() or NotifyAll().  The mutex is FifoLock, which      *)
(* Mutex implements.                                                       *)
(*                                                                         *)
(* Awaiters live in the coroutine frames of Wait().  An awaiter ends with  *)
(* the expression that awaits it, before Wait() locks again (line 81); the *)
(* frame is released when Wait() has its lock.  Its memory keeps what was  *)
(* written to it until it is used again: by line 81, if the compiler gives *)
(* it the place of the awaiter, or by a later Wait() that the allocator    *)
(* gives the frame to.  Notify() follows next_ after having resumed the    *)
(* awaiter, so what is in that memory matters.                             *)
(*                                                                         *)
(* resume() is a call: the resumed coroutine runs on the stack of whoever  *)
(* resumed it, its host, until it suspends or ends.  Notifiers are threads *)
(* and lock with lock(): they are signalled, and run on a stack of theirs. *)
(***************************************************************************)
EXTENDS Naturals, Sequences, FiniteSets

CONSTANTS Waiters,     \* the coroutines that wait
          Notifiers,   \* the threads that notify
          Frames,      \* the memory that frames of Wait() are made of
          Null,        \* nullptr, and nobody
          HoldLock,    \* do notifiers hold the mutex while they notify?
          SlotReused   \* does line 81 use the memory of the awaiter?

ASSUME CVAssumption == /\ Null \notin Waiters \cup Notifiers \cup Frames
                       /\ Waiters \cap Notifiers = {}
                       /\ "none" \notin Waiters \cup Notifiers \cup {Null}
                       /\ {HoldLock, SlotReused} \subseteq BOOLEAN

VARIABLES owner, queue,   \* the mutex
          awaiter_,       \* the head of the LIFO list of awaiters
          next_,          \* Awaiter::next_, by frame
          continuation_,  \* Awaiter::continuation_, by frame
          frame,          \* the frame of the Wait() each waiter is in, or Null
          flag,           \* the condition waited for
          pc, host,       \* where each user is, and on whose stack it runs
          tail,           \* await_suspend() calls that have yet to unlock
          all, head, nextSeen,  \* locals of Notify()
          taken, woken    \* whom a Notify() took from the list, and resumed

Users == Waiters \cup Notifiers

INSTANCE FifoLock WITH NoOne <- Null

notifyVars == <<all, head, nextSeen, taken, woken>>
vars == <<owner, queue, awaiter_, next_, continuation_, frame, flag, pc, host,
          tail, notifyVars>>

Init == /\ LockInit
        /\ awaiter_ = Null
        /\ next_ = [f \in Frames |-> Null]
        /\ continuation_ = [f \in Frames |-> Null]
        /\ frame = [w \in Waiters |-> Null]
        /\ flag = FALSE
        /\ pc = [u \in Users |-> "idle"]
        /\ host = [w \in Waiters |-> Null]
        /\ tail = [w \in Waiters |-> "none"]
        /\ all = [n \in Notifiers |-> FALSE]
        /\ head = [n \in Notifiers |-> Null]
        /\ nextSeen = [n \in Notifiers |-> Null]
        /\ taken = [n \in Notifiers |-> {}]
        /\ woken = [n \in Notifiers |-> {}]

-----------------------------------------------------------------------------
(* Stacks                                                                  *)

\* A resume() returns: Notify() goes on, Unlock() is over.
Returned(u) == IF pc[u] = "resuming" THEN "advance" ELSE "ending"

\* The place of every user once h, if anybody, is returned to.
BackTo(h, places) == IF h = Null THEN places ELSE [places EXCEPT ![h] = Returned(h)]

FreeFrames == Frames \ {frame[w] : w \in Waiters}

\* Unlock() called by u.  Users are at `after` when it has returned.  If the
\* mutex goes to a coroutine, that one runs at once over the stack of h, and
\* users are at `during` meanwhile; its Wait(), if it was in one, is over.
UnlockOver(u, h, after, during) ==
  /\ Release(u)
  /\ IF queue # <<>> /\ Head(queue) \in Waiters
     THEN /\ pc' = [during EXCEPT ![Head(queue)] = "testing"]
          /\ host' = [host EXCEPT ![Head(queue)] = h]
          /\ frame' = [frame EXCEPT ![Head(queue)] = Null]
     ELSE /\ pc' = IF queue = <<>> THEN after ELSE [after EXCEPT ![Head(queue)] = "notifying"]
          /\ UNCHANGED <<host, frame>>

-----------------------------------------------------------------------------
(* Waiters: unique_lock lock = co_await m.ScopedLock();                    *)
(*          co_await cv.Wait(lock, [&] { return flag; });  take the flag   *)

\* Mutant of LockFree: Wait() does not lock again.
LockForgotten(w) == /\ pc[w] \in {"idle", "woken"}
                    /\ pc' = [pc EXCEPT ![w] = "testing"]
                    /\ frame' = [frame EXCEPT ![w] = Null]
                    /\ UNCHANGED <<owner, queue, awaiter_, next_, continuation_, flag, host,
                                   tail, notifyVars>>

\* The links once Wait() has come to Lock(): what its temporaries leave where the
\* awaiter was may pass for any link.
LinksAtLock(w) ==
  IF SlotReused /\ pc[w] = "woken"
  THEN {[next_ EXCEPT ![frame[w]] = f] : f \in Frames \cup {Null}}
  ELSE {next_}

\* Lock() on a free mutex, first or in Wait(): the frame of Wait() is released.
LockFree(w) == /\ pc[w] \in {"idle", "woken"}
               /\ Acquire(w)
               /\ pc' = [pc EXCEPT ![w] = "testing"]
               /\ frame' = [frame EXCEPT ![w] = Null]
               /\ next_' \in LinksAtLock(w)
               /\ UNCHANGED <<awaiter_, continuation_, flag, host, tail, notifyVars>>

\* Mutant of LockHeld: Wait() ends while its Lock() is still suspended.
LockAfterWait(w) == /\ pc[w] \in {"idle", "woken"}
                    /\ Enqueue(w)
                    /\ pc' = BackTo(host[w], [pc EXCEPT ![w] = "locking"])
                    /\ host' = [host EXCEPT ![w] = Null]
                    /\ frame' = [frame EXCEPT ![w] = Null]
                    /\ UNCHANGED <<awaiter_, next_, continuation_, flag, tail, notifyVars>>

\* Lock() on a held mutex: the coroutine suspends and its host goes on.
LockHeld(w) == /\ pc[w] \in {"idle", "woken"}
               /\ Enqueue(w)
               /\ pc' = BackTo(host[w], [pc EXCEPT ![w] = "locking"])
               /\ host' = [host EXCEPT ![w] = Null]
               /\ next_' \in LinksAtLock(w)
               /\ UNCHANGED <<awaiter_, continuation_, frame, flag, tail, notifyVars>>

\* func() is true: the waiter takes the flag and leaves the locked region.
TakeFlag(w) == /\ pc[w] = "testing"
               /\ flag
               /\ flag' = FALSE
               /\ UnlockOver(w, w, [pc EXCEPT ![w] = "ending"], [pc EXCEPT ![w] = "unlocking"])
               /\ UNCHANGED <<awaiter_, next_, continuation_, tail, notifyVars>>

\* func() is false: Wait(lock) gets a frame, and its await_suspend() loads
\* the head of the list.
Wait(w) == /\ pc[w] = "testing"
           /\ ~flag
           /\ \E f \in FreeFrames :
                /\ frame' = [frame EXCEPT ![w] = f]
                /\ continuation_' = [continuation_ EXCEPT ![f] = w]
                /\ next_' = [next_ EXCEPT ![f] = awaiter_]
           /\ pc' = [pc EXCEPT ![w] = "pushing"]
           /\ UNCHANGED <<owner, queue, awaiter_, flag, host, tail, notifyVars>>

\* The awaiter is pushed, or next_ reloaded and the exchange tried again.
\* From here on the coroutine is suspended and may be resumed by anybody,
\* although this await_suspend() has still to unlock the mutex.
Push(w) ==
  /\ pc[w] = "pushing"
  /\ IF awaiter_ = next_[frame[w]]
     THEN /\ awaiter_' = frame[w]
          /\ pc' = [pc EXCEPT ![w] = "waiting"]
          /\ tail' = [tail EXCEPT ![w] = host[w]]
          /\ host' = [host EXCEPT ![w] = Null]
          /\ UNCHANGED next_
     ELSE /\ next_' = [next_ EXCEPT ![frame[w]] = awaiter_]
          /\ UNCHANGED <<awaiter_, pc, tail, host>>
  /\ UNCHANGED <<owner, queue, continuation_, frame, flag, notifyVars>>

\* await_suspend() ends with the destructor of its unique_lock; a waiter it
\* resumes runs in its place, over the same stack.
UnlockInSuspend(w) ==
  /\ tail[w] # "none"
  /\ UnlockOver(w, tail[w], BackTo(tail[w], pc), pc)
  /\ tail' = [tail EXCEPT ![w] = "none"]
  /\ UNCHANGED <<awaiter_, next_, continuation_, flag, notifyVars>>

\* The coroutine ends and returns to whoever resumed it.
End(w) == /\ pc[w] = "ending"
          /\ pc' = BackTo(host[w], [pc EXCEPT ![w] = "idle"])
          /\ host' = [host EXCEPT ![w] = Null]
          /\ UNCHANGED <<owner, queue, awaiter_, next_, continuation_, frame, flag, tail, notifyVars>>

-----------------------------------------------------------------------------
(* Notifiers                                                               *)

\* A notifier that holds the mutex while notifying takes it first.
Begin(n) ==
  /\ pc[n] = "idle"
  /\ IF ~HoldLock
     THEN /\ pc' = [pc EXCEPT ![n] = "notifying"]
          /\ UNCHANGED <<owner, queue>>
     ELSE IF owner = Null
     THEN /\ Acquire(n)
          /\ pc' = [pc EXCEPT ![n] = "notifying"]
     ELSE /\ Enqueue(n)
          /\ pc' = [pc EXCEPT ![n] = "locking"]
  /\ UNCHANGED <<awaiter_, next_, continuation_, frame, flag, host, tail, notifyVars>>

\* The flag may be raised; then Notify(all) loads the head of the list, and
\* the link of the head for the exchange of a NotifyOne().
Notify(n) ==
  /\ pc[n] = "notifying"
  /\ flag' \in {flag, TRUE}
  /\ \E a \in BOOLEAN : all' = [all EXCEPT ![n] = a]
  /\ head' = [head EXCEPT ![n] = awaiter_]
  /\ nextSeen' = [nextSeen EXCEPT ![n] = IF awaiter_ = Null THEN Null ELSE next_[awaiter_]]
  /\ taken' = [taken EXCEPT ![n] = {}]
  /\ woken' = [woken EXCEPT ![n] = {}]
  /\ pc' = [pc EXCEPT ![n] = IF awaiter_ = Null THEN "notified" ELSE "taking"]
  /\ UNCHANGED <<owner, queue, awaiter_, next_, continuation_, frame, host, tail>>

\* The frames on the list that starts at f: the fewest with which the links
\* lead from f on to nothing else.
Chain(links, f) ==
  {g \in Frames : \A S \in SUBSET Frames :
                    /\ f \in S \cup {Null}
                    /\ \A h \in S : links[h] \in S \cup {Null}
                    => g \in S}

\* Mutants of HeadLeft: the head stays in the list; everybody leaves it.
HeadKept(n) == head[n]
HeadEmptied(n) == Null

\* What the exchange leaves in awaiter_.
HeadLeft(n) == IF all[n] THEN Null ELSE nextSeen[n]

\* Mutants of LinksTaken: the head is always, or never, cut off.
LinksCut(n) == [next_ EXCEPT ![head[n]] = Null]
LinksKept(n) == next_

\* The links as Notify() will follow them: one awaiter is cut off the rest.
LinksTaken(n) == IF all[n] THEN next_ ELSE [next_ EXCEPT ![head[n]] = Null]

\* The compare-and-exchange takes the list, or its head; if the head is no
\* longer what it was the loop starts again.
Take(n) ==
  /\ pc[n] = "taking"
  /\ IF awaiter_ = head[n]
     THEN LET frames == IF all[n] THEN Chain(next_, head[n]) ELSE {head[n]}
          IN  /\ awaiter_' = HeadLeft(n)
              /\ next_' = LinksTaken(n)
              /\ taken' = [taken EXCEPT ![n] = {continuation_[f] : f \in frames}]
              /\ pc' = [pc EXCEPT ![n] = "waking"]
              /\ UNCHANGED <<head, nextSeen>>
     ELSE /\ head' = [head EXCEPT ![n] = awaiter_]
          /\ nextSeen' = [nextSeen EXCEPT ![n] = IF awaiter_ = Null THEN Null ELSE next_[awaiter_]]
          /\ pc' = [pc EXCEPT ![n] = IF awaiter_ = Null THEN "notified" ELSE "taking"]
          /\ UNCHANGED <<awaiter_, next_, taken>>
  /\ UNCHANGED <<owner, queue, continuation_, frame, flag, host, tail, all, woken>>

\* head->continuation_.resume().  Resuming a coroutine that is not suspended
\* in that awaiter is undefined behaviour: the notifier goes no further.
Wake(n) ==
  LET w == continuation_[head[n]]
  IN  /\ pc[n] = "waking"
      /\ IF w \in Waiters /\ pc[w] = "waiting" /\ frame[w] = head[n]
         THEN /\ pc' = [pc EXCEPT ![n] = "resuming", ![w] = "woken"]
              /\ host' = [host EXCEPT ![w] = n]
              /\ woken' = [woken EXCEPT ![n] = @ \cup {w}]
         ELSE /\ pc' = [pc EXCEPT ![n] = "undefined"]
              /\ UNCHANGED <<host, woken>>
      /\ UNCHANGED <<owner, queue, awaiter_, next_, continuation_, frame, flag, tail,
                     all, head, nextSeen, taken>>

\* head = head->next_, read from the frame of the awaiter just resumed.
Advance(n) ==
  /\ pc[n] = "advance"
  /\ head' = [head EXCEPT ![n] = next_[head[n]]]
  /\ pc' = [pc EXCEPT ![n] = IF next_[head[n]] = Null THEN "notified" ELSE "waking"]
  /\ UNCHANGED <<owner, queue, awaiter_, next_, continuation_, frame, flag, host, tail,
                 all, nextSeen, taken, woken>>

\* Notify() has returned; a notifier that holds the mutex unlocks it.
Finish(n) ==
  /\ pc[n] = "notified"
  /\ IF HoldLock
     THEN UnlockOver(n, n, [pc EXCEPT ![n] = "ending"], [pc EXCEPT ![n] = "unlocking"])
     ELSE /\ pc' = [pc EXCEPT ![n] = "ending"]
          /\ UNCHANGED <<owner, queue, host, frame>>
  /\ UNCHANGED <<awaiter_, next_, continuation_, flag, tail, notifyVars>>

\* Locals are out of scope.
Rest(n) == /\ pc[n] = "ending"
           /\ pc' = [pc EXCEPT ![n] = "idle"]
           /\ head' = [head EXCEPT ![n] = Null]
           /\ nextSeen' = [nextSeen EXCEPT ![n] = Null]
           /\ taken' = [taken EXCEPT ![n] = {}]
           /\ woken' = [woken EXCEPT ![n] = {}]
           /\ all' = [all EXCEPT ![n] = FALSE]
           /\ UNCHANGED <<owner, queue, awaiter_, next_, continuation_, frame, flag, host, tail>>

-----------------------------------------------------------------------------

WaiterStep(w) == \/ LockFree(w) \/ LockHeld(w) \/ TakeFlag(w) \/ Wait(w)
                 \/ Push(w) \/ UnlockInSuspend(w) \/ End(w)

NotifierStep(n) == \/ Begin(n) \/ Notify(n) \/ Take(n) \/ Wake(n) \/ Advance(n)
                   \/ Finish(n) \/ Rest(n)

Next == (\E w \in Waiters : WaiterStep(w)) \/ (\E n \in Notifiers : NotifierStep(n))

Spec == Init /\ [][Next]_vars

\* Coroutines that can run do run; nobody has to start waiting or notifying.
Fairness ==
  /\ \A w \in Waiters : /\ WF_vars(WaiterStep(w) /\ pc[w] # "idle")
                        /\ WF_vars(UnlockInSuspend(w))
  /\ \A n \in Notifiers : WF_vars(NotifierStep(n) /\ pc[n] # "idle")

FairSpec == Spec /\ Fairness

-----------------------------------------------------------------------------
(* Properties                                                              *)

Link == Frames \cup {Null}

\* Types; and no notifier is at "undefined": Notify() only ever resumes a
\* coroutine that is suspended in the awaiter it took.
TypeOK ==
  /\ owner \in Users \cup {Null}
  /\ queue \in Seq(Users)
  /\ awaiter_ \in Link
  /\ next_ \in [Frames -> Link]
  /\ continuation_ \in [Frames -> Waiters \cup {Null}]
  /\ frame \in [Waiters -> Link]
  /\ flag \in BOOLEAN
  /\ \A w \in Waiters : pc[w] \in {"idle", "locking", "testing", "pushing", "waiting",
                                   "woken", "unlocking", "ending"}
  /\ \A n \in Notifiers : pc[n] \in {"idle", "locking", "notifying", "taking", "waking",
                                     "resuming", "advance", "notified", "unlocking",
                                     "ending"}
  /\ host \in [Waiters -> Users \cup {Null}]
  /\ \A w \in Waiters : tail[w] \in Users \cup {Null, "none"}
  /\ all \in [Notifiers -> BOOLEAN]
  /\ head \in [Notifiers -> Link]
  /\ nextSeen \in [Notifiers -> Link]
  /\ taken \in [Notifiers -> SUBSET Waiters]
  /\ woken \in [Notifiers -> SUBSET Waiters]

\* Wait() returns with the mutex locked: a waiter evaluates the condition, and
\* takes the flag, as the owner of the mutex.
TestsUnderLock == \A w \in Waiters : pc[w] \in {"testing", "pushing"} => owner = w

\* NotifyAll() "tries to wake all waiters": when it returns it has resumed
\* everyone it took from the list.
NotifyAllWakesAll ==
  \A n \in Notifiers : pc[n] = "notified" /\ all[n] => woken[n] = taken[n]

\* NotifyOne() wakes the waiter it took from the list and nobody else.
NotifyOneWakesOne ==
  \A n \in Notifiers :
    ~all[n] => /\ Cardinality(woken[n]) <= 1
               /\ pc[n] = "notified" => woken[n] = taken[n]

\* Notify() reads next_ in memory that is still the frame of the Wait() it has
\* resumed: that waiter cannot get through Wait() before Notify() has moved on.
\* (The awaiter itself has ended even so; see SlotReused.)
ReadsLiveFrames ==
  \A n \in Notifiers :
    pc[n] = "advance" => \E w \in woken[n] : frame[w] = head[n]

\* A suspended waiter is in the list or was taken by one Notify() that has yet
\* to resume it: pushes, exchanges and reused frames lose or share nobody.
NoLostWaiter ==
  \A w \in Waiters : pc[w] = "waiting" =>
    LET takers == {n \in Notifiers : w \in taken[n] \ woken[n]}
    IN  IF frame[w] \in Chain(next_, awaiter_) THEN takers = {} ELSE Cardinality(takers) = 1

\* A waiter that a Notify() took from the list gets to test its condition again.
TakenTestsAgain ==
  \A w \in Waiters :
    (\E n \in Notifiers : w \in taken[n] \ woken[n]) ~> pc[w] = "testing"
=============================================================================
