----------------------- MODULE ConditionVariableProofs -----------------------
(***************************************************************************)
(* Proofs about ConditionVariable, for any number of waiters, notifiers    *)
(* and frames, when notifiers hold the mutex while they notify and nothing *)
(* overwrites the awaiter that has ended while its Wait() locks again;     *)
(* that conditions are tested under the mutex depends on neither.          *)
(*                                                                         *)
(* With the mutex held, the list of awaiters and the part of it that a     *)
(* Notify() has taken hold still between its steps: the waiter that has    *)
(* been resumed stops at Lock(), its frame stays, and no frame is made or  *)
(* released by anybody else.                                               *)
(***************************************************************************)
EXTENDS ConditionVariable, TLAPS, FiniteSetTheorems

WaiterPlaces   == {"idle", "locking", "testing", "pushing", "waiting", "woken",
                   "unlocking", "ending"}
NotifierPlaces == {"idle", "locking", "notifying", "taking", "waking", "resuming",
                   "advance", "notified", "unlocking", "ending"}

\* The places in Notify(), with the mutex held, and those with a list taken.
InNotify == {"notifying", "taking", "waking", "resuming", "advance", "notified"}
Walking  == {"waking", "resuming", "advance"}

\* The variables are functions.
Shapes == /\ pc \in [Users -> WaiterPlaces \cup NotifierPlaces]
          /\ tail \in [Waiters -> Users \cup {Null, "none"}]

\* Whoever is between Lock() and Unlock() owns the mutex.
LockedWhileInside ==
  /\ \A w \in Waiters : pc[w] \in {"testing", "pushing"} \/ tail[w] # "none" => owner = w
  /\ \A n \in Notifiers : pc[n] \in InNotify => owner = n

\* The queue of the mutex has whoever is suspended in Lock(), once.
QueueOfLocking ==
  /\ \A i \in 1..Len(queue) : pc[queue[i]] = "locking"
  /\ \A i, j \in 1..Len(queue) : queue[i] = queue[j] => i = j

\* A host waits, in the call that runs its guest, for this guest only.
Hosted(w) ==
  /\ host[w] # Null => /\ pc[w] \in {"testing", "pushing", "woken", "unlocking", "ending"}
                       /\ pc[w] # "woken" => pc[host[w]] = "unlocking"
  /\ pc[w] = "woken" => host[w] \in Notifiers /\ pc[host[w]] = "resuming"
  /\ tail[w] # "none" => /\ pc[w] = "waiting"
                         /\ tail[w] # Null => pc[tail[w]] = "unlocking"

Apart(v, w) == host[v] # Null => /\ host[v] = host[w] => v = w
                                 /\ host[v] # tail[w]

OneGuest == /\ \A w \in Waiters : Hosted(w)
            /\ \A v, w \in Waiters : Apart(v, w)

\* A frame belongs to the one Wait() that is in it.
FramesOwned ==
  /\ \A w \in Waiters : pc[w] \in {"pushing", "waiting", "woken"} => frame[w] # Null
  /\ \A v, w \in Waiters : frame[v] = frame[w] /\ frame[v] # Null => v = w
  /\ \A w \in Waiters : frame[w] # Null => continuation_[frame[w]] = w

\* A coroutine is suspended in the awaiter in frame f.
Waits(f) == /\ f \in Frames
            /\ continuation_[f] \in Waiters
            /\ pc[continuation_[f]] = "waiting"
            /\ frame[continuation_[f]] = f

\* The frames that the Notify() of n has taken and yet to resume.
First(n) == IF pc[n] = "waking" THEN head[n]
            ELSE IF pc[n] \in {"resuming", "advance"} THEN next_[head[n]]
            ELSE Null

Pending(n) == Chain(next_, First(n))

\* The list of frames is one of suspended coroutines, and has no cycle.
GoodList(list) == \A f \in list : Waits(f) /\ f \notin Chain(next_, next_[f])

Lists ==
  /\ GoodList(Chain(next_, awaiter_))
  /\ \A n \in Notifiers : /\ GoodList(Pending(n))
                          /\ Pending(n) \cap Chain(next_, awaiter_) = {}

\* Every suspended coroutine is in one of the lists.
Covered ==
  \A w \in Waiters : pc[w] = "waiting" =>
    \/ frame[w] \in Chain(next_, awaiter_)
    \/ \E n \in Notifiers : frame[w] \in Pending(n)

\* Where Notify() is with what it has loaded and taken.
Walk ==
  \A n \in Notifiers :
    /\ pc[n] = "taking" => /\ awaiter_ # Null
                           /\ head[n] = awaiter_
                           /\ nextSeen[n] = next_[awaiter_]
    /\ pc[n] \in Walking => /\ head[n] # Null
                            /\ ~all[n] => next_[head[n]] = Null
                            /\ woken[n] \subseteq taken[n]
                            /\ taken[n] \ woken[n] = {continuation_[f] : f \in Pending(n)}
    /\ pc[n] \in {"resuming", "advance"} =>
         /\ continuation_[head[n]] \in woken[n]
         /\ frame[continuation_[head[n]]] = head[n]
    /\ pc[n] = "resuming" => /\ pc[continuation_[head[n]]] = "woken"
                             /\ host[continuation_[head[n]]] = n
    /\ pc[n] = "advance" => pc[continuation_[head[n]]] = "locking"

\* Whom Notify() has taken and resumed.
Counts ==
  \A n \in Notifiers :
    /\ pc[n] \in {"idle", "locking", "notifying", "taking"} => taken[n] = {} /\ woken[n] = {}
    /\ pc[n] \in {"notified", "unlocking", "ending"} => woken[n] = taken[n]
    /\ ~all[n] => \E w \in Waiters \cup {Null} : woken[n] \subseteq {w}
    /\ ~all[n] /\ pc[n] = "waking" => woken[n] = {}

CVInv == /\ TypeOK
         /\ Shapes
         /\ LockedWhileInside
         /\ QueueOfLocking
         /\ OneGuest
         /\ FramesOwned
         /\ Lists
         /\ Covered
         /\ Walk
         /\ Counts

-----------------------------------------------------------------------------
(* Lists.                                                                  *)

LEMMA Distinct ==
  /\ Null \notin Waiters /\ Null \notin Notifiers /\ Null \notin Frames
  /\ Waiters \cap Notifiers = {}
  /\ "none" \notin Users \cup {Null}
  BY CVAssumption DEF Users

Closed(links, S) == \A h \in S : links[h] \in S \cup {Null}

\* A set of frames that holds f and that the links do not lead out of has all
\* of the list that starts at f.
LEMMA ChainIsLeast ==
  ASSUME NEW links, NEW f, NEW S \in SUBSET Frames, f \in S \cup {Null}, Closed(links, S)
  PROVE  Chain(links, f) \subseteq S
  BY DEF Chain, Closed

\* No list starts at nullptr.
LEMMA ChainOfNull == ASSUME NEW links PROVE Chain(links, Null) = {}
  <1>1. Closed(links, {}) /\ {} \in SUBSET Frames
    BY DEF Closed
  <1>. QED
    BY <1>1, ChainIsLeast

\* A list has its first frame, and with a frame the one that this leads to.
LEMMA ChainIsClosed ==
  ASSUME NEW links \in [Frames -> Link], NEW f \in Link
  PROVE  /\ Chain(links, f) \in SUBSET Frames
         /\ f \in Chain(links, f) \cup {Null}
         /\ Closed(links, Chain(links, f))
  <1>1. Chain(links, f) \in SUBSET Frames
    BY DEF Chain
  <1>2. f \in Chain(links, f) \cup {Null}
    BY Distinct DEF Chain, Link
  <1>3. ASSUME NEW h \in Chain(links, f), links[h] # Null
        PROVE  links[h] \in Chain(links, f)
    <2>1. h \in Frames /\ links[h] \in Frames
      BY <1>1, <1>3 DEF Link
    <2>2. ASSUME NEW S \in SUBSET Frames, f \in S \cup {Null}, Closed(links, S)
          PROVE  links[h] \in S
      <3>1. h \in S
        BY <2>2, ChainIsLeast
      <3>. QED
        BY <3>1, <2>2, <1>3 DEF Closed
    <2>. QED
      BY <2>1, <2>2 DEF Chain, Closed
  <1>. QED
    BY <1>1, <1>2, <1>3 DEF Closed

\* A list is its first frame and the list that this leads to.
LEMMA ChainUnfolds ==
  ASSUME NEW links \in [Frames -> Link], NEW f \in Frames
  PROVE  Chain(links, f) = {f} \cup Chain(links, links[f])
  <1>1. links[f] \in Link /\ f \in Link /\ f # Null
    BY Distinct DEF Link
  <1>2. Chain(links, f) \subseteq {f} \cup Chain(links, links[f])
    <2>. DEFINE S == {f} \cup Chain(links, links[f])
    <2>1. S \in SUBSET Frames /\ Closed(links, S)
      BY <1>1, ChainIsClosed DEF Closed
    <2>. QED
      BY <2>1, ChainIsLeast
  <1>3. f \in Chain(links, f) /\ Closed(links, Chain(links, f))
    BY <1>1, ChainIsClosed
  <1>4. Chain(links, links[f]) \subseteq Chain(links, f)
    <2>1. links[f] \in Chain(links, f) \cup {Null}
      BY <1>3 DEF Closed
    <2>. QED
      BY <1>1, <1>3, <2>1, ChainIsClosed, ChainIsLeast
  <1>. QED
    BY <1>2, <1>3, <1>4

\* What a frame of a list leads to is part of the list.
LEMMA ChainOfRest ==
  ASSUME NEW links \in [Frames -> Link], NEW f \in Link, NEW g \in Chain(links, f)
  PROVE  Chain(links, links[g]) \subseteq Chain(links, f)
  <1>1. Chain(links, f) \in SUBSET Frames /\ Closed(links, Chain(links, f))
    BY ChainIsClosed
  <1>2. links[g] \in Chain(links, f) \cup {Null}
    BY <1>1 DEF Closed
  <1>. QED
    BY <1>1, <1>2, ChainIsLeast

\* A list depends on the links of its own frames only.
LEMMA ChainKept ==
  ASSUME NEW links \in [Frames -> Link], NEW other \in [Frames -> Link], NEW f \in Link,
         \A g \in Chain(links, f) : other[g] = links[g]
  PROVE  Chain(other, f) = Chain(links, f)
  <1>1. Chain(other, f) \subseteq Chain(links, f)
    <2>1. Closed(other, Chain(links, f))
      BY ChainIsClosed DEF Closed
    <2>. QED
      BY <2>1, ChainIsClosed, ChainIsLeast
  <1>2. Chain(links, f) \subseteq Chain(other, f)
    <2>1. Closed(links, Chain(other, f))
      BY <1>1, ChainIsClosed DEF Closed
    <2>. QED
      BY <2>1, ChainIsClosed, ChainIsLeast
  <1>. QED
    BY <1>1, <1>2

-----------------------------------------------------------------------------
(* Steps that leave the lists alone.                                       *)

\* Lists and loaded pointers stay good when nobody starts or ends to be
\* suspended in an awaiter, and Notify() at most gets a resume() back.
LEMMA ListsStay ==
  ASSUME CVInv,
         UNCHANGED <<awaiter_, next_, continuation_, notifyVars>>,
         \A w \in Waiters : /\ pc'[w] = "waiting" <=> pc[w] = "waiting"
                            /\ pc[w] = "waiting" => frame'[w] = frame[w],
         \A n \in Notifiers : \/ pc'[n] = pc[n]
                              \/ {pc[n], pc'[n]} \subseteq {"idle", "locking", "notifying"}
                              \/ {pc[n], pc'[n]} \subseteq {"notified", "unlocking", "ending"}
                              \/ /\ pc[n] = "resuming" /\ pc'[n] = "advance"
                                 /\ pc'[continuation_[head[n]]] = "locking",
         \A n \in Notifiers :
           pc[n] \in {"resuming", "advance"} =>
             /\ frame'[continuation_[head[n]]] = frame[continuation_[head[n]]]
             /\ pc'[n] = pc[n] =>
                  /\ pc'[continuation_[head[n]]] = pc[continuation_[head[n]]]
                  /\ host'[continuation_[head[n]]] = host[continuation_[head[n]]]
  PROVE  Lists' /\ Covered' /\ Walk' /\ Counts'
  <1>. USE DEF CVInv, notifyVars
  <1>1. ASSUME NEW f PROVE Waits(f)' <=> Waits(f)
    BY DEF Waits
  <1>2. ASSUME NEW n \in Notifiers PROVE First(n)' = First(n)
    BY DEF First
  <1>3. ASSUME NEW n \in Notifiers PROVE Pending(n)' = Pending(n)
    BY <1>2 DEF Pending
  <1>4. Lists'
    BY <1>1, <1>3 DEF Lists, GoodList
  <1>5. Covered'
    BY <1>3 DEF Covered
  <1>6. ASSUME NEW n \in Notifiers PROVE Walk!(n)'
    BY <1>3 DEF Walk, Walking
  <1>7. Counts'
    BY DEF Counts
  <1>. QED
    BY <1>4, <1>5, <1>6, <1>7 DEF Walk

-----------------------------------------------------------------------------
(* Initial states.                                                         *)

LEMMA InitCV == Init => CVInv
  <1>. SUFFICES ASSUME Init PROVE CVInv
    OBVIOUS
  <1>. USE Distinct DEF Init, LockInit
  <1>a. queue \in Seq(Users)
    OBVIOUS
  <1>b. /\ next_ \in [Frames -> Link] /\ continuation_ \in [Frames -> Waiters \cup {Null}]
        /\ frame \in [Waiters -> Link] /\ awaiter_ \in Link
    BY DEF Link
  <1>c. /\ head \in [Notifiers -> Link] /\ nextSeen \in [Notifiers -> Link]
        /\ taken \in [Notifiers -> SUBSET Waiters] /\ woken \in [Notifiers -> SUBSET Waiters]
    BY DEF Link
  <1>d. TypeOK
    BY <1>a, <1>b, <1>c DEF TypeOK, Users
  <1>1. TypeOK /\ Shapes
    BY <1>d DEF Shapes, WaiterPlaces
  <1>2. LockedWhileInside /\ QueueOfLocking
    BY DEF LockedWhileInside, InNotify, QueueOfLocking, Users
  <1>3. OneGuest /\ FramesOwned
    BY DEF OneGuest, Hosted, Apart, FramesOwned, Users
  <1>4. Chain(next_, awaiter_) = {} /\ \A n \in Notifiers : Pending(n) = {}
    BY ChainOfNull DEF Pending, First, Users
  <1>5. Lists /\ Covered
    BY <1>4 DEF Lists, GoodList, Covered, Users
  <1>6. Walk /\ Counts
    BY DEF Walk, Walking, Counts, Users
  <1>. QED
    BY <1>1, <1>2, <1>3, <1>5, <1>6 DEF CVInv

-----------------------------------------------------------------------------
(* The mutex and the stacks.                                               *)

\* Nobody waits for the mutex twice.
GoodQueue == queue \in Seq(Users) /\ QueueOfLocking

LEMMA CVQueue == CVInv => GoodQueue
  BY DEF CVInv, TypeOK, GoodQueue

\* The first in the queue is suspended in Lock(); the others come after it.
LEMMA QueueUnwinds ==
  ASSUME GoodQueue, queue # <<>>
  PROVE  /\ Head(queue) \in Users
         /\ pc[Head(queue)] = "locking"
         /\ Tail(queue) \in Seq(Users)
         /\ \A i \in 1..Len(Tail(queue)) : /\ pc[Tail(queue)[i]] = "locking"
                                           /\ Tail(queue)[i] # Head(queue)
         /\ \A i, j \in 1..Len(Tail(queue)) : Tail(queue)[i] = Tail(queue)[j] => i = j
  <1>. USE DEF GoodQueue
  <1>1. /\ Len(queue) \in Nat /\ Len(queue) > 0
        /\ Head(queue) = queue[1]
        /\ Head(queue) \in Users
        /\ Tail(queue) \in Seq(Users)
        /\ Len(Tail(queue)) = Len(queue) - 1
    OBVIOUS
  <1>2. \A i \in 1..Len(Tail(queue)) : Tail(queue)[i] = queue[i + 1]
    BY <1>1
  <1>3. \A i \in 1..Len(Tail(queue)) : i + 1 \in 1..Len(queue) /\ i + 1 # 1
    BY <1>1
  <1>. QED
    BY <1>1, <1>2, <1>3 DEF QueueOfLocking

\* A new one in the queue comes last and once.
LEMMA QueueGrows ==
  ASSUME GoodQueue, NEW u \in Users, pc[u] # "locking", Enqueue(u)
  PROVE  /\ queue' \in Seq(Users)
         /\ owner' = owner /\ owner # Null
         /\ \A i \in 1..Len(queue') : queue'[i] = u \/ (queue'[i] \in Users /\ pc[queue'[i]] = "locking")
         /\ \A i, j \in 1..Len(queue') : queue'[i] = queue'[j] => i = j
  <1>. USE DEF GoodQueue, Enqueue
  <1>1. /\ Len(queue) \in Nat
        /\ queue' \in Seq(Users)
        /\ Len(queue') = Len(queue) + 1
        /\ \A i \in 1..Len(queue) : queue'[i] = queue[i]
        /\ queue'[Len(queue) + 1] = u
    OBVIOUS
  <1>2. \A i \in 1..Len(queue') : i \in 1..Len(queue) \/ i = Len(queue) + 1
    BY <1>1
  <1>3. \A i \in 1..Len(queue) : queue[i] \in Users
    OBVIOUS
  <1>4. \A i \in 1..Len(queue) : pc[queue[i]] = "locking" /\ queue[i] # u
    BY DEF QueueOfLocking
  <1>5. ASSUME NEW i \in 1..Len(queue'), NEW j \in 1..Len(queue'), queue'[i] = queue'[j]
        PROVE  i = j
    BY <1>1, <1>2, <1>4, <1>5 DEF QueueOfLocking
  <1>. QED
    BY <1>1, <1>2, <1>3, <1>4, <1>5

\* With the mutex held, a notifier inside Notify() is the only user inside.
LEMMA OneInside ==
  ASSUME CVInv
  PROVE  /\ \A w \in Waiters : \A n \in Notifiers :
              pc[w] \in {"testing", "pushing"} \/ tail[w] # "none" => pc[n] \notin InNotify
         /\ \A m, n \in Notifiers : pc[m] \in InNotify /\ pc[n] \in InNotify => m = n
         /\ \A v, w \in Waiters : /\ pc[v] \in {"testing", "pushing"} \/ tail[v] # "none"
                                  /\ pc[w] \in {"testing", "pushing"} \/ tail[w] # "none"
                                  => v = w
         /\ owner = Null => /\ \A w \in Waiters : pc[w] \notin {"testing", "pushing"} /\ tail[w] = "none"
                            /\ \A n \in Notifiers : pc[n] \notin InNotify
  BY Distinct DEF CVInv, LockedWhileInside

\* Unlock() leaves the mutex free, or with the first in the queue, which goes on.
LEMMA Unlocking ==
  ASSUME GoodQueue, NEW u, NEW h, NEW after, NEW during, UnlockOver(u, h, after, during)
  PROVE  /\ owner = u
         /\ \/ /\ queue' = <<>> /\ queue' \in Seq(Users) /\ owner' = Null
               /\ pc' = after /\ host' = host /\ frame' = frame
            \/ \E v \in Users :
                 /\ pc[v] = "locking"
                 /\ owner' = v
                 /\ queue' \in Seq(Users)
                 /\ \A i \in 1..Len(queue') : queue'[i] \in Users \ {v} /\ pc[queue'[i]] = "locking"
                 /\ \A i, j \in 1..Len(queue') : queue'[i] = queue'[j] => i = j
                 /\ \/ /\ v \in Waiters
                       /\ pc' = [during EXCEPT ![v] = "testing"]
                       /\ host' = [host EXCEPT ![v] = h]
                       /\ frame' = [frame EXCEPT ![v] = Null]
                    \/ /\ v \in Notifiers
                       /\ pc' = [after EXCEPT ![v] = "notifying"]
                       /\ host' = host /\ frame' = frame
  <1>. USE DEF UnlockOver, Release
  <1>1. CASE queue = <<>>
    BY <1>1
  <1>2. CASE queue # <<>>
    <2>1. \A i \in 1..Len(Tail(queue)) : Tail(queue)[i] \in Users
      BY <1>2, QueueUnwinds
    <2>. QED
      BY <1>2, <2>1, QueueUnwinds, Distinct DEF Users
  <1>. QED
    BY <1>1, <1>2

\* The types of what a step on the mutex and the stacks changes.
LEMMA TypesKept ==
  ASSUME CVInv,
         owner' \in Users \cup {Null}, queue' \in Seq(Users), flag' \in BOOLEAN,
         pc' \in [Users -> WaiterPlaces \cup NotifierPlaces],
         \A w \in Waiters : pc'[w] \in WaiterPlaces,
         \A n \in Notifiers : pc'[n] \in NotifierPlaces,
         host' \in [Waiters -> Users \cup {Null}],
         frame' \in [Waiters -> Link],
         tail' \in [Waiters -> Users \cup {Null, "none"}],
         UNCHANGED <<awaiter_, next_, continuation_, notifyVars>>
  PROVE  TypeOK' /\ Shapes'
  BY DEF CVInv, TypeOK, Shapes, WaiterPlaces, NotifierPlaces, notifyVars

LEMMA PlacesOf ==
  ASSUME CVInv
  PROVE  /\ pc \in [Users -> WaiterPlaces \cup NotifierPlaces]
         /\ \A w \in Waiters : pc[w] \in WaiterPlaces
         /\ \A n \in Notifiers : pc[n] \in NotifierPlaces
  BY DEF CVInv, TypeOK, Shapes, WaiterPlaces, NotifierPlaces

\* Unlock() runs the next owner v over the stack of h, which hosts nobody yet.
LEMMA NewGuest ==
  ASSUME CVInv, NEW v \in Waiters, NEW h \in Users \cup {Null},
         pc[v] = "locking", pc'[v] = "testing",
         h # Null => pc[h] # "woken" /\ pc'[h] = "unlocking",
         host' = [host EXCEPT ![v] = h],
         \A x \in Waiters : tail'[x] = "none",
         h # Null => \A x \in Waiters : host[x] # h,
         \A x \in Users : x # v /\ x # h => pc'[x] = pc[x]
  PROVE  OneGuest'
  <1>1. /\ \A x \in Waiters : x # v => host'[x] = host[x]
        /\ host'[v] = h
        /\ h # Null => h # v
        /\ \A x \in Waiters : host[x] \in Users \cup {Null}
    BY DEF CVInv, TypeOK
  <1>2. host[v] = Null
    BY DEF CVInv, OneGuest, Hosted
  <1>3. \A x \in Waiters : host[x] # Null => pc[host[x]] \in {"unlocking", "resuming"}
    BY DEF CVInv, OneGuest, Hosted
  <1>4. \A x \in Waiters : host[x] # Null => host[x] # v /\ host[x] # h
    BY <1>3
  <1>5. \A x \in Waiters : host[x] # Null => pc'[host[x]] = pc[host[x]]
    BY <1>1, <1>4
  <1>6. ASSUME NEW x \in Waiters PROVE Hosted(x)'
    <2>1. CASE x = v
      BY <1>1, <2>1 DEF Hosted
    <2>2. CASE x = h /\ x # v
      BY <1>1, <1>5, <2>2, Distinct DEF Hosted, CVInv, OneGuest, Users
    <2>3. CASE x # v /\ x # h
      BY <1>1, <1>5, <2>3, Distinct DEF Hosted, CVInv, OneGuest, Users
    <2>. QED
      BY <2>1, <2>2, <2>3
  <1>7. ASSUME NEW x \in Waiters, NEW y \in Waiters PROVE Apart(x, y)'
    BY <1>1, <1>2, <1>4, Distinct DEF CVInv, OneGuest, Apart, Users
  <1>. QED
    BY <1>6, <1>7 DEF OneGuest

\* The coroutine that leaves the locked region was the only user inside, and
\* runs on nobody's behalf.
LEMMA TakeFlagCV == ASSUME HoldLock, CVInv, NEW w \in Waiters, TakeFlag(w) PROVE CVInv'
  <1>. USE Distinct DEF CVInv
  <1>. DEFINE after  == [pc EXCEPT ![w] = "ending"]
              during == [pc EXCEPT ![w] = "unlocking"]
  <1>0. /\ pc[w] = "testing" /\ flag' = FALSE
        /\ UnlockOver(w, w, after, during)
        /\ UNCHANGED <<awaiter_, next_, continuation_, tail, notifyVars>>
    BY DEF TakeFlag
  <1>a. \A n \in Notifiers : pc[n] \notin InNotify
    BY <1>0, OneInside
  <1>b. \A v \in Waiters : host[v] # w /\ tail[v] # w
    BY <1>0 DEF OneGuest, Hosted, Apart, Users
  <1>c. \A v \in Waiters : tail[v] = "none" /\ (pc[v] \in {"testing", "pushing"} => v = w)
    BY <1>0, OneInside DEF OneGuest, Hosted, Apart
  <1>d. host[w] # Null => pc[host[w]] = "unlocking" /\ host[w] # w
    BY <1>0 DEF OneGuest, Hosted, Apart
  <1>1. CASE /\ queue' = <<>> /\ queue' \in Seq(Users) /\ owner' = Null
             /\ pc' = after /\ host' = host /\ frame' = frame
    <2>. USE <1>0, <1>1
    <2>1. TypeOK' /\ Shapes'
      BY DEF TypeOK, Shapes, Users, WaiterPlaces, notifyVars
    <2>2. LockedWhileInside' /\ QueueOfLocking'
      BY <1>a, <1>c DEF LockedWhileInside, QueueOfLocking, Shapes, Users, InNotify
    <2>3. OneGuest' /\ FramesOwned'
      BY <1>b DEF OneGuest, Hosted, Apart, FramesOwned, Shapes, Users
    <2>4. Lists' /\ Covered' /\ Walk' /\ Counts'
      BY <1>a, ListsStay DEF InNotify, Shapes, Users
    <2>. QED
      BY <2>1, <2>2, <2>3, <2>4
  <1>2. ASSUME NEW v \in Waiters,
               pc[v] = "locking", owner' = v, queue' \in Seq(Users),
               \A i \in 1..Len(queue') : queue'[i] \in Users \ {v} /\ pc[queue'[i]] = "locking",
               \A i, j \in 1..Len(queue') : queue'[i] = queue'[j] => i = j,
               pc' = [during EXCEPT ![v] = "testing"],
               host' = [host EXCEPT ![v] = w],
               frame' = [frame EXCEPT ![v] = Null]
        PROVE  CVInv'
    <2>. USE <1>0, <1>2
    <2>a. /\ pc' \in [Users -> WaiterPlaces \cup NotifierPlaces]
          /\ \A x \in Waiters : pc'[x] \in WaiterPlaces
          /\ \A x \in Notifiers : pc'[x] \in NotifierPlaces
      BY PlacesOf DEF Users, WaiterPlaces, NotifierPlaces
    <2>b. /\ \A x \in Users : x # v /\ x # w => pc'[x] = pc[x]
          /\ pc'[v] = "testing" /\ pc'[w] = "unlocking" /\ v # w
      BY PlacesOf DEF Users
    <2>c. /\ host' \in [Waiters -> Users \cup {Null}]
          /\ \A x \in Waiters : x # v => host'[x] = host[x]
          /\ host'[v] = w
          /\ frame' \in [Waiters -> Link]
      BY DEF TypeOK, Users, Link
    <2>1. TypeOK' /\ Shapes'
      BY <2>a, <2>c, TypesKept DEF TypeOK, Shapes, Users
    <2>2. LockedWhileInside' /\ QueueOfLocking'
      BY <1>a, <1>c DEF LockedWhileInside, QueueOfLocking, TypeOK, Shapes, Users, InNotify
    <2>d. w \in Users \cup {Null} /\ pc[w] # "woken" /\ pc'[w] = "unlocking"
      BY <2>b DEF Users
    <2>e. \A x \in Waiters : tail'[x] = "none"
      BY <1>c
    <2>3. OneGuest'
      <3>1. /\ w \in Users \cup {Null} /\ pc[v] = "locking" /\ pc'[v] = "testing"
            /\ w # Null => pc[w] # "woken" /\ pc'[w] = "unlocking"
            /\ host' = [host EXCEPT ![v] = w]
            /\ \A x \in Waiters : tail'[x] = "none"
            /\ w # Null => \A x \in Waiters : host[x] # w
            /\ \A x \in Users : x # v /\ x # w => pc'[x] = pc[x]
        BY <1>b, <2>b, <2>d, <2>e
      <3>. HIDE <1>0, <1>2 DEF CVInv
      <3>. QED
        BY <3>1, NewGuest, ZenonT(60)
    <2>4. FramesOwned'
      BY DEF FramesOwned, TypeOK, Shapes, Users
    <2>5. Lists' /\ Covered' /\ Walk' /\ Counts'
      BY <1>a, ListsStay DEF InNotify, TypeOK, Shapes, Users
    <2>. QED
      BY <2>1, <2>2, <2>3, <2>4, <2>5
  <1>3. ASSUME NEW v \in Notifiers,
               pc[v] = "locking", owner' = v, queue' \in Seq(Users),
               \A i \in 1..Len(queue') : queue'[i] \in Users \ {v} /\ pc[queue'[i]] = "locking",
               \A i, j \in 1..Len(queue') : queue'[i] = queue'[j] => i = j,
               pc' = [after EXCEPT ![v] = "notifying"],
               host' = host, frame' = frame
        PROVE  CVInv'
    <2>. USE <1>0, <1>3
    <2>a. /\ pc' \in [Users -> WaiterPlaces \cup NotifierPlaces]
          /\ \A x \in Waiters : pc'[x] \in WaiterPlaces
          /\ \A x \in Notifiers : pc'[x] \in NotifierPlaces
      BY PlacesOf DEF Users, WaiterPlaces, NotifierPlaces
    <2>1. TypeOK' /\ Shapes'
      BY <2>a, TypesKept DEF TypeOK, Shapes, Users
    <2>b. /\ \A x \in Users : x # v /\ x # w => pc'[x] = pc[x]
          /\ pc'[v] = "notifying" /\ pc'[w] = "ending" /\ v # w
      BY PlacesOf DEF Users
    <2>c. LockedWhileInside'
      BY <1>a, <1>c, <2>b DEF LockedWhileInside, Users, InNotify
    <2>2. QueueOfLocking'
      BY <2>b DEF QueueOfLocking
    <2>3. OneGuest' /\ FramesOwned'
      BY <1>b DEF OneGuest, Hosted, Apart, FramesOwned, TypeOK, Shapes, Users
    <2>4. Lists' /\ Covered' /\ Walk' /\ Counts'
      BY <1>a, ListsStay DEF InNotify, TypeOK, Shapes, Users
    <2>. QED
      BY <2>1, <2>2, <2>c, <2>3, <2>4
  <1>. HIDE DEF CVInv, after, during
  <1>. QED
    BY <1>0, <1>1, <1>2, <1>3, CVQueue, Unlocking

\* await_suspend() unlocks on behalf of the suspended coroutine, on the stack
\* that this was run on.
LEMMA UnlockInSuspendCV ==
  ASSUME HoldLock, CVInv, NEW w \in Waiters, UnlockInSuspend(w)
  PROVE  CVInv'
  <1>. USE Distinct DEF CVInv
  <1>. DEFINE h == tail[w]
              after == BackTo(h, pc)
  <1>0. /\ h # "none"
        /\ UnlockOver(w, h, after, pc)
        /\ tail' = [tail EXCEPT ![w] = "none"]
        /\ UNCHANGED <<awaiter_, next_, continuation_, flag, notifyVars>>
    BY DEF UnlockInSuspend
  <1>a. \A n \in Notifiers : pc[n] \notin InNotify
    BY <1>0, OneInside
  <1>b. /\ h \in Users \cup {Null}
        /\ h # Null => pc[h] = "unlocking"
        /\ h # Null => \A x \in Waiters : host[x] # h
    BY <1>0 DEF OneGuest, Hosted, Apart, TypeOK
  <1>c. /\ tail' \in [Waiters -> Users \cup {Null, "none"}]
        /\ \A x \in Waiters : tail'[x] = "none"
        /\ \A x \in Waiters : pc[x] \notin {"testing", "pushing"}
    BY <1>0, OneInside DEF OneGuest, Hosted, Shapes
  <1>d. /\ after \in [Users -> WaiterPlaces \cup NotifierPlaces]
        /\ \A x \in Users : after[x] = IF x = h THEN "ending" ELSE pc[x]
    BY <1>b, PlacesOf DEF BackTo, Returned, Users, WaiterPlaces
  <1>. HIDE DEF after
  <1>1. CASE /\ queue' = <<>> /\ queue' \in Seq(Users) /\ owner' = Null
             /\ pc' = after /\ host' = host /\ frame' = frame
    <2>. USE <1>0, <1>1
    <2>a. /\ pc' \in [Users -> WaiterPlaces \cup NotifierPlaces]
          /\ \A x \in Waiters : pc'[x] \in WaiterPlaces
          /\ \A x \in Notifiers : pc'[x] \in NotifierPlaces
      BY <1>d, PlacesOf DEF Users, WaiterPlaces, NotifierPlaces
    <2>1. TypeOK' /\ Shapes'
      BY <1>c, <2>a, TypesKept DEF TypeOK, Shapes, Users
    <2>2. LockedWhileInside' /\ QueueOfLocking'
      BY <1>a, <1>c, <1>d DEF LockedWhileInside, QueueOfLocking, Users, InNotify
    <2>3. OneGuest'
      <3>1. ASSUME NEW x \in Waiters PROVE Hosted(x)'
        BY <1>b, <1>c, <1>d, PlacesOf DEF OneGuest, Hosted, TypeOK, Users
      <3>2. ASSUME NEW x \in Waiters, NEW y \in Waiters PROVE Apart(x, y)'
        BY <1>c DEF OneGuest, Apart, TypeOK, Users
      <3>. QED
        BY <3>1, <3>2 DEF OneGuest
    <2>4. FramesOwned'
      BY <1>d DEF FramesOwned, Users
    <2>5. Lists' /\ Covered' /\ Walk' /\ Counts'
      BY <1>a, <1>b, <1>d, ListsStay DEF InNotify, Users
    <2>. QED
      BY <2>1, <2>2, <2>3, <2>4, <2>5
  <1>2. ASSUME NEW v \in Waiters,
               pc[v] = "locking", owner' = v, queue' \in Seq(Users),
               \A i \in 1..Len(queue') : queue'[i] \in Users \ {v} /\ pc[queue'[i]] = "locking",
               \A i, j \in 1..Len(queue') : queue'[i] = queue'[j] => i = j,
               pc' = [pc EXCEPT ![v] = "testing"],
               host' = [host EXCEPT ![v] = h],
               frame' = [frame EXCEPT ![v] = Null]
        PROVE  CVInv'
    <2>. USE <1>0, <1>2
    <2>a. /\ pc' \in [Users -> WaiterPlaces \cup NotifierPlaces]
          /\ \A x \in Waiters : pc'[x] \in WaiterPlaces
          /\ \A x \in Notifiers : pc'[x] \in NotifierPlaces
      BY PlacesOf DEF Users, WaiterPlaces, NotifierPlaces
    <2>b. /\ \A x \in Users : x # v => pc'[x] = pc[x]
          /\ pc'[v] = "testing"
      BY PlacesOf DEF Users
    <2>c. /\ host' \in [Waiters -> Users \cup {Null}]
          /\ frame' \in [Waiters -> Link]
      BY <1>b DEF TypeOK, Users, Link
    <2>1. TypeOK' /\ Shapes'
      BY <1>c, <2>a, <2>c, TypesKept DEF TypeOK, Shapes, Users
    <2>2. LockedWhileInside' /\ QueueOfLocking'
      BY <1>a, <1>c, <2>b DEF LockedWhileInside, QueueOfLocking, Users, InNotify
    <2>d. h # Null => pc[h] # "woken" /\ pc'[h] = "unlocking"
      BY <1>b, <2>b DEF Users
    <2>e. \A x \in Users : x # v /\ x # h => pc'[x] = pc[x]
      BY <2>b
    <2>3. OneGuest'
      <3>1. /\ h \in Users \cup {Null} /\ pc[v] = "locking" /\ pc'[v] = "testing"
            /\ h # Null => pc[h] # "woken" /\ pc'[h] = "unlocking"
            /\ host' = [host EXCEPT ![v] = h]
            /\ \A x \in Waiters : tail'[x] = "none"
            /\ h # Null => \A x \in Waiters : host[x] # h
            /\ \A x \in Users : x # v /\ x # h => pc'[x] = pc[x]
        BY <1>b, <1>c, <2>b, <2>d, <2>e
      <3>. HIDE <1>0, <1>2 DEF CVInv
      <3>. QED
        BY <3>1, NewGuest, ZenonT(60)
    <2>4. FramesOwned'
      BY <2>b DEF FramesOwned, TypeOK, Users
    <2>5. Lists' /\ Covered' /\ Walk' /\ Counts'
      BY <1>a, <2>b, ListsStay DEF InNotify, TypeOK, Users
    <2>. QED
      BY <2>1, <2>2, <2>3, <2>4, <2>5
  <1>3. ASSUME NEW v \in Notifiers,
               pc[v] = "locking", owner' = v, queue' \in Seq(Users),
               \A i \in 1..Len(queue') : queue'[i] \in Users \ {v} /\ pc[queue'[i]] = "locking",
               \A i, j \in 1..Len(queue') : queue'[i] = queue'[j] => i = j,
               pc' = [after EXCEPT ![v] = "notifying"],
               host' = host, frame' = frame
        PROVE  CVInv'
    <2>. USE <1>0, <1>3
    <2>a. /\ pc' \in [Users -> WaiterPlaces \cup NotifierPlaces]
          /\ \A x \in Waiters : pc'[x] \in WaiterPlaces
          /\ \A x \in Notifiers : pc'[x] \in NotifierPlaces
      BY <1>d, PlacesOf DEF Users, WaiterPlaces, NotifierPlaces
    <2>b. /\ \A x \in Users : x # v /\ x # h => pc'[x] = pc[x]
          /\ pc'[v] = "notifying" /\ v # h
          /\ h # Null => pc'[h] = "ending"
      BY <1>b, <1>d DEF Users
    <2>1. TypeOK' /\ Shapes'
      BY <1>c, <2>a, TypesKept DEF TypeOK, Shapes, Users
    <2>2. LockedWhileInside'
      BY <1>a, <1>b, <1>c, <2>b DEF LockedWhileInside, Users, InNotify
    <2>c. QueueOfLocking'
      BY <1>b, <2>b DEF QueueOfLocking, Users
    <2>3. OneGuest'
      <3>1. ASSUME NEW x \in Waiters PROVE Hosted(x)'
        <4>1. x \in Users /\ x # v /\ host'[x] = host[x] /\ tail'[x] = "none"
          BY <1>b, <1>c DEF Users
        <4>2. x # h => pc'[x] = pc[x]
          BY <2>b, <4>1
        <4>3. x = h => pc[x] = "unlocking" /\ pc'[x] = "ending"
          BY <1>b, <2>b, <4>1
        <4>4. host[x] # Null => /\ host[x] \in Users /\ host[x] # h /\ host[x] # v
                                /\ pc'[host[x]] = pc[host[x]]
          BY <1>b, <2>b DEF OneGuest, Hosted, TypeOK
        <4>. QED
          BY <4>1, <4>2, <4>3, <4>4 DEF OneGuest, Hosted
      <3>2. ASSUME NEW x \in Waiters, NEW y \in Waiters PROVE Apart(x, y)'
        BY <1>c DEF OneGuest, Apart, TypeOK, Users
      <3>. QED
        BY <3>1, <3>2 DEF OneGuest
    <2>4. FramesOwned'
      BY <1>b, <2>b DEF FramesOwned, Users
    <2>5. Lists' /\ Covered' /\ Walk' /\ Counts'
      BY <1>a, <1>b, <2>b, ListsStay DEF InNotify, Users
    <2>. QED
      BY <2>1, <2>2, <2>c, <2>3, <2>4, <2>5
  <1>. HIDE DEF CVInv, h
  <1>. QED
    BY <1>0, <1>1, <1>2, <1>3, CVQueue, Unlocking

\* A notifier that is done with the list unlocks.
LEMMA FinishCV == ASSUME HoldLock, CVInv, NEW n \in Notifiers, Finish(n) PROVE CVInv'
  <1>. USE Distinct DEF CVInv
  <1>. DEFINE after  == [pc EXCEPT ![n] = "ending"]
              during == [pc EXCEPT ![n] = "unlocking"]
  <1>0. /\ pc[n] = "notified"
        /\ UnlockOver(n, n, after, during)
        /\ UNCHANGED <<awaiter_, next_, continuation_, flag, tail, notifyVars>>
    BY DEF Finish
  <1>a. \A m \in Notifiers : m # n => pc[m] \notin InNotify
    BY <1>0, OneInside DEF InNotify
  <1>b. \A v \in Waiters : host[v] # n /\ tail[v] # n
    BY <1>0 DEF OneGuest, Hosted, Users
  <1>c. \A v \in Waiters : tail[v] = "none" /\ pc[v] \notin {"testing", "pushing"}
    BY <1>0, OneInside DEF InNotify
  <1>1. CASE /\ queue' = <<>> /\ queue' \in Seq(Users) /\ owner' = Null
             /\ pc' = after /\ host' = host /\ frame' = frame
    <2>. USE <1>0, <1>1
    <2>a. /\ pc' \in [Users -> WaiterPlaces \cup NotifierPlaces]
          /\ \A x \in Waiters : pc'[x] \in WaiterPlaces
          /\ \A x \in Notifiers : pc'[x] \in NotifierPlaces
      BY PlacesOf DEF Users, WaiterPlaces, NotifierPlaces
    <2>b. /\ \A x \in Users : x # n => pc'[x] = pc[x]
          /\ pc'[n] = "ending"
      BY PlacesOf DEF Users
    <2>1. TypeOK' /\ Shapes'
      BY <2>a, TypesKept DEF TypeOK, Shapes, Users
    <2>2. LockedWhileInside' /\ QueueOfLocking'
      BY <1>a, <1>c, <2>b DEF LockedWhileInside, QueueOfLocking, Users, InNotify
    <2>3. OneGuest' /\ FramesOwned'
      BY <1>b, <2>b DEF OneGuest, Hosted, Apart, FramesOwned, TypeOK, Users
    <2>4. Lists' /\ Covered' /\ Walk' /\ Counts'
      BY <1>a, <2>b, ListsStay DEF InNotify, Users
    <2>. QED
      BY <2>1, <2>2, <2>3, <2>4
  <1>2. ASSUME NEW v \in Waiters,
               pc[v] = "locking", owner' = v, queue' \in Seq(Users),
               \A i \in 1..Len(queue') : queue'[i] \in Users \ {v} /\ pc[queue'[i]] = "locking",
               \A i, j \in 1..Len(queue') : queue'[i] = queue'[j] => i = j,
               pc' = [during EXCEPT ![v] = "testing"],
               host' = [host EXCEPT ![v] = n],
               frame' = [frame EXCEPT ![v] = Null]
        PROVE  CVInv'
    <2>. USE <1>0
    <2>0. /\ pc[v] = "locking" /\ owner' = v
          /\ pc' = [during EXCEPT ![v] = "testing"]
          /\ host' = [host EXCEPT ![v] = n]
          /\ frame' = [frame EXCEPT ![v] = Null]
          /\ v \in Users /\ v # n
      BY <1>2 DEF Users
    <2>a. /\ pc' \in [Users -> WaiterPlaces \cup NotifierPlaces]
          /\ \A x \in Waiters : pc'[x] \in WaiterPlaces
          /\ \A x \in Notifiers : pc'[x] \in NotifierPlaces
      BY <2>0, PlacesOf DEF Users, WaiterPlaces, NotifierPlaces
    <2>b. /\ \A x \in Users : x # v /\ x # n => pc'[x] = pc[x]
          /\ pc'[v] = "testing" /\ pc'[n] = "unlocking" /\ v # n
      BY <2>0, PlacesOf DEF Users
    <2>c. /\ host' \in [Waiters -> Users \cup {Null}]
          /\ frame' \in [Waiters -> Link]
      BY <2>0 DEF TypeOK, Users, Link
    <2>1. TypeOK' /\ Shapes'
      BY <1>2, <2>a, <2>c, TypesKept DEF TypeOK, Shapes, Users
    <2>2. LockedWhileInside'
      BY <2>0, <1>a, <1>c, <2>b DEF LockedWhileInside, Users, InNotify
    <2>f. QueueOfLocking'
      BY <1>2, <2>b DEF QueueOfLocking, Users
    <2>d. n \in Users \cup {Null} /\ pc[n] # "woken" /\ pc'[n] = "unlocking"
      BY <2>b DEF Users
    <2>e. \A x \in Waiters : tail'[x] = "none"
      BY <1>c
    <2>3. OneGuest'
      <3>. HIDE <1>0 DEF CVInv
      <3>1. n \in Users \cup {Null} /\ pc[v] = "locking" /\ pc'[v] = "testing"
        BY <2>0, <2>b, <2>d
      <3>2. n # Null => pc[n] # "woken" /\ pc'[n] = "unlocking"
        BY <2>d
      <3>3. host' = [host EXCEPT ![v] = n]
        BY <2>0
      <3>4. n # Null => \A x \in Waiters : host[x] # n
        BY <1>b
      <3>5. \A x \in Users : x # v /\ x # n => pc'[x] = pc[x]
        BY <2>b
      <3>. QED
        BY <2>e, <3>1, <3>2, <3>3, <3>4, <3>5, NewGuest, ZenonT(60)
    <2>4. FramesOwned'
      <3>1. /\ frame'[v] = Null /\ pc'[v] = "testing"
            /\ \A x \in Waiters \ {v} : frame'[x] = frame[x] /\ pc'[x] = pc[x]
        BY <2>0, <2>b DEF TypeOK, Users
      <3>2. continuation_' = continuation_
        BY DEF Finish
      <3>. QED
        BY <3>1, <3>2 DEF FramesOwned
    <2>5. Lists' /\ Covered' /\ Walk' /\ Counts'
      <3>1. ASSUME NEW x \in Waiters
            PROVE  /\ pc'[x] = "waiting" <=> pc[x] = "waiting"
                   /\ pc[x] = "waiting" => frame'[x] = frame[x]
        BY <2>0, <2>b DEF TypeOK, Users
      <3>2. ASSUME NEW m \in Notifiers
            PROVE  /\ \/ pc'[m] = pc[m]
                      \/ {pc[m], pc'[m]} \subseteq {"notified", "unlocking", "ending"}
                   /\ pc[m] \notin {"resuming", "advance"}
        BY <1>a, <2>0, <2>b DEF InNotify, Users
      <3>. HIDE DEF CVInv
      <3>. QED
        BY <3>1, <3>2, ListsStay
    <2>. QED
      BY <2>1, <2>2, <2>f, <2>3, <2>4, <2>5
  <1>3. ASSUME NEW v \in Notifiers,
               pc[v] = "locking", owner' = v, queue' \in Seq(Users),
               \A i \in 1..Len(queue') : queue'[i] \in Users \ {v} /\ pc[queue'[i]] = "locking",
               \A i, j \in 1..Len(queue') : queue'[i] = queue'[j] => i = j,
               pc' = [after EXCEPT ![v] = "notifying"],
               host' = host, frame' = frame
        PROVE  CVInv'
    <2>. USE <1>0
    <2>0. /\ pc[v] = "locking" /\ owner' = v
          /\ pc' = [after EXCEPT ![v] = "notifying"]
          /\ host' = host /\ frame' = frame
          /\ v \in Users /\ v # n
      BY <1>3 DEF Users
    <2>a. /\ pc' \in [Users -> WaiterPlaces \cup NotifierPlaces]
          /\ \A x \in Waiters : pc'[x] \in WaiterPlaces
          /\ \A x \in Notifiers : pc'[x] \in NotifierPlaces
      BY <2>0, PlacesOf DEF Users, WaiterPlaces, NotifierPlaces
    <2>b. /\ \A x \in Users : x # v /\ x # n => pc'[x] = pc[x]
          /\ pc'[v] = "notifying" /\ pc'[n] = "ending" /\ v # n
      BY <2>0, PlacesOf DEF Users
    <2>1. TypeOK' /\ Shapes'
      BY <1>3, <2>a, TypesKept DEF TypeOK, Shapes, Users
    <2>2. LockedWhileInside' /\ QueueOfLocking'
      BY <1>3, <1>a, <1>c, <2>b DEF LockedWhileInside, QueueOfLocking, Users, InNotify
    <2>3. OneGuest' /\ FramesOwned'
      <3>1. ASSUME NEW x \in Waiters PROVE Hosted(x)'
        <4>1. pc'[x] = pc[x] /\ host'[x] = host[x] /\ tail'[x] = "none"
          BY <1>c, <2>0, <2>b DEF Users
        <4>2. host[x] # Null => host[x] \in Users /\ pc[host[x]] \in {"unlocking", "resuming"}
          BY DEF OneGuest, Hosted, TypeOK
        <4>3. host[x] # Null => pc'[host[x]] = pc[host[x]]
          BY <1>b, <2>0, <2>b, <4>2
        <4>. QED
          BY <4>1, <4>3 DEF OneGuest, Hosted, Users
      <3>2. ASSUME NEW x \in Waiters, NEW y \in Waiters PROVE Apart(x, y)'
        BY <1>b, <2>0 DEF OneGuest, Apart, TypeOK, Users
      <3>3. FramesOwned'
        BY <2>0, <2>b DEF FramesOwned, Users
      <3>. QED
        BY <3>1, <3>2, <3>3 DEF OneGuest
    <2>4. Lists' /\ Covered' /\ Walk' /\ Counts'
      BY <1>a, <2>0, <2>b, ListsStay DEF InNotify, Users
    <2>. QED
      BY <2>1, <2>2, <2>3, <2>4
  <1>. HIDE DEF CVInv, after, during
  <1>. QED
    BY <1>0, <1>1, <1>2, <1>3, CVQueue, Unlocking

\* A free mutex is never met in Wait(): the notifier that resumes the coroutine
\* owns it.
LEMMA LockFreeCV ==
  ASSUME HoldLock, ~SlotReused, CVInv, NEW w \in Waiters, LockFree(w)
  PROVE  CVInv'
  <1>. USE Distinct DEF CVInv
  <1>0. /\ pc[w] \in {"idle", "woken"}
        /\ owner = Null /\ owner' = w /\ queue' = queue
        /\ pc' = [pc EXCEPT ![w] = "testing"]
        /\ frame' = [frame EXCEPT ![w] = Null]
        /\ UNCHANGED <<awaiter_, next_, continuation_, flag, host, tail, notifyVars>>
    BY DEF LockFree, LinksAtLock, Acquire
  <1>. USE <1>0
  <1>a. /\ \A n \in Notifiers : pc[n] \notin InNotify
        /\ \A x \in Waiters : tail[x] = "none" /\ pc[x] \notin {"testing", "pushing"}
    BY OneInside
  <1>b. pc[w] = "idle" /\ host[w] = Null
    BY <1>a DEF OneGuest, Hosted, InNotify
  <1>c. /\ \A x \in Users : x # w => pc'[x] = pc[x]
        /\ pc'[w] = "testing"
    BY PlacesOf DEF Users
  <1>d. /\ pc' \in [Users -> WaiterPlaces \cup NotifierPlaces]
        /\ \A x \in Waiters : pc'[x] \in WaiterPlaces
        /\ \A x \in Notifiers : pc'[x] \in NotifierPlaces
    BY PlacesOf DEF Users, WaiterPlaces, NotifierPlaces
  <1>1. TypeOK' /\ Shapes'
    BY <1>d, TypesKept DEF TypeOK, Shapes, Users, Link
  <1>2. LockedWhileInside' /\ QueueOfLocking'
    BY <1>a, <1>b, <1>c DEF LockedWhileInside, QueueOfLocking, TypeOK, Users, InNotify
  <1>3. OneGuest'
    BY <1>a, <1>b, <1>c DEF OneGuest, Hosted, Apart, TypeOK, Users
  <1>4. FramesOwned'
    BY <1>b, <1>c DEF FramesOwned, TypeOK, Users
  <1>5. Lists' /\ Covered' /\ Walk' /\ Counts'
    BY <1>a, <1>b, <1>c, ListsStay DEF InNotify, TypeOK, Users
  <1>. QED
    BY <1>1, <1>2, <1>3, <1>4, <1>5

\* A coroutine that was resumed in Wait() stops here, with its frame, and
\* Notify() goes on.
LEMMA LockHeldCV ==
  ASSUME HoldLock, ~SlotReused, CVInv, NEW w \in Waiters, LockHeld(w)
  PROVE  CVInv'
  <1>. USE Distinct DEF CVInv
  <1>. DEFINE h == host[w]
  <1>0. /\ pc[w] \in {"idle", "woken"}
        /\ Enqueue(w)
        /\ pc' = BackTo(h, [pc EXCEPT ![w] = "locking"])
        /\ host' = [host EXCEPT ![w] = Null]
        /\ UNCHANGED <<awaiter_, next_, continuation_, frame, flag, tail, notifyVars>>
    BY DEF LockHeld, LinksAtLock
  <1>a. /\ pc[w] = "idle" => h = Null
        /\ pc[w] = "woken" => h \in Notifiers /\ pc[h] = "resuming"
        /\ tail[w] = "none"
    BY <1>0 DEF OneGuest, Hosted
  <1>b. /\ \A x \in Users : x # w /\ x # h => pc'[x] = pc[x]
        /\ pc'[w] = "locking"
        /\ h # Null => pc'[h] = "advance" /\ h # w
    BY <1>0, <1>a, PlacesOf DEF BackTo, Returned, Users
  <1>c. /\ pc' \in [Users -> WaiterPlaces \cup NotifierPlaces]
        /\ \A x \in Waiters : pc'[x] \in WaiterPlaces
        /\ \A x \in Notifiers : pc'[x] \in NotifierPlaces
    BY <1>0, <1>a, PlacesOf DEF BackTo, Returned, Users, WaiterPlaces, NotifierPlaces
  <1>d. /\ host' \in [Waiters -> Users \cup {Null}]
        /\ host'[w] = Null
        /\ \A x \in Waiters : x # w => host'[x] = host[x]
        /\ \A x \in Waiters : host[x] \in Users \cup {Null}
    BY <1>0 DEF TypeOK
  <1>e. /\ queue' \in Seq(Users)
        /\ owner' = owner
        /\ \A i \in 1..Len(queue') : queue'[i] = w \/ (queue'[i] \in Users /\ pc[queue'[i]] = "locking")
        /\ \A i, j \in 1..Len(queue') : queue'[i] = queue'[j] => i = j
    BY <1>0, CVQueue, QueueGrows DEF Users
  <1>f. /\ \A x \in Waiters : x # w /\ host[x] # Null => host[x] # h /\ host[x] # w
        /\ \A x \in Waiters : tail[x] \notin {"none", Null} => tail[x] # h /\ tail[x] # w
    BY <1>0, <1>a DEF OneGuest, Hosted, Apart, Users
  <1>. HIDE DEF h
  <1>1. TypeOK' /\ Shapes'
    BY <1>0, <1>c, <1>d, <1>e, TypesKept DEF TypeOK, Shapes
  <1>2. LockedWhileInside'
    BY <1>0, <1>a, <1>b, <1>e DEF LockedWhileInside, Users, InNotify
  <1>3. QueueOfLocking'
    <2>1. ASSUME NEW x \in Users, x = w \/ pc[x] = "locking" PROVE pc'[x] = "locking"
      <3>. HIDE DEF CVInv
      <3>1. CASE x = w
        BY <1>b, <3>1
      <3>2. CASE x # w
        <4>1. h # Null => pc[h] = "resuming"
          BY <1>0, <1>a
        <4>2. x # Null
          BY DEF Users
        <4>. QED
          BY <1>b, <2>1, <3>2, <4>1, <4>2
      <3>. QED
        BY <3>1, <3>2
    <2>2. w \in Users
      BY DEF Users
    <2>3. \A i \in 1..Len(queue') : pc'[queue'[i]] = "locking"
      <3>. HIDE DEF CVInv
      <3>. QED
        BY <1>e, <2>1, <2>2
    <2>. QED
      BY <1>e, <2>3 DEF QueueOfLocking
  <1>4. OneGuest'
    <2>1. ASSUME NEW x \in Waiters PROVE Hosted(x)'
      <3>1. CASE x = w
        BY <1>0, <1>a, <1>b, <1>d, <3>1 DEF Hosted
      <3>2. CASE x # w
        <4>1. pc'[x] = pc[x] /\ host'[x] = host[x] /\ tail'[x] = tail[x]
          BY <1>0, <1>a, <1>b, <1>d, <3>2 DEF Users
        <4>2. host[x] # Null => pc'[host[x]] = pc[host[x]]
          BY <1>b, <1>d, <1>f, <3>2
        <4>3. tail[x] \notin {"none", Null} => pc'[tail[x]] = pc[tail[x]]
          BY <1>b, <1>f DEF TypeOK
        <4>. QED
          BY <4>1, <4>2, <4>3 DEF OneGuest, Hosted, Users
      <3>. QED
        BY <3>1, <3>2
    <2>2. ASSUME NEW x \in Waiters, NEW y \in Waiters PROVE Apart(x, y)'
      BY <1>0, <1>d DEF OneGuest, Apart
    <2>. QED
      BY <2>1, <2>2 DEF OneGuest
  <1>5. FramesOwned'
    BY <1>0, <1>a, <1>b DEF FramesOwned, Users
  <1>6. Lists' /\ Covered' /\ Walk' /\ Counts'
    <2>1. \A x \in Waiters : pc'[x] = "waiting" <=> pc[x] = "waiting"
      BY <1>0, <1>a, <1>b DEF Users
    <2>a. ASSUME NEW n \in Notifiers, pc[n] \in {"resuming", "advance"}
          PROVE  continuation_[head[n]] \in Waiters
      BY <2>a DEF Walk, TypeOK
    <2>2. ASSUME NEW n \in Notifiers
          PROVE  \/ pc'[n] = pc[n]
                 \/ /\ pc[n] = "resuming" /\ pc'[n] = "advance"
                    /\ pc'[continuation_[head[n]]] = "locking"
      <3>1. CASE n = h
        <4>1. /\ host[w] = n /\ pc[n] = "resuming"
          BY <1>0, <1>a, <3>1, PlacesOf DEF h, Users
        <4>2. continuation_[head[n]] = w
          BY <2>a, <4>1 DEF Walk, OneGuest, Apart, Users
        <4>. QED
          BY <1>b, <3>1, <4>1, <4>2 DEF Users
      <3>2. CASE n # h
        BY <1>b, <3>2 DEF Users
      <3>. QED
        BY <3>1, <3>2
    <2>3. ASSUME NEW n \in Notifiers, pc[n] \in {"resuming", "advance"}, pc'[n] = pc[n]
          PROVE  /\ pc'[continuation_[head[n]]] = pc[continuation_[head[n]]]
                 /\ host'[continuation_[head[n]]] = host[continuation_[head[n]]]
      <3>. DEFINE v == continuation_[head[n]]
      <3>a. v \in Waiters
        BY <2>a, <2>3
      <3>b. h \notin Waiters
        BY <1>0, <1>a
      <3>1. v \in Waiters /\ v # h
        BY <3>a, <3>b
      <3>2. v # w
        <4>1. CASE pc[n] = "resuming"
          BY <1>a, <1>b, <2>3, <4>1 DEF Walk, h, Users
        <4>2. CASE pc[n] = "advance"
          BY <1>0, <4>2 DEF Walk
        <4>. QED
          BY <2>3, <4>1, <4>2
      <3>. QED
        BY <1>b, <1>d, <3>1, <3>2 DEF Users
    <2>. QED
      BY <1>0, <2>1, <2>2, <2>3, ListsStay
  <1>. QED
    BY <1>1, <1>2, <1>3, <1>4, <1>5, <1>6

\* A coroutine that ends gives its stack back to the Unlock() that runs it.
LEMMA EndCV == ASSUME HoldLock, CVInv, NEW w \in Waiters, End(w) PROVE CVInv'
  <1>. USE Distinct DEF CVInv
  <1>. DEFINE h == host[w]
  <1>0. /\ pc[w] = "ending"
        /\ pc' = BackTo(h, [pc EXCEPT ![w] = "idle"])
        /\ host' = [host EXCEPT ![w] = Null]
        /\ UNCHANGED <<owner, queue, awaiter_, next_, continuation_, frame, flag, tail, notifyVars>>
    BY DEF End
  <1>a. /\ h # Null => pc[h] = "unlocking" /\ h # w
        /\ h \in Users \cup {Null}
        /\ tail[w] = "none"
    BY <1>0 DEF OneGuest, Hosted, TypeOK
  <1>b. /\ \A x \in Users : x # w /\ x # h => pc'[x] = pc[x]
        /\ pc'[w] = "idle"
        /\ h # Null => pc'[h] = "ending"
    BY <1>0, <1>a, PlacesOf DEF BackTo, Returned, Users
  <1>c. /\ pc' \in [Users -> WaiterPlaces \cup NotifierPlaces]
        /\ \A x \in Waiters : pc'[x] \in WaiterPlaces
        /\ \A x \in Notifiers : pc'[x] \in NotifierPlaces
    BY <1>0, <1>a, PlacesOf DEF BackTo, Returned, Users, WaiterPlaces, NotifierPlaces
  <1>d. /\ host' \in [Waiters -> Users \cup {Null}]
        /\ host'[w] = Null
        /\ \A x \in Waiters : x # w => host'[x] = host[x]
        /\ \A x \in Waiters : host[x] \in Users \cup {Null}
    BY <1>0 DEF TypeOK
  <1>f. /\ \A x \in Waiters : x # w /\ host[x] # Null => host[x] # h /\ host[x] # w
        /\ \A x \in Waiters : tail[x] \notin {"none", Null} => tail[x] # h /\ tail[x] # w
    BY <1>0, <1>a DEF OneGuest, Hosted, Apart, Users
  <1>. HIDE DEF h
  <1>1. TypeOK' /\ Shapes'
    BY <1>0, <1>c, <1>d, TypesKept DEF TypeOK, Shapes
  <1>2. LockedWhileInside'
    BY <1>0, <1>a, <1>b DEF LockedWhileInside, Users, InNotify
  <1>3. QueueOfLocking'
    <2>1. \A i \in 1..Len(queue) : queue[i] \in Users /\ pc[queue[i]] = "locking"
      BY DEF TypeOK, QueueOfLocking
    <2>2. \A x \in Users : pc[x] = "locking" => pc'[x] = "locking"
      <3>1. Null \notin Users
        BY DEF Users
      <3>. QED
        BY <1>0, <1>a, <1>b, <3>1
    <2>. QED
      BY <1>0, <2>1, <2>2 DEF QueueOfLocking
  <1>4. OneGuest'
    <2>1. ASSUME NEW x \in Waiters PROVE Hosted(x)'
      <3>1. CASE x = w
        BY <1>0, <1>a, <1>b, <1>d, <3>1 DEF Hosted
      <3>2. CASE x = h /\ x # w
        <4>1. /\ pc[x] = "unlocking" /\ pc'[x] = "ending" /\ host'[x] = host[x]
              /\ tail'[x] = tail[x] /\ tail[x] = "none"
          BY <1>0, <1>a, <1>b, <1>d, <3>2 DEF OneGuest, Hosted, Users
        <4>2. host[x] # Null => pc'[host[x]] = pc[host[x]]
          BY <1>b, <1>d, <1>f, <3>2
        <4>. QED
          BY <4>1, <4>2 DEF OneGuest, Hosted
      <3>3. CASE x # w /\ x # h
        <4>1. pc'[x] = pc[x] /\ host'[x] = host[x] /\ tail'[x] = tail[x]
          BY <1>0, <1>a, <1>b, <1>d, <3>3 DEF Users
        <4>2. host[x] # Null => pc'[host[x]] = pc[host[x]]
          BY <1>b, <1>d, <1>f, <3>3
        <4>3. tail[x] \notin {"none", Null} => pc'[tail[x]] = pc[tail[x]]
          BY <1>b, <1>f DEF TypeOK
        <4>. QED
          BY <4>1, <4>2, <4>3 DEF OneGuest, Hosted, Users
      <3>. QED
        BY <3>1, <3>2, <3>3
    <2>2. ASSUME NEW x \in Waiters, NEW y \in Waiters PROVE Apart(x, y)'
      BY <1>0, <1>d DEF OneGuest, Apart
    <2>. QED
      BY <2>1, <2>2 DEF OneGuest
  <1>5. FramesOwned'
    BY <1>0, <1>a, <1>b DEF FramesOwned, Users
  <1>6. Lists' /\ Covered' /\ Walk' /\ Counts'
    <2>1. \A x \in Waiters : pc'[x] = "waiting" <=> pc[x] = "waiting"
      BY <1>0, <1>a, <1>b DEF Users
    <2>2. \A n \in Notifiers : \/ pc'[n] = pc[n]
                               \/ pc[n] = "unlocking" /\ pc'[n] = "ending"
      BY <1>0, <1>a, <1>b DEF Users
    <2>3. ASSUME NEW n \in Notifiers, pc[n] \in {"resuming", "advance"}
          PROVE  /\ pc'[continuation_[head[n]]] = pc[continuation_[head[n]]]
                 /\ host'[continuation_[head[n]]] = host[continuation_[head[n]]]
      <3>1. continuation_[head[n]] \in Waiters
        BY <2>3 DEF Walk, TypeOK
      <3>2. pc[continuation_[head[n]]] \in {"woken", "locking"}
        BY <2>3 DEF Walk
      <3>. QED
        BY <1>0, <1>a, <1>b, <1>d, <3>1, <3>2 DEF Users
    <2>. QED
      BY <1>0, <2>1, <2>2, <2>3, ListsStay
  <1>. QED
    BY <1>1, <1>2, <1>3, <1>4, <1>5, <1>6

\* A notifier enters Notify() as the owner of the mutex.
LEMMA BeginCV == ASSUME HoldLock, CVInv, NEW n \in Notifiers, Begin(n) PROVE CVInv'
  <1>. USE Distinct DEF CVInv
  <1>0. /\ pc[n] = "idle"
        /\ \/ owner = Null /\ owner' = n /\ queue' = queue /\ pc' = [pc EXCEPT ![n] = "notifying"]
           \/ Enqueue(n) /\ pc' = [pc EXCEPT ![n] = "locking"]
        /\ UNCHANGED <<awaiter_, next_, continuation_, frame, flag, host, tail, notifyVars>>
    BY DEF Begin, Acquire
  <1>a. /\ \A x \in Users : x # n => pc'[x] = pc[x]
        /\ \/ pc'[n] = "notifying" /\ owner = Null /\ owner' = n /\ queue' = queue
           \/ pc'[n] = "locking" /\ Enqueue(n)
    BY <1>0, PlacesOf DEF Users
  <1>b. /\ pc' \in [Users -> WaiterPlaces \cup NotifierPlaces]
        /\ \A x \in Waiters : pc'[x] \in WaiterPlaces
        /\ \A x \in Notifiers : pc'[x] \in NotifierPlaces
    BY <1>0, PlacesOf DEF Users, WaiterPlaces, NotifierPlaces
  <1>c. Enqueue(n) =>
        /\ queue' \in Seq(Users)
        /\ owner' = owner
        /\ \A i \in 1..Len(queue') : queue'[i] = n \/ (queue'[i] \in Users /\ pc[queue'[i]] = "locking")
        /\ \A i, j \in 1..Len(queue') : queue'[i] = queue'[j] => i = j
    BY <1>0, CVQueue, QueueGrows DEF Users
  <1>1. TypeOK' /\ Shapes'
    BY <1>0, <1>a, <1>b, <1>c, TypesKept DEF TypeOK, Shapes, Users
  <1>2. LockedWhileInside'
    BY <1>0, <1>a, <1>c, OneInside DEF LockedWhileInside, Users, InNotify
  <1>3. QueueOfLocking'
    <2>1. \A i \in 1..Len(queue) : queue[i] \in Users
      BY DEF TypeOK
    <2>2. CASE queue' = queue
      BY <1>0, <1>a, <2>1, <2>2 DEF QueueOfLocking
    <2>3. CASE pc'[n] = "locking" /\ Enqueue(n)
      BY <1>0, <1>a, <1>c, <2>3 DEF QueueOfLocking
    <2>. QED
      BY <1>a, <2>2, <2>3
  <1>4. OneGuest'
    <2>1. ASSUME NEW x \in Waiters PROVE Hosted(x)'
      <3>1. /\ pc'[x] = pc[x] /\ host[x] # n /\ tail[x] # n
            /\ host[x] \in Users \cup {Null} /\ tail[x] \in Users \cup {Null, "none"}
        BY <1>0, <1>a DEF OneGuest, Hosted, TypeOK, Users
      <3>. QED
        BY <1>0, <1>a, <3>1 DEF OneGuest, Hosted, Users
    <2>2. ASSUME NEW x \in Waiters, NEW y \in Waiters PROVE Apart(x, y)'
      BY <1>0 DEF OneGuest, Apart
    <2>. QED
      BY <2>1, <2>2 DEF OneGuest
  <1>5. FramesOwned'
    BY <1>0, <1>a DEF FramesOwned, Users
  <1>6. Lists' /\ Covered' /\ Walk' /\ Counts'
    <2>1. \A x \in Waiters : pc'[x] = pc[x]
      BY <1>a DEF Users
    <2>2. \A m \in Notifiers : \/ pc'[m] = pc[m]
                               \/ {pc[m], pc'[m]} \subseteq {"idle", "locking", "notifying"}
      BY <1>0, <1>a DEF Users
    <2>3. \A m \in Notifiers : pc[m] \in {"resuming", "advance"} => continuation_[head[m]] \in Waiters
      BY DEF Walk, TypeOK
    <2>. QED
      BY <1>0, <2>1, <2>2, <2>3, ListsStay
  <1>. QED
    BY <1>1, <1>2, <1>3, <1>4, <1>5, <1>6

-----------------------------------------------------------------------------
(* The list of awaiters.                                                   *)

\* The mutex and the stacks do not care for a step of u alone, when u neither
\* is in the queue nor hosts anybody.
LEMMA StacksStay ==
  ASSUME CVInv, NEW u \in Users,
         UNCHANGED <<owner, queue, host, tail>>,
         \A x \in Users : x # u => pc'[x] = pc[x],
         \/ u \in Waiters /\ pc[u] = "testing" /\ pc'[u] = "pushing"
         \/ /\ u \in Notifiers
            /\ pc[u] \notin {"locking", "unlocking", "resuming"}
            /\ pc'[u] \in InNotify => owner = u
  PROVE  LockedWhileInside' /\ QueueOfLocking' /\ OneGuest'
  <1>. USE Distinct DEF CVInv
  <1>1. LockedWhileInside'
    BY DEF LockedWhileInside, Users, InNotify
  <1>2. QueueOfLocking'
    <2>1. \A i \in 1..Len(queue) : queue[i] \in Users /\ pc[queue[i]] = "locking"
      BY DEF TypeOK, QueueOfLocking
    <2>2. \A x \in Users : pc[x] = "locking" => pc'[x] = "locking"
      OBVIOUS
    <2>. QED
      BY <2>1, <2>2 DEF QueueOfLocking
  <1>3. ASSUME NEW x \in Waiters PROVE Hosted(x)'
    <2>1. /\ host[x] # u /\ tail[x] # u
          /\ host[x] \in Users \cup {Null} /\ tail[x] \in Users \cup {Null, "none"}
      BY DEF OneGuest, Hosted, TypeOK, Users
    <2>2. /\ pc'[x] = pc[x] \/ x = u
          /\ host[x] # Null => pc'[host[x]] = pc[host[x]]
          /\ tail[x] \notin {"none", Null} => pc'[tail[x]] = pc[tail[x]]
      BY <2>1 DEF Users
    <2>3. CASE x = u
      BY <2>2, <2>3 DEF OneGuest, Hosted
    <2>4. CASE x # u
      BY <2>2, <2>4 DEF OneGuest, Hosted, Users
    <2>. QED
      BY <2>3, <2>4
  <1>4. ASSUME NEW x \in Waiters, NEW y \in Waiters PROVE Apart(x, y)'
    BY DEF OneGuest, Apart
  <1>. QED
    BY <1>1, <1>2, <1>3, <1>4 DEF OneGuest

\* The links of a frame outside a good list may change.
LEMMA ListAside ==
  ASSUME CVInv, NEW f \in Frames, NEW start \in Link, NEW g \in Link,
         f \notin Chain(next_, start), next_' = [next_ EXCEPT ![f] = g]
  PROVE  /\ next_' \in [Frames -> Link]
         /\ Chain(next_', start) = Chain(next_, start)
         /\ \A h \in Chain(next_, start) :
              /\ next_'[h] = next_[h]
              /\ Chain(next_', next_'[h]) = Chain(next_, next_[h])
  <1>1. next_ \in [Frames -> Link] /\ next_' \in [Frames -> Link]
    BY DEF CVInv, TypeOK
  <1>2. Chain(next_, start) \in SUBSET Frames
    BY <1>1, ChainIsClosed
  <1>a. \A k \in Chain(next_, start) : next_'[k] = next_[k]
    BY <1>1, <1>2
  <1>3. Chain(next_', start) = Chain(next_, start)
    BY <1>1, <1>a, ChainKept
  <1>4. ASSUME NEW h \in Chain(next_, start)
        PROVE  /\ next_'[h] = next_[h]
               /\ Chain(next_', next_'[h]) = Chain(next_, next_[h])
    <2>1. h \in Frames /\ next_[h] \in Link /\ next_'[h] = next_[h]
      BY <1>1, <1>2
    <2>2. Chain(next_, next_[h]) \subseteq Chain(next_, start)
      BY <1>1, ChainOfRest
    <2>3. \A k \in Chain(next_, next_[h]) : next_'[k] = next_[k]
      BY <1>1, <1>2, <2>2
    <2>. QED
      BY <1>1, <2>1, <2>3, ChainKept
  <1>. QED
    BY <1>1, <1>3, <1>4

\* While a waiter is inside, no Notify() has taken anything.
LEMMA NothingTaken ==
  ASSUME CVInv, \A n \in Notifiers : pc[n] \notin InNotify
  PROVE  \A n \in Notifiers : First(n) = Null /\ Pending(n) = {}
  BY ChainOfNull DEF InNotify, First, Pending

LEMMA WaitCV == ASSUME HoldLock, CVInv, NEW w \in Waiters, Wait(w) PROVE CVInv'
  <1>. USE Distinct DEF CVInv
  <1>0. PICK f \in FreeFrames :
          /\ frame' = [frame EXCEPT ![w] = f]
          /\ continuation_' = [continuation_ EXCEPT ![f] = w]
          /\ next_' = [next_ EXCEPT ![f] = awaiter_]
    BY DEF Wait
  <1>1. /\ pc[w] = "testing" /\ pc' = [pc EXCEPT ![w] = "pushing"]
        /\ UNCHANGED <<owner, queue, awaiter_, flag, host, tail, notifyVars>>
    BY DEF Wait
  <1>a. /\ f \in Frames /\ f # Null
        /\ \A x \in Waiters : frame[x] # f
    BY DEF FreeFrames
  <1>b. /\ \A x \in Users : x # w => pc'[x] = pc[x]
        /\ pc'[w] = "pushing"
    BY <1>1, PlacesOf DEF Users
  <1>c. owner = w /\ \A n \in Notifiers : pc[n] \notin InNotify /\ pc'[n] = pc[n]
    BY <1>1, <1>b, OneInside DEF LockedWhileInside, Users
  <1>2. TypeOK' /\ Shapes'
    <2>1. /\ pc' \in [Users -> WaiterPlaces \cup NotifierPlaces]
          /\ \A x \in Waiters : pc'[x] \in WaiterPlaces
          /\ \A x \in Notifiers : pc'[x] \in NotifierPlaces
      BY <1>1, PlacesOf DEF Users, WaiterPlaces, NotifierPlaces
    <2>2. /\ frame' \in [Waiters -> Link]
          /\ continuation_' \in [Frames -> Waiters \cup {Null}]
          /\ next_' \in [Frames -> Link]
      BY <1>0, <1>a DEF TypeOK, Link
    <2>. QED
      BY <1>1, <2>1, <2>2 DEF TypeOK, Shapes, WaiterPlaces, NotifierPlaces, notifyVars
  <1>3. LockedWhileInside' /\ QueueOfLocking' /\ OneGuest'
    BY <1>1, <1>b, StacksStay DEF Users
  <1>4. FramesOwned'
    <2>1. /\ \A x \in Waiters : x # w => frame'[x] = frame[x] /\ frame[x] # f
          /\ frame'[w] = f
          /\ continuation_'[f] = w
          /\ \A g \in Frames : g # f => continuation_'[g] = continuation_[g]
          /\ \A x \in Waiters : frame[x] # Null => frame[x] \in Frames
      BY <1>0, <1>a DEF TypeOK, Link
    <2>. QED
      BY <1>a, <1>b, <2>1 DEF FramesOwned, Users
  <1>5. f \notin Chain(next_, awaiter_)
    BY <1>a DEF Lists, GoodList, Waits
  <1>6. /\ Chain(next_', awaiter_) = Chain(next_, awaiter_)
        /\ \A h \in Chain(next_, awaiter_) : Chain(next_', next_'[h]) = Chain(next_, next_[h])
    BY <1>0, <1>a, <1>5, ListAside DEF TypeOK
  <1>7. ASSUME NEW g \in Chain(next_, awaiter_) PROVE Waits(g)'
    <2>1. Waits(g) /\ g # f
      BY <1>5 DEF Lists, GoodList
    <2>2. /\ continuation_'[g] = continuation_[g] /\ continuation_[g] \in Waiters
          /\ continuation_[g] # w
      BY <1>0, <1>1, <2>1 DEF Waits, TypeOK
    <2>. QED
      BY <1>0, <1>b, <2>1, <2>2 DEF Waits, TypeOK, Users
  <1>8. \A n \in Notifiers : First(n)' = Null /\ Pending(n)' = {}
    BY <1>c, ChainOfNull DEF First, Pending, InNotify
  <1>9. Lists'
    BY <1>1, <1>6, <1>7, <1>8 DEF Lists, GoodList
  <1>10. Covered'
    <2>1. \A n \in Notifiers : Pending(n) = {}
      BY <1>c, NothingTaken
    <2>2. ASSUME NEW x \in Waiters, pc'[x] = "waiting" PROVE frame'[x] \in Chain(next_, awaiter_)
      BY <1>0, <1>b, <2>1, <2>2 DEF Covered, TypeOK, Users
    <2>. QED
      BY <1>1, <1>6, <2>2 DEF Covered
  <1>11. Walk'
    BY <1>c DEF Walk, Walking, InNotify
  <1>12. Counts'
    BY <1>1, <1>c DEF Counts, notifyVars
  <1>. QED
    BY <1>2, <1>3, <1>4, <1>9, <1>10, <1>11, <1>12

\* The exchange succeeds when the link of the new frame is the head of the
\* list; else the link is reloaded.
LEMMA PushCV == ASSUME HoldLock, CVInv, NEW w \in Waiters, Push(w) PROVE CVInv'
  <1>. USE Distinct DEF CVInv
  <1>. DEFINE f == frame[w]
  <1>0. /\ pc[w] = "pushing"
        /\ UNCHANGED <<owner, queue, continuation_, frame, flag, notifyVars>>
    BY DEF Push
  <1>a. /\ f \in Frames /\ f # Null
        /\ continuation_[f] = w
        /\ ~Waits(f)
    BY <1>0 DEF FramesOwned, TypeOK, Link, Waits
  <1>b. owner = w /\ \A n \in Notifiers : pc[n] \notin InNotify
    BY <1>0, OneInside DEF LockedWhileInside, Users
  <1>c. f \notin Chain(next_, awaiter_)
    BY <1>a DEF Lists, GoodList
  <1>d. next_ \in [Frames -> Link] /\ awaiter_ \in Link
    BY DEF TypeOK
  <1>e. \A n \in Notifiers : Pending(n) = {}
    BY <1>b, NothingTaken
  <1>1. CASE awaiter_ = next_[f]
    <2>0. /\ awaiter_' = f
          /\ pc' = [pc EXCEPT ![w] = "waiting"]
          /\ tail' = [tail EXCEPT ![w] = host[w]]
          /\ host' = [host EXCEPT ![w] = Null]
          /\ next_' = next_
      BY <1>1 DEF Push
    <2>a. /\ \A x \in Users : x # w => pc'[x] = pc[x]
          /\ pc'[w] = "waiting"
      BY <2>0, PlacesOf DEF Users
    <2>b. /\ \A x \in Waiters : x # w => tail'[x] = tail[x] /\ tail[x] = "none" /\ host'[x] = host[x]
          /\ tail'[w] = host[w] /\ host'[w] = Null
          /\ host[w] # Null => pc[host[w]] = "unlocking" /\ host[w] # w
      BY <1>0, <2>0, OneInside DEF OneGuest, Hosted, TypeOK, Shapes
    <2>1. TypeOK' /\ Shapes'
      <3>1. /\ pc' \in [Users -> WaiterPlaces \cup NotifierPlaces]
            /\ \A x \in Waiters : pc'[x] \in WaiterPlaces
            /\ \A x \in Notifiers : pc'[x] \in NotifierPlaces
        BY <2>0, PlacesOf DEF Users, WaiterPlaces, NotifierPlaces
      <3>2. /\ host' \in [Waiters -> Users \cup {Null}]
            /\ tail' \in [Waiters -> Users \cup {Null, "none"}]
            /\ awaiter_' \in Link
        BY <1>a, <2>0 DEF TypeOK, Shapes, Link
      <3>. QED
        BY <1>0, <2>0, <3>1, <3>2 DEF TypeOK, Shapes, WaiterPlaces, NotifierPlaces, notifyVars
    <2>2. LockedWhileInside'
      BY <1>0, <1>b, <2>a, <2>b DEF LockedWhileInside, Users, InNotify
    <2>3. QueueOfLocking'
      <3>1. \A i \in 1..Len(queue) : queue[i] \in Users /\ pc[queue[i]] = "locking"
        BY DEF TypeOK, QueueOfLocking
      <3>2. \A x \in Users : pc[x] = "locking" => pc'[x] = "locking"
        BY <1>0, <2>a
      <3>. QED
        BY <1>0, <3>1, <3>2 DEF QueueOfLocking
    <2>4. OneGuest'
      <3>1. ASSUME NEW x \in Waiters PROVE Hosted(x)'
        <4>1. \A y \in Waiters : host[y] # w /\ (host[y] # Null => host[y] \in Users)
          BY <1>0 DEF OneGuest, Hosted, TypeOK, Users
        <4>2. \A y \in Waiters : host[y] # Null => pc'[host[y]] = pc[host[y]]
          BY <2>a, <4>1
        <4>3. CASE x = w
          BY <2>a, <2>b, <4>2, <4>3 DEF Hosted
        <4>4. CASE x # w
          <5>1. pc'[x] = pc[x] /\ host'[x] = host[x] /\ tail'[x] = "none"
            BY <2>a, <2>b, <4>4 DEF Users
          <5>. QED
            BY <4>2, <5>1 DEF OneGuest, Hosted, Users
        <4>. QED
          BY <4>3, <4>4
      <3>2. ASSUME NEW x \in Waiters, NEW y \in Waiters PROVE Apart(x, y)'
        <4>1. host'[x] # Null => host'[x] # "none"
          BY <2>b DEF TypeOK, Users
        <4>. QED
          BY <2>b, <4>1 DEF OneGuest, Apart
      <3>. QED
        BY <3>1, <3>2 DEF OneGuest
    <2>5. FramesOwned'
      BY <1>0, <2>a DEF FramesOwned, Users
    <2>6. Chain(next_, f) = {f} \cup Chain(next_, awaiter_)
      BY <1>1, <1>a, <1>d, ChainUnfolds
    <2>7. \A n \in Notifiers : Pending(n)' = {}
      BY <1>b, <2>a, ChainOfNull DEF First, Pending, InNotify, Users
    <2>8. Waits(f)' /\ \A g : Waits(g) => Waits(g)'
      <3>1. Waits(f)'
        BY <1>0, <1>a, <2>a DEF Waits
      <3>2. ASSUME NEW g, Waits(g) PROVE Waits(g)'
        BY <1>0, <2>a, <3>2 DEF Waits, Users
      <3>. QED
        BY <3>1, <3>2
    <2>9. Lists'
      <3>1. ASSUME NEW g \in Chain(next_, f) PROVE Waits(g)' /\ g \notin Chain(next_, next_[g])
        <4>1. CASE g = f
          BY <1>0, <1>1, <1>c, <2>8, <4>1
        <4>2. CASE g \in Chain(next_, awaiter_)
          BY <2>8, <4>2 DEF Lists, GoodList
        <4>. QED
          BY <2>6, <4>1, <4>2
      <3>. QED
        BY <2>0, <2>7, <3>1 DEF Lists, GoodList
    <2>10. Covered'
      <3>1. ASSUME NEW x \in Waiters, pc'[x] = "waiting" PROVE frame[x] \in Chain(next_, f)
        BY <1>e, <2>6, <2>a, <3>1 DEF Covered, Users
      <3>. QED
        BY <1>0, <2>0, <3>1 DEF Covered
    <2>11. Walk' /\ Counts'
      <3>1. \A n \in Notifiers : pc'[n] = pc[n]
        BY <2>a DEF Users
      <3>. QED
        BY <1>0, <1>b, <3>1 DEF Walk, Counts, Walking, InNotify, notifyVars
    <2>. QED
      BY <2>1, <2>2, <2>3, <2>4, <2>5, <2>9, <2>10, <2>11
  <1>2. CASE awaiter_ # next_[f]
    <2>0. /\ next_' = [next_ EXCEPT ![f] = awaiter_]
          /\ UNCHANGED <<awaiter_, pc, tail, host>>
      BY <1>2 DEF Push
    <2>1. /\ next_' \in [Frames -> Link]
          /\ Chain(next_', awaiter_) = Chain(next_, awaiter_)
          /\ \A h \in Chain(next_, awaiter_) : Chain(next_', next_'[h]) = Chain(next_, next_[h])
      BY <1>a, <1>c, <1>d, <2>0, ListAside
    <2>2. TypeOK' /\ Shapes'
      BY <1>0, <2>0, <2>1 DEF TypeOK, Shapes, notifyVars
    <2>3. LockedWhileInside' /\ QueueOfLocking' /\ OneGuest' /\ FramesOwned'
      BY <1>0, <2>0 DEF LockedWhileInside, QueueOfLocking, OneGuest, Hosted, Apart, FramesOwned
    <2>4. \A n \in Notifiers : Pending(n)' = {}
      BY <1>b, <2>0, ChainOfNull DEF First, Pending, InNotify
    <2>5. Lists' /\ Covered'
      BY <1>0, <1>e, <2>0, <2>1, <2>4 DEF Lists, GoodList, Covered, Waits
    <2>6. Walk' /\ Counts'
      BY <1>0, <1>b, <2>0 DEF Walk, Counts, Walking, InNotify, notifyVars
    <2>. QED
      BY <2>2, <2>3, <2>5, <2>6
  <1>. QED
    BY <1>1, <1>2

\* Only the notifier that owns the mutex is inside Notify(): the others have
\* taken nothing, and no waiter is inside.
LEMMA AloneInNotify ==
  ASSUME CVInv, NEW n \in Notifiers, pc[n] \in InNotify
  PROVE  /\ owner = n
         /\ \A m \in Notifiers : m # n => pc[m] \notin InNotify /\ First(m) = Null /\ Pending(m) = {}
         /\ \A w \in Waiters : tail[w] = "none" /\ pc[w] \notin {"testing", "pushing"}
         /\ \A w \in Waiters : host[w] = n => pc[n] = "resuming"
  <1>1. /\ owner = n
        /\ \A m \in Notifiers : m # n => pc[m] \notin InNotify
        /\ \A w \in Waiters : tail[w] = "none" /\ pc[w] \notin {"testing", "pushing"}
    BY OneInside DEF CVInv, LockedWhileInside
  <1>2. \A w \in Waiters : host[w] = n => pc[n] = "resuming"
    BY Distinct DEF CVInv, OneGuest, Hosted, Users, InNotify
  <1>3. \A m \in Notifiers : m # n => First(m) = Null
    BY <1>1 DEF First, InNotify
  <1>. QED
    BY <1>1, <1>2, <1>3, ChainOfNull DEF Pending

LEMMA NotifyCV == ASSUME HoldLock, CVInv, NEW n \in Notifiers, Notify(n) PROVE CVInv'
  <1>. USE Distinct DEF CVInv
  <1>0. /\ pc[n] = "notifying"
        /\ flag' \in {flag, TRUE}
        /\ \E a \in BOOLEAN : all' = [all EXCEPT ![n] = a]
        /\ head' = [head EXCEPT ![n] = awaiter_]
        /\ nextSeen' = [nextSeen EXCEPT ![n] = IF awaiter_ = Null THEN Null ELSE next_[awaiter_]]
        /\ taken' = [taken EXCEPT ![n] = {}]
        /\ woken' = [woken EXCEPT ![n] = {}]
        /\ pc' = [pc EXCEPT ![n] = IF awaiter_ = Null THEN "notified" ELSE "taking"]
        /\ UNCHANGED <<owner, queue, awaiter_, next_, continuation_, frame, host, tail>>
    BY DEF Notify
  <1>a. /\ \A x \in Users : x # n => pc'[x] = pc[x]
        /\ pc'[n] = IF awaiter_ = Null THEN "notified" ELSE "taking"
    BY <1>0, PlacesOf DEF Users
  <1>b. /\ owner = n
        /\ \A m \in Notifiers : m # n => pc[m] \notin InNotify
    BY <1>0, AloneInNotify DEF InNotify
  <1>c. /\ \A m \in Notifiers : m # n => /\ all'[m] = all[m] /\ head'[m] = head[m]
                                         /\ taken'[m] = taken[m] /\ woken'[m] = woken[m]
        /\ head'[n] = awaiter_ /\ taken'[n] = {} /\ woken'[n] = {}
        /\ awaiter_ # Null => nextSeen'[n] = next_[awaiter_]
    BY <1>0 DEF TypeOK
  <1>1. TypeOK' /\ Shapes'
    <2>1. /\ pc' \in [Users -> WaiterPlaces \cup NotifierPlaces]
          /\ \A x \in Waiters : pc'[x] \in WaiterPlaces
          /\ \A x \in Notifiers : pc'[x] \in NotifierPlaces
      BY <1>0, PlacesOf DEF Users, WaiterPlaces, NotifierPlaces
    <2>2. flag' \in BOOLEAN /\ all' \in [Notifiers -> BOOLEAN]
      BY <1>0 DEF TypeOK
    <2>3. (IF awaiter_ = Null THEN Null ELSE next_[awaiter_]) \in Link
      BY DEF TypeOK, Link
    <2>4. head' \in [Notifiers -> Link] /\ nextSeen' \in [Notifiers -> Link]
      BY <1>0, <2>3 DEF TypeOK
    <2>5. taken' \in [Notifiers -> SUBSET Waiters] /\ woken' \in [Notifiers -> SUBSET Waiters]
      BY <1>0 DEF TypeOK
    <2>. QED
      BY <1>0, <2>1, <2>2, <2>4, <2>5 DEF TypeOK, Shapes, WaiterPlaces, NotifierPlaces
  <1>2. LockedWhileInside' /\ QueueOfLocking' /\ OneGuest'
    BY <1>0, <1>a, <1>b, StacksStay DEF Users
  <1>3. FramesOwned'
    BY <1>0, <1>a DEF FramesOwned, Users
  <1>4. \A m \in Notifiers : First(m)' = First(m)
    BY <1>0, <1>a, <1>b DEF First, InNotify, Users
  <1>5. \A m \in Notifiers : Pending(m)' = Pending(m)
    BY <1>0, <1>4 DEF Pending
  <1>6. \A x \in Waiters : pc'[x] = pc[x]
    BY <1>a DEF Users
  <1>7. Lists' /\ Covered'
    BY <1>0, <1>5, <1>6 DEF Lists, GoodList, Covered, Waits
  <1>8. Walk'
    BY <1>0, <1>a, <1>b, <1>c DEF Walk, Walking, InNotify, Users
  <1>9. Counts'
    BY <1>a, <1>c DEF Counts, Users
  <1>. QED
    BY <1>1, <1>2, <1>3, <1>7, <1>8, <1>9

\* NotifyAll() takes the list; NotifyOne() its head, and cuts it off the rest.
LEMMA TakeCV == ASSUME HoldLock, CVInv, NEW n \in Notifiers, Take(n) PROVE CVInv'
  <1>. USE Distinct DEF CVInv
  <1>. DEFINE h == head[n]
  <1>a. /\ pc[n] = "taking"
        /\ h = awaiter_ /\ h \in Frames
        /\ nextSeen[n] = next_[h]
    BY DEF Take, Walk, TypeOK, Link
  <1>0. /\ awaiter_' = HeadLeft(n)
        /\ next_' = LinksTaken(n)
        /\ taken' = [taken EXCEPT ![n] =
                       {continuation_[f] : f \in IF all[n] THEN Chain(next_, h) ELSE {h}}]
        /\ pc' = [pc EXCEPT ![n] = "waking"]
        /\ UNCHANGED <<head, nextSeen, owner, queue, continuation_, frame, flag, host, tail,
                       all, woken>>
    BY <1>a DEF Take
  <1>b. /\ \A x \in Users : x # n => pc'[x] = pc[x]
        /\ pc'[n] = "waking"
    BY <1>0, PlacesOf DEF Users
  <1>c. /\ owner = n
        /\ \A m \in Notifiers : m # n => pc[m] \notin InNotify
    BY <1>a, AloneInNotify DEF InNotify
  <1>d. next_ \in [Frames -> Link] /\ next_[h] \in Link
    BY <1>a DEF TypeOK
  <1>e. Chain(next_, h) = {h} \cup Chain(next_, next_[h]) /\ h \notin Chain(next_, next_[h])
    BY <1>a, <1>d, ChainUnfolds DEF Lists, GoodList
  \* What is left in the list, and what is taken.
  <1>f. /\ next_' \in [Frames -> Link] /\ awaiter_' \in Link
        /\ Chain(next_', awaiter_') \cup Chain(next_', h) = Chain(next_, h)
        /\ Chain(next_', awaiter_') \cap Chain(next_', h) = {}
        /\ Chain(next_', h) = IF all[n] THEN Chain(next_, h) ELSE {h}
        /\ \A g \in Chain(next_, h) : Chain(next_', next_'[g]) \subseteq Chain(next_, next_[g])
        /\ ~all[n] => next_'[h] = Null
    <2>1. CASE all[n]
      BY <1>0, <1>d, <2>1, ChainOfNull DEF HeadLeft, LinksTaken, Link
    <2>2. CASE ~all[n]
      <3>1. next_' = [next_ EXCEPT ![h] = Null] /\ awaiter_' = next_[h] /\ Null \in Link
        BY <1>0, <1>a, <2>2 DEF HeadLeft, LinksTaken, Link
      <3>2. /\ next_' \in [Frames -> Link]
            /\ Chain(next_', next_[h]) = Chain(next_, next_[h])
            /\ \A g \in Chain(next_, next_[h]) : Chain(next_', next_'[g]) = Chain(next_, next_[g])
        BY <1>a, <1>d, <1>e, <3>1, ListAside
      <3>3. next_'[h] = Null
        BY <1>a, <1>d, <3>1
      <3>4. Chain(next_', h) = {h} /\ Chain(next_', next_'[h]) = {}
        BY <1>a, <3>2, <3>3, ChainOfNull, ChainUnfolds
      <3>. QED
        BY <1>d, <1>e, <2>2, <3>1, <3>2, <3>3, <3>4
    <2>. QED
      BY <2>1, <2>2
  <1>g. \A f \in Chain(next_, h) : Waits(f) /\ f \notin Chain(next_, next_[f])
    BY <1>a DEF Lists, GoodList
  <1>h. taken' \in [Notifiers -> SUBSET Waiters]
    <2>1. (IF all[n] THEN Chain(next_, h) ELSE {h}) \subseteq Chain(next_, h)
      BY <1>e
    <2>2. {continuation_[f] : f \in IF all[n] THEN Chain(next_, h) ELSE {h}} \in SUBSET Waiters
      BY <1>g, <2>1 DEF Waits
    <2>. QED
      BY <1>0, <2>2 DEF TypeOK
  <1>1. TypeOK' /\ Shapes'
    <2>1. /\ pc' \in [Users -> WaiterPlaces \cup NotifierPlaces]
          /\ \A x \in Waiters : pc'[x] \in WaiterPlaces
          /\ \A x \in Notifiers : pc'[x] \in NotifierPlaces
      BY <1>0, PlacesOf DEF Users, WaiterPlaces, NotifierPlaces
    <2>. QED
      BY <1>0, <1>f, <1>h, <2>1 DEF TypeOK, Shapes, WaiterPlaces, NotifierPlaces
  <1>2. LockedWhileInside' /\ QueueOfLocking' /\ OneGuest'
    BY <1>0, <1>a, <1>b, <1>c, StacksStay DEF Users
  <1>3. FramesOwned'
    BY <1>0, <1>b DEF FramesOwned, Users
  <1>4. /\ Pending(n) = {} /\ Pending(n)' = Chain(next_', h)
        /\ \A m \in Notifiers : m # n => Pending(m) = {} /\ Pending(m)' = {}
    BY <1>0, <1>a, <1>b, <1>c, ChainOfNull DEF First, Pending, InNotify, Users
  <1>5. \A x \in Waiters : pc'[x] = pc[x]
    BY <1>b DEF Users
  <1>6. \A f : Waits(f)' <=> Waits(f)
    BY <1>0, <1>5 DEF Waits
  <1>7. Lists'
    <2>1. ASSUME NEW f \in Chain(next_, h) PROVE Waits(f)' /\ f \notin Chain(next_', next_'[f])
      BY <1>f, <1>g, <1>6
    <2>2. \A f \in Chain(next_', awaiter_') \cup Chain(next_', h) :
            Waits(f)' /\ f \notin Chain(next_', next_'[f])
      BY <1>f, <2>1
    <2>3. ASSUME NEW m \in Notifiers
          PROVE  /\ \A f \in Pending(m)' : Waits(f)' /\ f \notin Chain(next_', next_'[f])
                 /\ Pending(m)' \cap Chain(next_', awaiter_') = {}
      BY <1>4, <1>f, <2>2
    <2>. QED
      BY <2>2, <2>3 DEF Lists, GoodList
  <1>8. Covered'
    <2>1. ASSUME NEW x \in Waiters, pc'[x] = "waiting"
          PROVE  frame'[x] \in Chain(next_', awaiter_') \cup Pending(n)'
      BY <1>0, <1>a, <1>4, <1>5, <1>f, <2>1 DEF Covered
    <2>. QED
      BY <2>1 DEF Covered
  <1>9. Walk'
    <2>1. /\ taken'[n] = {continuation_'[f] : f \in Pending(n)'}
          /\ woken'[n] = {}
      BY <1>0, <1>a, <1>4, <1>f DEF TypeOK, Counts
    <2>2. \A m \in Notifiers : m # n => pc'[m] \notin InNotify
      BY <1>b, <1>c DEF Users
    <2>3. head'[n] # Null /\ (~all'[n] => next_'[head'[n]] = Null)
      BY <1>0, <1>a, <1>f
    <2>. QED
      BY <1>b, <2>1, <2>2, <2>3 DEF Walk, Walking, InNotify
  <1>10. Counts'
    <2>1. \A m \in Notifiers : m # n => pc'[m] = pc[m] /\ taken'[m] = taken[m]
      BY <1>0, <1>b DEF TypeOK, Users
    <2>. QED
      BY <1>0, <1>a, <1>b, <2>1 DEF Counts
  <1>. QED
    BY <1>1, <1>2, <1>3, <1>7, <1>8, <1>9, <1>10

\* resume() is called on a coroutine that is suspended in the awaiter: it is in
\* the list that was taken, and leaves it.
LEMMA WakeCV == ASSUME HoldLock, CVInv, NEW n \in Notifiers, Wake(n) PROVE CVInv'
  <1>. USE Distinct DEF CVInv
  <1>. DEFINE h == head[n]
              w == continuation_[h]
              rest == Chain(next_, next_[h])
  <1>a. /\ pc[n] = "waking" /\ h \in Frames
        /\ next_ \in [Frames -> Link] /\ next_[h] \in Link
    BY DEF Wake, Walk, Walking, TypeOK, Link
  <1>b. /\ Pending(n) = Chain(next_, h)
        /\ Chain(next_, h) = {h} \cup rest
    BY <1>a, ChainUnfolds DEF Pending, First
  <1>c. /\ w \in Waiters /\ pc[w] = "waiting" /\ frame[w] = h
        /\ h \notin rest
        /\ h \notin Chain(next_, awaiter_)
    BY <1>a, <1>b DEF Lists, GoodList, Waits
  <1>0. /\ pc' = [pc EXCEPT ![n] = "resuming", ![w] = "woken"]
        /\ host' = [host EXCEPT ![w] = n]
        /\ woken' = [woken EXCEPT ![n] = @ \cup {w}]
        /\ UNCHANGED <<owner, queue, awaiter_, next_, continuation_, frame, flag, tail,
                       all, head, nextSeen, taken>>
    BY <1>c DEF Wake
  <1>d. /\ owner = n
        /\ \A m \in Notifiers : m # n => pc[m] \notin InNotify /\ Pending(m) = {}
        /\ \A x \in Waiters : tail[x] = "none" /\ pc[x] \notin {"testing", "pushing"}
        /\ \A x \in Waiters : host[x] # n
    BY <1>a, AloneInNotify DEF InNotify
  <1>e. /\ n \in Users /\ w \in Users /\ n # w
        /\ \A x \in Users : x # n /\ x # w => pc'[x] = pc[x]
        /\ pc'[n] = "resuming" /\ pc'[w] = "woken"
    BY <1>0, <1>c, PlacesOf DEF Users
  <1>f. /\ \A x \in Waiters : x # w => pc'[x] = pc[x] /\ host'[x] = host[x]
        /\ host'[w] = n
        /\ \A m \in Notifiers : m # n => pc'[m] = pc[m] /\ woken'[m] = woken[m]
        /\ woken'[n] = woken[n] \cup {w}
    <2>1. host \in [Waiters -> Users \cup {Null}] /\ woken \in [Notifiers -> SUBSET Waiters]
      BY DEF TypeOK
    <2>2. \A x \in Waiters : x # n /\ x \in Users
      BY DEF Users
    <2>3. \A m \in Notifiers : m # w /\ m \in Users
      BY <1>c DEF Users
    <2>. HIDE DEF CVInv, w, h
    <2>. QED
      BY <1>0, <1>c, <1>e, <2>1, <2>2, <2>3
  <1>g. \A g : Waits(g) /\ g # h => Waits(g)' /\ continuation_[g] # w
    BY <1>0, <1>c, <1>f DEF Waits
  <1>. HIDE DEF h, w, rest
  <1>1. TypeOK' /\ Shapes'
    <2>1. /\ pc' \in [Users -> WaiterPlaces \cup NotifierPlaces]
          /\ \A x \in Waiters : pc'[x] \in WaiterPlaces
          /\ \A x \in Notifiers : pc'[x] \in NotifierPlaces
      <3>1. pc' \in [Users -> WaiterPlaces \cup NotifierPlaces]
        BY <1>0, PlacesOf DEF WaiterPlaces, NotifierPlaces
      <3>. QED
        BY <1>e, <1>f, <3>1, PlacesOf DEF WaiterPlaces, NotifierPlaces
    <2>2. /\ host' \in [Waiters -> Users \cup {Null}]
          /\ woken' \in [Notifiers -> SUBSET Waiters]
      BY <1>0, <1>c, <1>e DEF TypeOK
    <2>. QED
      BY <1>0, <2>1, <2>2 DEF TypeOK, Shapes, WaiterPlaces, NotifierPlaces
  <1>2. LockedWhileInside'
    BY <1>0, <1>d, <1>e, <1>f DEF LockedWhileInside
  <1>3. QueueOfLocking'
    <2>1. \A i \in 1..Len(queue) : queue[i] \in Users /\ pc[queue[i]] = "locking"
      BY DEF TypeOK, QueueOfLocking
    <2>2. \A x \in Users : pc[x] = "locking" => pc'[x] = "locking"
      BY <1>a, <1>c, <1>e
    <2>. QED
      BY <1>0, <2>1, <2>2 DEF QueueOfLocking
  <1>4. OneGuest'
    <2>1. ASSUME NEW x \in Waiters PROVE Hosted(x)'
      <3>1. CASE x = w
        BY <1>0, <1>d, <1>e, <1>f, <3>1 DEF Hosted
      <3>2. CASE x # w
        <4>1. host[x] # Null => host[x] \in Users /\ host[x] # n /\ host[x] # w
          BY <1>c, <1>d DEF OneGuest, Hosted, TypeOK
        <4>2. host[x] # Null => pc'[host[x]] = pc[host[x]]
          BY <1>e, <4>1
        <4>3. pc'[x] = pc[x] /\ host'[x] = host[x] /\ tail'[x] = "none"
          BY <1>0, <1>d, <1>f, <3>2
        <4>. QED
          BY <4>2, <4>3 DEF OneGuest, Hosted, Users
      <3>. QED
        BY <3>1, <3>2
    <2>2. ASSUME NEW x \in Waiters, NEW y \in Waiters PROVE Apart(x, y)'
      <3>1. tail'[y] = "none" /\ host'[x] # "none"
        BY <1>0, <1>d, <1>e, <1>f DEF TypeOK, Users
      <3>2. host'[x] = host'[y] /\ host'[x] # Null => x = y
        BY <1>d, <1>f DEF OneGuest, Apart
      <3>. QED
        BY <3>1, <3>2 DEF Apart
    <2>. QED
      BY <2>1, <2>2 DEF OneGuest
  <1>5. FramesOwned'
    <2>1. \A x \in Waiters : pc'[x] \in {"pushing", "waiting", "woken"} => frame[x] # Null
      BY <1>a, <1>c, <1>f DEF FramesOwned
    <2>. QED
      BY <1>0, <2>1 DEF FramesOwned
  <1>6. /\ Pending(n)' = rest
        /\ \A m \in Notifiers : m # n => Pending(m)' = {}
    <2>1. Pending(n)' = rest
      BY <1>0, <1>e DEF First, Pending, rest, h
    <2>2. ASSUME NEW m \in Notifiers, m # n PROVE First(m)' = Null
      BY <1>d, <1>f, <2>2 DEF First, InNotify
    <2>. HIDE DEF CVInv
    <2>. QED
      BY <2>1, <2>2, ChainOfNull DEF Pending
  <1>7. Lists'
    <2>1. ASSUME NEW g \in rest PROVE Waits(g)' /\ g \notin Chain(next_, next_[g])
      BY <1>b, <1>c, <1>g DEF Lists, GoodList
    <2>2. ASSUME NEW g \in Chain(next_, awaiter_) PROVE Waits(g)' /\ g \notin Chain(next_, next_[g])
      BY <1>c, <1>g DEF Lists, GoodList
    <2>3. rest \cap Chain(next_, awaiter_) = {}
      BY <1>b DEF Lists
    <2>4. ASSUME NEW m \in Notifiers
          PROVE  /\ \A g \in Pending(m)' : Waits(g)' /\ g \notin Chain(next_, next_[g])
                 /\ Pending(m)' \cap Chain(next_, awaiter_) = {}
      BY <1>6, <2>1, <2>3
    <2>. QED
      BY <1>0, <2>2, <2>4 DEF Lists, GoodList
  <1>8. Covered'
    <2>1. ASSUME NEW x \in Waiters, pc'[x] = "waiting"
          PROVE  frame[x] \in Chain(next_, awaiter_) \cup rest
      <3>1. x # w /\ pc[x] = "waiting"
        BY <1>f, <1>e, <2>1
      <3>2. frame[x] # h
        BY <1>a, <1>c, <3>1 DEF FramesOwned
      <3>3. frame[x] \in Chain(next_, awaiter_) \cup Pending(n)
        BY <1>d, <3>1 DEF Covered
      <3>. QED
        BY <1>b, <3>2, <3>3
    <2>. QED
      BY <1>0, <1>6, <2>1 DEF Covered
  <1>9. Walk'
    <2>1. taken[n] \ woken[n] = {continuation_[f] : f \in {h} \cup rest}
      BY <1>a, <1>b DEF Walk, Walking
    <2>2. \A f \in rest : continuation_[f] # w
      BY <1>b, <1>c, <1>g DEF Lists, GoodList
    <2>3. /\ taken[n] \ woken'[n] = {continuation_[f] : f \in rest}
          /\ woken'[n] \subseteq taken[n]
      BY <1>a, <1>f, <2>1, <2>2 DEF Walk, Walking, w
    <2>4. \A m \in Notifiers : m # n => pc'[m] \notin InNotify
      BY <1>d, <1>f
    <2>5. h # Null /\ (~all[n] => next_[h] = Null)
      BY <1>a DEF Walk, Walking, h
    <2>6. ASSUME NEW m \in Notifiers, m = n PROVE Walk!(m)'
      BY <1>0, <1>c, <1>e, <1>f, <1>6, <2>3, <2>5, <2>6 DEF Walking, h, w
    <2>7. ASSUME NEW m \in Notifiers, m # n PROVE Walk!(m)'
      BY <2>4, <2>7 DEF Walking, InNotify
    <2>. QED
      BY <2>6, <2>7 DEF Walk
  <1>10. Counts'
    <2>1. ~all[n] => woken'[n] \subseteq {w}
      BY <1>a, <1>f DEF Counts
    <2>2. ASSUME NEW m \in Notifiers, m = n PROVE Counts!(m)'
      BY <1>0, <1>c, <1>e, <2>1, <2>2
    <2>3. ASSUME NEW m \in Notifiers, m # n PROVE Counts!(m)'
      BY <1>0, <1>f, <2>3 DEF Counts
    <2>. QED
      BY <2>2, <2>3 DEF Counts
  <1>. QED
    BY <1>1, <1>2, <1>3, <1>4, <1>5, <1>7, <1>8, <1>9, <1>10

\* The link is read in the frame of the Wait() that the resumed waiter is in.
LEMMA AdvanceCV == ASSUME HoldLock, CVInv, NEW n \in Notifiers, Advance(n) PROVE CVInv'
  <1>. USE Distinct DEF CVInv
  <1>. DEFINE link == next_[head[n]]
  <1>0. /\ pc[n] = "advance"
        /\ head' = [head EXCEPT ![n] = link]
        /\ pc' = [pc EXCEPT ![n] = IF link = Null THEN "notified" ELSE "waking"]
        /\ UNCHANGED <<owner, queue, awaiter_, next_, continuation_, frame, flag, host, tail,
                       all, nextSeen, taken, woken>>
    BY DEF Advance
  <1>a. /\ \A x \in Users : x # n => pc'[x] = pc[x]
        /\ pc'[n] = IF link = Null THEN "notified" ELSE "waking"
    BY <1>0, PlacesOf DEF Users
  <1>b. /\ owner = n
        /\ \A m \in Notifiers : m # n => pc[m] \notin InNotify
    BY <1>0, AloneInNotify DEF InNotify
  <1>c. /\ link \in Link
        /\ \A m \in Notifiers : m # n => head'[m] = head[m]
        /\ head'[n] = link
    BY <1>0 DEF Walk, Walking, TypeOK, Link
  <1>. HIDE DEF link
  <1>1. TypeOK' /\ Shapes'
    <2>1. /\ pc' \in [Users -> WaiterPlaces \cup NotifierPlaces]
          /\ \A x \in Waiters : pc'[x] \in WaiterPlaces
          /\ \A x \in Notifiers : pc'[x] \in NotifierPlaces
      BY <1>0, PlacesOf DEF Users, WaiterPlaces, NotifierPlaces
    <2>2. head' \in [Notifiers -> Link]
      BY <1>0, <1>c DEF TypeOK
    <2>. QED
      BY <1>0, <2>1, <2>2 DEF TypeOK, Shapes, WaiterPlaces, NotifierPlaces
  <1>2. LockedWhileInside' /\ QueueOfLocking' /\ OneGuest'
    BY <1>0, <1>a, <1>b, StacksStay DEF Users
  <1>3. FramesOwned'
    BY <1>0, <1>a DEF FramesOwned, Users
  <1>4. \A m \in Notifiers : First(m)' = First(m)
    <2>1. First(n) = link /\ First(n)' = link
      BY <1>0, <1>a, <1>c DEF First, link
    <2>2. \A m \in Notifiers : m # n => First(m) = Null /\ First(m)' = Null
      BY <1>a, <1>b DEF First, InNotify, Users
    <2>. QED
      BY <2>1, <2>2
  <1>5. \A m \in Notifiers : Pending(m)' = Pending(m)
    BY <1>0, <1>4 DEF Pending
  <1>6. \A x \in Waiters : pc'[x] = pc[x]
    BY <1>a DEF Users
  <1>7. Lists' /\ Covered'
    BY <1>0, <1>5, <1>6 DEF Lists, GoodList, Covered, Waits
  <1>8. Walk'
    <2>1. \A m \in Notifiers : m # n => pc'[m] \notin InNotify
      BY <1>a, <1>b DEF Users
    <2>2. /\ ~all[n] => link = Null
          /\ woken[n] \subseteq taken[n]
          /\ taken[n] \ woken[n] = {continuation_[f] : f \in Pending(n)}
      BY <1>0 DEF Walk, Walking, link
    <2>3. ASSUME NEW m \in Notifiers, m = n PROVE Walk!(m)'
      BY <1>0, <1>5, <1>a, <1>c, <2>2, <2>3 DEF Walking
    <2>4. ASSUME NEW m \in Notifiers, m # n PROVE Walk!(m)'
      BY <2>1, <2>4 DEF Walking, InNotify
    <2>. QED
      BY <2>3, <2>4 DEF Walk
  <1>9. Counts'
    <2>1. link = Null => woken[n] = taken[n]
      <3>1. /\ woken[n] \subseteq taken[n]
            /\ taken[n] \ woken[n] = {continuation_[f] : f \in Pending(n)}
        BY <1>0 DEF Walk, Walking
      <3>2. link = Null => Pending(n) = {}
        BY <1>0, ChainOfNull DEF Pending, First, link
      <3>. QED
        BY <3>1, <3>2
    <2>2. ~all[n] => link = Null
      BY <1>0 DEF Walk, Walking, link
    <2>3. \A m \in Notifiers : m # n => pc'[m] = pc[m]
      BY <1>a DEF Users
    <2>. QED
      BY <1>0, <1>a, <2>1, <2>2, <2>3 DEF Counts
  <1>. QED
    BY <1>1, <1>2, <1>3, <1>7, <1>8, <1>9

\* Notify() is over, and its locals with it.
LEMMA RestCV == ASSUME HoldLock, CVInv, NEW n \in Notifiers, Rest(n) PROVE CVInv'
  <1>. USE Distinct DEF CVInv
  <1>0. /\ pc[n] = "ending"
        /\ pc' = [pc EXCEPT ![n] = "idle"]
        /\ head' = [head EXCEPT ![n] = Null]
        /\ nextSeen' = [nextSeen EXCEPT ![n] = Null]
        /\ taken' = [taken EXCEPT ![n] = {}]
        /\ woken' = [woken EXCEPT ![n] = {}]
        /\ all' = [all EXCEPT ![n] = FALSE]
        /\ UNCHANGED <<owner, queue, awaiter_, next_, continuation_, frame, flag, host, tail>>
    BY DEF Rest
  <1>a. /\ \A x \in Users : x # n => pc'[x] = pc[x]
        /\ pc'[n] = "idle"
    BY <1>0, PlacesOf DEF Users
  <1>b. /\ \A m \in Notifiers : m # n => /\ all'[m] = all[m] /\ head'[m] = head[m]
                                         /\ nextSeen'[m] = nextSeen[m]
                                         /\ taken'[m] = taken[m] /\ woken'[m] = woken[m]
        /\ taken'[n] = {} /\ woken'[n] = {}
    BY <1>0 DEF TypeOK
  <1>1. TypeOK' /\ Shapes'
    <2>1. /\ pc' \in [Users -> WaiterPlaces \cup NotifierPlaces]
          /\ \A x \in Waiters : pc'[x] \in WaiterPlaces
          /\ \A x \in Notifiers : pc'[x] \in NotifierPlaces
      BY <1>0, PlacesOf DEF Users, WaiterPlaces, NotifierPlaces
    <2>2. /\ all' \in [Notifiers -> BOOLEAN]
          /\ head' \in [Notifiers -> Link] /\ nextSeen' \in [Notifiers -> Link]
      BY <1>0 DEF TypeOK, Link
    <2>3. taken' \in [Notifiers -> SUBSET Waiters] /\ woken' \in [Notifiers -> SUBSET Waiters]
      BY <1>0 DEF TypeOK
    <2>. QED
      BY <1>0, <2>1, <2>2, <2>3 DEF TypeOK, Shapes, WaiterPlaces, NotifierPlaces
  <1>2. LockedWhileInside' /\ QueueOfLocking' /\ OneGuest'
    BY <1>0, <1>a, StacksStay DEF Users, InNotify
  <1>3. FramesOwned'
    BY <1>0, <1>a DEF FramesOwned, Users
  <1>4. \A m \in Notifiers : First(m)' = First(m)
    BY <1>0, <1>a, <1>b DEF First, Users
  <1>5. \A m \in Notifiers : Pending(m)' = Pending(m)
    BY <1>0, <1>4 DEF Pending
  <1>6. \A x \in Waiters : pc'[x] = pc[x]
    BY <1>a DEF Users
  <1>7. Lists' /\ Covered'
    BY <1>0, <1>5, <1>6 DEF Lists, GoodList, Covered, Waits
  <1>8. Walk'
    <2>1. \A m \in Notifiers : m # n => pc'[m] = pc[m]
      BY <1>a DEF Users
    <2>2. \A m \in Notifiers : pc[m] \in {"resuming", "advance"} => continuation_[head[m]] \in Waiters
      BY DEF Walk, TypeOK
    <2>3. ASSUME NEW m \in Notifiers, m # n PROVE Walk!(m)'
      BY <1>0, <1>5, <1>6, <1>b, <2>1, <2>2, <2>3 DEF Walk, Walking
    <2>4. ASSUME NEW m \in Notifiers, m = n PROVE Walk!(m)'
      BY <1>a, <2>4 DEF Walking
    <2>. QED
      BY <2>3, <2>4 DEF Walk
  <1>9. Counts'
    <2>1. \A m \in Notifiers : m # n => pc'[m] = pc[m]
      BY <1>a DEF Users
    <2>. QED
      BY <1>a, <1>b, <2>1 DEF Counts
  <1>. QED
    BY <1>1, <1>2, <1>3, <1>7, <1>8, <1>9

-----------------------------------------------------------------------------
(* What holds with the mutex held.                                         *)

LEMMA NextCV == ASSUME HoldLock, ~SlotReused, CVInv, [Next]_vars PROVE CVInv'
  <1>1. CASE \E w \in Waiters : WaiterStep(w)
    BY <1>1, LockFreeCV, LockHeldCV, TakeFlagCV, WaitCV, PushCV, UnlockInSuspendCV, EndCV
    DEF WaiterStep
  <1>2. CASE \E n \in Notifiers : NotifierStep(n)
    BY <1>2, BeginCV, NotifyCV, TakeCV, WakeCV, AdvanceCV, FinishCV, RestCV DEF NotifierStep
  <1>3. CASE UNCHANGED vars
    BY <1>3 DEF vars, notifyVars, CVInv, TypeOK, Shapes, LockedWhileInside, QueueOfLocking,
                OneGuest, Hosted, Apart, FramesOwned, Lists, GoodList, Waits, Pending, First,
                Covered, Walk, Counts
  <1>. QED
    BY <1>1, <1>2, <1>3 DEF Next

\* CVInv holds in every reachable state when notifiers hold the mutex and the
\* memory of an awaiter that has ended is left alone while its Wait() locks again.
THEOREM CVInvariant == ASSUME HoldLock, ~SlotReused PROVE Spec => []CVInv
  <1>1. CVInv /\ [Next]_vars => CVInv'
    BY NextCV
  <1>. QED
    BY <1>1, InitCV, PTL DEF Spec

\* Types; and resume() is only ever called on a coroutine that is suspended in
\* the awaiter that Notify() took (head->continuation_.resume(),
\* condition_variable.h).
THEOREM ResumesSuspendedOnly == ASSUME HoldLock, ~SlotReused PROVE Spec => []TypeOK
  <1>1. CVInv => TypeOK
    BY DEF CVInv
  <1>. QED
    BY <1>1, CVInvariant, PTL

\* NotifyAll() has resumed, when it returns, everyone it took from the list.
THEOREM AllAreWoken == ASSUME HoldLock, ~SlotReused PROVE Spec => []NotifyAllWakesAll
  <1>1. CVInv => NotifyAllWakesAll
    BY DEF CVInv, Counts, NotifyAllWakesAll
  <1>. QED
    BY <1>1, CVInvariant, PTL

\* NotifyOne() resumes at most one waiter, the one it took.
THEOREM OneIsWoken == ASSUME HoldLock, ~SlotReused PROVE Spec => []NotifyOneWakesOne
  <1>1. CVInv => NotifyOneWakesOne
    <2>. SUFFICES ASSUME CVInv, NEW n \in Notifiers, ~all[n]
                  PROVE  /\ Cardinality(woken[n]) <= 1
                         /\ pc[n] = "notified" => woken[n] = taken[n]
      BY DEF NotifyOneWakesOne
    <2>1. PICK w \in Waiters \cup {Null} : woken[n] \subseteq {w}
      BY DEF CVInv, Counts
    <2>2. woken[n] = {} \/ woken[n] = {w}
      BY <2>1
    <2>3. Cardinality(woken[n]) <= 1
      <3>1. Cardinality({}) = 0 /\ Cardinality({w}) = 1
        BY FS_EmptySet, FS_Singleton
      <3>. QED
        BY <2>2, <3>1
    <2>. QED
      BY <2>3 DEF CVInv, Counts
  <1>. QED
    BY <1>1, CVInvariant, PTL

\* Notify() reads next_ of a waiter that is still inside its Wait().
THEOREM LinksReadInLiveFrames == ASSUME HoldLock, ~SlotReused PROVE Spec => []ReadsLiveFrames
  <1>1. CVInv => ReadsLiveFrames
    BY DEF CVInv, Walk, ReadsLiveFrames
  <1>. QED
    BY <1>1, CVInvariant, PTL

\* Every suspended waiter is in the list, or one Notify() has it in hand.
THEOREM NobodyIsLost == ASSUME HoldLock, ~SlotReused PROVE Spec => []NoLostWaiter
  <1>1. CVInv => NoLostWaiter
    <2>. SUFFICES ASSUME CVInv, NEW w \in Waiters, pc[w] = "waiting"
                  PROVE  LET takers == {n \in Notifiers : w \in taken[n] \ woken[n]}
                         IN  IF frame[w] \in Chain(next_, awaiter_) THEN takers = {}
                             ELSE Cardinality(takers) = 1
      BY DEF NoLostWaiter
    <2>. DEFINE takers == {n \in Notifiers : w \in taken[n] \ woken[n]}
    <2>1. ASSUME NEW n \in takers PROVE frame[w] \in Pending(n)
      <3>1. pc[n] \in Walking
        BY <2>1, PlacesOf DEF CVInv, Counts, Walking, NotifierPlaces
      <3>2. PICK f \in Pending(n) : continuation_[f] = w
        BY <2>1, <3>1 DEF CVInv, Walk
      <3>. QED
        BY <3>2 DEF CVInv, Lists, GoodList, Waits
    <2>2. ASSUME NEW n \in Notifiers, frame[w] \in Pending(n) PROVE n \in takers
      <3>1. pc[n] \in Walking
        BY <2>2, ChainOfNull DEF Pending, First, Walking
      <3>2. continuation_[frame[w]] = w
        BY <2>2 DEF CVInv, FramesOwned, Lists, GoodList, Waits
      <3>. QED
        BY <2>2, <3>1, <3>2 DEF CVInv, Walk
    <2>3. CASE frame[w] \in Chain(next_, awaiter_)
      <3>1. takers = {}
        BY <2>1, <2>3 DEF CVInv, Lists
      <3>. QED
        BY <2>3, <3>1
    <2>4. CASE frame[w] \notin Chain(next_, awaiter_)
      <3>1. PICK n \in Notifiers : frame[w] \in Pending(n)
        BY <2>4 DEF CVInv, Covered
      <3>2. ASSUME NEW m \in takers PROVE m = n
        <4>1. pc[m] \in Walking /\ pc[n] \in Walking
          BY <2>1, <3>1, ChainOfNull DEF Pending, First, Walking
        <4>. QED
          BY <4>1, OneInside DEF Walking, InNotify
      <3>3. takers = {n}
        BY <2>2, <3>1, <3>2
      <3>4. Cardinality(takers) = 1
        BY <3>3, FS_Singleton
      <3>. QED
        BY <2>4, <3>4
    <2>. QED
      BY <2>3, <2>4
  <1>. QED
    BY <1>1, CVInvariant, PTL

-----------------------------------------------------------------------------
(* Conditions are tested under the mutex, whether notifiers hold it or not. *)
(* Without it, frames and links are anything: what is left is who calls    *)
(* whom, and who owns the mutex.                                           *)

AnyPlaces ==
  /\ owner \in Users \cup {Null}
  /\ pc \in [Users -> WaiterPlaces \cup NotifierPlaces \cup {"undefined"}]
  /\ \A w \in Waiters : pc[w] \in WaiterPlaces
  /\ \A n \in Notifiers : pc[n] \in NotifierPlaces \cup {"undefined"}
  /\ host \in [Waiters -> Users \cup {Null}]
  /\ tail \in [Waiters -> Users \cup {Null, "none"}]

\* A waiter owns the mutex in its locked region, and once more, not at the same
\* time, until its await_suspend() has unlocked.
Inside(w) == pc[w] \in {"testing", "pushing"}

OwnersInside ==
  \A w \in Waiters : /\ Inside(w) \/ tail[w] # "none" => owner = w
                     /\ Inside(w) => tail[w] = "none"

\* A caller of resume() waits for its one guest.
Calling == {"resuming", "unlocking"}

Calls == \A w \in Waiters : /\ host[w] # Null => pc[host[w]] \in Calling
                            /\ tail[w] \notin {Null, "none"} => pc[tail[w]] \in Calling
                            /\ \A v \in Waiters : Apart(v, w)

CallsInv == AnyPlaces /\ OwnersInside /\ GoodQueue /\ Calls

LEMMA InitCalls == Init => CallsInv
  <1>. SUFFICES ASSUME Init PROVE CallsInv
    OBVIOUS
  <1>. USE Distinct DEF Init, LockInit
  <1>1. GoodQueue
    BY DEF GoodQueue, QueueOfLocking
  <1>2. AnyPlaces
    BY DEF AnyPlaces, Users, WaiterPlaces, NotifierPlaces
  <1>3. OwnersInside /\ Calls
    BY DEF OwnersInside, Inside, Calls, Apart, Users
  <1>. QED
    BY <1>1, <1>2, <1>3 DEF CallsInv

\* A step of u alone, outside of the mutex and of the stacks.
LEMMA CallsAlone ==
  ASSUME CallsInv, NEW u \in Users, NEW place \in WaiterPlaces \cup NotifierPlaces \cup {"undefined"},
         pc' = [pc EXCEPT ![u] = place], UNCHANGED <<owner, queue, host, tail>>,
         pc[u] \notin Calling, pc[u] # "locking",
         u \in Waiters => place \in WaiterPlaces /\ (Inside(u)' => Inside(u)),
         u \in Notifiers => place \in NotifierPlaces \cup {"undefined"}
  PROVE  CallsInv'
  <1>. USE Distinct DEF CallsInv, AnyPlaces
  <1>1. \A x \in Users : x # u => pc'[x] = pc[x]
    OBVIOUS
  <1>2. AnyPlaces'
    OBVIOUS
  <1>3. OwnersInside'
    BY <1>1 DEF OwnersInside, Inside, Users
  <1>4. \A i \in 1..Len(queue) : queue[i] \in Users
    BY DEF GoodQueue
  <1>5. GoodQueue'
    BY <1>1, <1>4 DEF GoodQueue, QueueOfLocking
  <1>6. Calls'
    BY <1>1 DEF Calls, Calling, Apart
  <1>. QED
    BY <1>2, <1>3, <1>5, <1>6

\* u, on the stack of h or of nobody, suspends or ends, and h goes on.
LEMMA CallsBack ==
  ASSUME CallsInv, NEW w \in Waiters, NEW place \in {"locking", "idle"},
         pc[w] \in {"idle", "woken", "ending"},
         pc' = BackTo(host[w], [pc EXCEPT ![w] = place]),
         host' = [host EXCEPT ![w] = Null], UNCHANGED tail,
         owner' = owner, GoodQueue'
  PROVE  CallsInv'
  <1>. USE Distinct DEF CallsInv, AnyPlaces
  <1>1. host[w] # Null => pc[host[w]] \in Calling /\ host[w] # w /\ host[w] \in Users
    BY DEF Calls, Calling
  <1>2. /\ pc'[w] = place
        /\ host[w] # Null => pc'[host[w]] \in {"advance", "ending"}
        /\ host[w] # Null /\ pc[host[w]] = "unlocking" => pc'[host[w]] = "ending"
        /\ \A x \in Users : x # w /\ x # host[w] => pc'[x] = pc[x]
    BY <1>1 DEF BackTo, Returned, Users, Calling
  <1>3. AnyPlaces'
    <2>1. \A x \in Waiters : pc[x] # "resuming"
      BY DEF WaiterPlaces
    <2>2. pc' \in [Users -> WaiterPlaces \cup NotifierPlaces \cup {"undefined"}]
      BY <1>1 DEF BackTo, Returned, Users, WaiterPlaces, NotifierPlaces
    <2>3. \A x \in Waiters : pc'[x] \in WaiterPlaces
      <3>1. host[w] \in Waiters => pc'[host[w]] = "ending"
        BY <1>1, <1>2, <2>1 DEF Calling
      <3>2. \A x \in Waiters : x \in Users
        BY DEF Users
      <3>. HIDE DEF CVInv
      <3>. QED
        BY <1>1, <1>2, <3>1, <3>2 DEF AnyPlaces, WaiterPlaces
    <2>4. \A n \in Notifiers : pc'[n] \in NotifierPlaces \cup {"undefined"}
      BY <1>2 DEF Users, NotifierPlaces
    <2>. QED
      BY <2>2, <2>3, <2>4
  <1>4. OwnersInside'
    BY <1>2 DEF OwnersInside, Inside, Users
  <1>5. pc[w] \notin Calling /\ host'[w] = Null /\ \A x \in Waiters : x # w => host'[x] = host[x]
    BY DEF Calling
  <1>6. ASSUME NEW u \in Users, pc[u] \in Calling, u # host[w]
        PROVE  pc'[u] \in Calling
    BY <1>2, <1>5, <1>6 DEF Calling
  <1>7. ASSUME NEW x \in Waiters
        PROVE  /\ host'[x] # Null => pc'[host'[x]] \in Calling
               /\ tail'[x] \notin {Null, "none"} => pc'[tail'[x]] \in Calling
    <2>1. host'[x] # Null => x # w /\ host'[x] = host[x] /\ host[x] # host[w] /\ pc[host[x]] \in Calling
      BY <1>5 DEF Calls, Apart
    <2>2. tail'[x] \notin {Null, "none"} =>
            tail'[x] = tail[x] /\ tail[x] \in Users /\ tail[x] # host[w] /\ pc[tail[x]] \in Calling
      BY DEF Calls, Apart
    <2>3. host'[x] # Null => host'[x] \in Users
      BY <1>5
    <2>. QED
      BY <1>6, <2>1, <2>2, <2>3
  <1>8. \A v, x \in Waiters : Apart(v, x)'
    BY <1>5 DEF Calls, Apart
  <1>9. Calls'
    BY <1>7, <1>8 DEF Calls, Calling
  <1>. QED
    BY <1>3, <1>4, <1>9

\* u gets the free mutex, in or out of the stacks.
LEMMA CallsAcquire ==
  ASSUME CallsInv, NEW u \in Users, Acquire(u), pc[u] \in {"idle", "woken"},
         pc' = [pc EXCEPT ![u] = IF u \in Waiters THEN "testing" ELSE "notifying"],
         UNCHANGED <<host, tail>>
  PROVE  CallsInv'
  <1>. USE Distinct DEF CallsInv, AnyPlaces, Acquire
  <1>1. \A x \in Users : x # u => pc'[x] = pc[x]
    OBVIOUS
  <1>2. AnyPlaces'
    BY DEF Users, WaiterPlaces, NotifierPlaces
  <1>3. \A w \in Waiters : ~Inside(w) /\ tail[w] = "none"
    BY DEF OwnersInside
  <1>4. OwnersInside'
    BY <1>1, <1>3 DEF OwnersInside, Inside, Users
  <1>5. \A i \in 1..Len(queue) : queue[i] \in Users
    BY DEF GoodQueue
  <1>6. GoodQueue'
    BY <1>1, <1>5 DEF GoodQueue, QueueOfLocking
  <1>7. Calls'
    BY <1>1 DEF Calls, Calling, Apart
  <1>. QED
    BY <1>2, <1>4, <1>6, <1>7

\* An Unlock() leaves nobody inside but the waiter it hands the mutex to, which
\* runs on the stack of h.
LEMMA CallsHandOver ==
  ASSUME CallsInv, NEW v \in Waiters, NEW h \in Users \cup {Null}, AnyPlaces', GoodQueue',
         pc[v] = "locking", pc'[v] = "testing", owner' = v,
         \A w \in Waiters : tail'[w] = "none" /\ (w # v => pc'[w] \notin {"testing", "pushing"}),
         host' = [host EXCEPT ![v] = h],
         h # Null => /\ pc'[h] \in Calling
                     /\ \A w \in Waiters : host[w] # h,
         \A u \in Users : pc[u] \in Calling => pc'[u] = pc[u]
  PROVE  CallsInv'
  <1>. USE Distinct DEF CallsInv
  <1>1. host'[v] = h /\ \A w \in Waiters : w # v => host'[w] = host[w]
    BY DEF AnyPlaces
  <1>2. OwnersInside'
    BY DEF OwnersInside, Inside
  <1>3. \A w \in Waiters : host[w] # Null => host[w] \in Users /\ pc[host[w]] \in Calling
    BY DEF Calls, AnyPlaces
  <1>4. \A w \in Waiters : host'[w] # Null => pc'[host'[w]] \in Calling
    BY <1>1, <1>3
  <1>5. \A w, x \in Waiters : Apart(w, x)'
    <2>1. \A w \in Waiters : tail'[w] = "none" /\ host'[w] \in Users \cup {Null}
      BY DEF AnyPlaces
    <2>2. \A w, x \in Waiters : host'[w] # Null /\ host'[w] = host'[x] => w = x
      BY <1>1 DEF Calls, Apart
    <2>. QED
      BY <2>1, <2>2 DEF Apart
  <1>6. Calls'
    BY <1>4, <1>5 DEF Calls, Calling
  <1>. QED
    BY <1>2, <1>6

\* It leaves nobody inside if the mutex is free or goes to a notifier.
LEMMA CallsLetGo ==
  ASSUME CallsInv, AnyPlaces', GoodQueue', host' = host,
         \A w \in Waiters : tail'[w] = "none" /\ ~Inside(w)',
         \A w \in Waiters : host[w] # Null => pc'[host[w]] \in Calling
  PROVE  CallsInv'
  <1>. USE Distinct DEF CallsInv
  <1>1. OwnersInside'
    BY DEF OwnersInside, Inside
  <1>2. \A w \in Waiters : tail'[w] = "none" /\ host'[w] \in Users \cup {Null}
    BY DEF AnyPlaces
  <1>3. Calls'
    BY <1>2 DEF Calls, Calling, Apart
  <1>. QED
    BY <1>1, <1>3

\* Unlock() by u, which is inside only until then; after it the host h of the
\* next owner goes on, or waits meanwhile.
LEMMA CallsUnlock ==
  ASSUME CallsInv, NEW u \in Users, NEW h \in Users \cup {Null}, NEW after, NEW during,
         UnlockOver(u, h, after, during),
         \A w \in Waiters : w # u => tail'[w] = tail[w],
         \A w \in Waiters : w = u => tail'[w] = "none",
         after  \in [Users -> WaiterPlaces \cup NotifierPlaces \cup {"undefined"}],
         during \in [Users -> WaiterPlaces \cup NotifierPlaces \cup {"undefined"}],
         \A w \in Waiters : /\ {after[w], during[w]} \subseteq WaiterPlaces
                            /\ {after[w], during[w]} \cap {"testing", "pushing"} # {} =>
                                 w # u /\ Inside(w),
         \A n \in Notifiers : {after[n], during[n]} \subseteq NotifierPlaces \cup {"undefined"},
         \A x \in Users : pc[x] = "locking" => after[x] = "locking" /\ during[x] = "locking",
         \A w \in Waiters : host[w] # Null => after[host[w]] \in Calling,
         \A x \in Users : pc[x] \in Calling => during[x] = pc[x],
         h # Null => /\ during[h] \in Calling
                     /\ \A w \in Waiters : host[w] # h,
         tail' \in [Waiters -> Users \cup {Null, "none"}]
  PROVE  CallsInv'
  <1>. USE Distinct
  <1>1. GoodQueue /\ AnyPlaces
    BY DEF CallsInv
  <1>2. owner = u
    BY <1>1, Unlocking
  <1>3. \A w \in Waiters : tail'[w] = "none" /\ (Inside(w) => w = u)
    BY <1>2 DEF CallsInv, OwnersInside
  <1>4. \A w \in Waiters : /\ after[w] \notin {"testing", "pushing"}
                           /\ during[w] \notin {"testing", "pushing"}
    BY <1>3
  <1>5. CASE /\ queue' = <<>> /\ queue' \in Seq(Users) /\ owner' = Null
             /\ pc' = after /\ host' = host
    <2>1. AnyPlaces'
      BY <1>1, <1>5 DEF AnyPlaces
    <2>2. GoodQueue'
      BY <1>5 DEF GoodQueue, QueueOfLocking
    <2>3. \A w \in Waiters : ~Inside(w)'
      BY <1>4, <1>5 DEF Inside
    <2>. QED
      BY <1>3, <1>5, <2>1, <2>2, <2>3, CallsLetGo
  <1>6. ASSUME NEW v \in Waiters,
               pc[v] = "locking", owner' = v, queue' \in Seq(Users),
               \A i \in 1..Len(queue') : queue'[i] \in Users \ {v} /\ pc[queue'[i]] = "locking",
               \A i, j \in 1..Len(queue') : queue'[i] = queue'[j] => i = j,
               pc' = [during EXCEPT ![v] = "testing"],
               host' = [host EXCEPT ![v] = h]
        PROVE  CallsInv'
    <2>1. pc'[v] = "testing" /\ \A x \in Users : x # v => pc'[x] = during[x]
      BY <1>6 DEF Users
    <2>2. AnyPlaces'
      BY <1>1, <1>6, <2>1 DEF AnyPlaces, Users, WaiterPlaces
    <2>3. GoodQueue'
      BY <1>6, <2>1 DEF GoodQueue, QueueOfLocking
    <2>4. \A w \in Waiters : w # v => ~Inside(w)'
      BY <1>4, <2>1 DEF Inside, Users
    <2>5. \A x \in Users : pc[x] \in Calling => pc'[x] = pc[x]
      BY <1>6, <2>1 DEF Calling
    <2>6. h # Null => pc'[h] \in Calling
      <3>1. during[v] = "locking"
        BY <1>6 DEF Users
      <3>. QED
        BY <2>1, <3>1 DEF Calling
    <2>7. \A w \in Waiters : tail'[w] = "none" /\ (w # v => pc'[w] \notin {"testing", "pushing"})
      BY <1>3, <2>4 DEF Inside
    <2>8. h # Null => /\ pc'[h] \in Calling
                      /\ \A w \in Waiters : host[w] # h
      BY <2>6
    <2>9. /\ pc[v] = "locking" /\ pc'[v] = "testing" /\ owner' = v
          /\ host' = [host EXCEPT ![v] = h]
      BY <1>6, <2>1
    <2>. QED
      BY <2>2, <2>3, <2>5, <2>7, <2>8, <2>9, CallsHandOver
  <1>7. ASSUME NEW v \in Notifiers,
               pc[v] = "locking", owner' = v, queue' \in Seq(Users),
               \A i \in 1..Len(queue') : queue'[i] \in Users \ {v} /\ pc[queue'[i]] = "locking",
               \A i, j \in 1..Len(queue') : queue'[i] = queue'[j] => i = j,
               pc' = [after EXCEPT ![v] = "notifying"],
               host' = host
        PROVE  CallsInv'
    <2>1. pc'[v] = "notifying" /\ \A x \in Users : x # v => pc'[x] = after[x]
      BY <1>7 DEF Users
    <2>2. AnyPlaces'
      BY <1>1, <1>7, <2>1 DEF AnyPlaces, Users, NotifierPlaces
    <2>3. GoodQueue'
      BY <1>7, <2>1 DEF GoodQueue, QueueOfLocking
    <2>4. \A w \in Waiters : ~Inside(w)'
      BY <1>4, <2>1 DEF Inside, Users
    <2>5. \A w \in Waiters : host[w] # Null => pc'[host[w]] \in Calling
      <3>1. after[v] = "locking"
        BY <1>7 DEF Users
      <3>2. \A w \in Waiters : host[w] # Null => host[w] \in Users /\ host[w] # v
        BY <1>1, <3>1 DEF AnyPlaces, Calling
      <3>. QED
        BY <2>1, <3>2
    <2>. QED
      BY <1>3, <1>7, <2>2, <2>3, <2>4, <2>5, CallsLetGo
  <1>. QED
    BY <1>1, <1>5, <1>6, <1>7, Unlocking

LEMMA CallsTakeFlag == ASSUME CallsInv, NEW w \in Waiters, TakeFlag(w) PROVE CallsInv'
  <1>. DEFINE after  == [pc EXCEPT ![w] = "ending"]
              during == [pc EXCEPT ![w] = "unlocking"]
  <1>. USE Distinct DEF CallsInv, AnyPlaces
  <1>1. /\ pc[w] = "testing" /\ tail[w] = "none" /\ tail' = tail
        /\ UnlockOver(w, w, after, during) /\ w \in Users
    BY DEF TakeFlag, OwnersInside, Inside, Users
  <1>2. /\ after  \in [Users -> WaiterPlaces \cup NotifierPlaces \cup {"undefined"}]
        /\ during \in [Users -> WaiterPlaces \cup NotifierPlaces \cup {"undefined"}]
        /\ after[w] = "ending" /\ during[w] = "unlocking"
        /\ \A x \in Users : x # w => after[x] = pc[x] /\ during[x] = pc[x]
    BY <1>1 DEF WaiterPlaces
  <1>. HIDE DEF after, during
  <1>3. \A x \in Waiters : /\ {after[x], during[x]} \subseteq WaiterPlaces
                           /\ {after[x], during[x]} \cap {"testing", "pushing"} # {} =>
                                x # w /\ Inside(x)
    BY <1>2 DEF Users, WaiterPlaces, Inside
  <1>4. \A n \in Notifiers : {after[n], during[n]} \subseteq NotifierPlaces \cup {"undefined"}
    BY <1>2 DEF Users
  <1>5. \A x \in Users : pc[x] = "locking" => after[x] = "locking" /\ during[x] = "locking"
    BY <1>1, <1>2
  <1>6. \A x \in Waiters : host[x] # Null => host[x] # w /\ after[host[x]] \in Calling
    BY <1>1, <1>2 DEF Calls, Calling
  <1>7. \A x \in Users : pc[x] \in Calling => during[x] = pc[x]
    BY <1>1, <1>2 DEF Calling
  <1>8. w # Null => during[w] \in Calling /\ \A x \in Waiters : host[x] # w
    BY <1>2, <1>6 DEF Calling
  <1>9. /\ \A x \in Waiters : x # w => tail'[x] = tail[x]
        /\ \A x \in Waiters : x = w => tail'[x] = "none"
        /\ tail' \in [Waiters -> Users \cup {Null, "none"}]
    BY <1>1
  <1>. HIDE DEF CallsInv, AnyPlaces
  <1>. QED
    BY <1>1, <1>2, <1>3, <1>4, <1>5, <1>6, <1>7, <1>8, <1>9, CallsUnlock

LEMMA CallsUnlockInSuspend ==
  ASSUME CallsInv, NEW w \in Waiters, UnlockInSuspend(w)
  PROVE  CallsInv'
  <1>. DEFINE h == tail[w]
              after == BackTo(h, pc)
  <1>. USE Distinct DEF CallsInv, AnyPlaces
  <1>1. /\ h # "none" /\ tail' = [tail EXCEPT ![w] = "none"] /\ h \in Users \cup {Null}
        /\ UnlockOver(w, h, after, pc) /\ w \in Users
        /\ h # Null => pc[h] \in Calling
        /\ \A x \in Waiters : host[x] # Null => host[x] # h /\ pc[host[x]] \in Calling
        /\ ~Inside(w)
    BY DEF UnlockInSuspend, OwnersInside, Users, Calls, Apart
  <1>. HIDE DEF h
  <1>2. /\ after \in [Users -> WaiterPlaces \cup NotifierPlaces \cup {"undefined"}]
        /\ h # Null => /\ after[h] \in {"advance", "ending"}
                       /\ pc[h] = "unlocking" => after[h] = "ending"
        /\ \A x \in Users : x # h => after[x] = pc[x]
    BY <1>1 DEF BackTo, Returned, Users, WaiterPlaces, NotifierPlaces, Calling
  <1>. HIDE DEF after
  <1>3. \A x \in Waiters : /\ {after[x], pc[x]} \subseteq WaiterPlaces
                           /\ {after[x], pc[x]} \cap {"testing", "pushing"} # {} =>
                                x # w /\ Inside(x)
    <2>1. ASSUME NEW x \in Waiters, x = h
          PROVE  pc[x] = "unlocking" /\ after[x] = "ending" /\ x # Null
      BY <1>1, <1>2, <2>1 DEF WaiterPlaces, Calling
    <2>2. ASSUME NEW x \in Waiters, x # h
          PROVE  after[x] = pc[x]
      BY <1>2, <2>2 DEF Users
    <2>. QED
      BY <1>1, <2>1, <2>2 DEF Inside, WaiterPlaces
  <1>4. \A n \in Notifiers : {after[n], pc[n]} \subseteq NotifierPlaces \cup {"undefined"}
    BY <1>2 DEF Users, NotifierPlaces
  <1>5. \A x \in Users : pc[x] = "locking" => after[x] = "locking" /\ pc[x] = "locking"
    <2>1. \A x \in Users : pc[x] = "locking" => x # h
      BY <1>1 DEF Calling, Users
    <2>. QED
      BY <1>2, <2>1
  <1>6. \A x \in Waiters : host[x] # Null => after[host[x]] \in Calling
    BY <1>1, <1>2
  <1>7. \A x \in Users : pc[x] \in Calling => pc[x] = pc[x]
    OBVIOUS
  <1>8. h # Null => pc[h] \in Calling /\ \A x \in Waiters : host[x] # h
    BY <1>1
  <1>9. /\ \A x \in Waiters : x # w => tail'[x] = tail[x]
        /\ \A x \in Waiters : x = w => tail'[x] = "none"
        /\ tail' \in [Waiters -> Users \cup {Null, "none"}]
    BY <1>1
  <1>10. pc \in [Users -> WaiterPlaces \cup NotifierPlaces \cup {"undefined"}]
    OBVIOUS
  <1>. HIDE DEF CallsInv, AnyPlaces
  <1>. QED
    BY <1>1, <1>2, <1>3, <1>4, <1>5, <1>6, <1>7, <1>8, <1>9, <1>10, CallsUnlock

LEMMA CallsFinish == ASSUME CallsInv, NEW n \in Notifiers, Finish(n) PROVE CallsInv'
  <1>. DEFINE after  == [pc EXCEPT ![n] = "ending"]
              during == [pc EXCEPT ![n] = "unlocking"]
  <1>1. pc[n] = "notified" /\ tail' = tail /\ n \in Users
    BY DEF Finish, Users
  <1>2. CASE ~HoldLock
    BY <1>1, <1>2, Distinct, CallsAlone DEF Finish, Calling, NotifierPlaces
  <1>3. CASE HoldLock
    <2>. USE Distinct DEF CallsInv, AnyPlaces
    <2>1. UnlockOver(n, n, after, during)
      BY <1>3 DEF Finish
    <2>2. /\ after  \in [Users -> WaiterPlaces \cup NotifierPlaces \cup {"undefined"}]
          /\ during \in [Users -> WaiterPlaces \cup NotifierPlaces \cup {"undefined"}]
          /\ after[n] = "ending" /\ during[n] = "unlocking"
          /\ \A x \in Users : x # n => after[x] = pc[x] /\ during[x] = pc[x]
      BY <1>1 DEF WaiterPlaces
    <2>. HIDE DEF after, during
    <2>3. \A x \in Waiters : /\ {after[x], during[x]} \subseteq WaiterPlaces
                             /\ {after[x], during[x]} \cap {"testing", "pushing"} # {} =>
                                  x # n /\ Inside(x)
      BY <2>2 DEF Users, Inside
    <2>4. \A x \in Notifiers : {after[x], during[x]} \subseteq NotifierPlaces \cup {"undefined"}
      BY <2>2 DEF Users, NotifierPlaces
    <2>5. \A x \in Users : pc[x] = "locking" => after[x] = "locking" /\ during[x] = "locking"
      BY <1>1, <2>2
    <2>6. \A x \in Waiters : host[x] # Null => host[x] # n /\ after[host[x]] \in Calling
      BY <1>1, <2>2 DEF Calls, Calling
    <2>7. \A x \in Users : pc[x] \in Calling => during[x] = pc[x]
      BY <1>1, <2>2 DEF Calling
    <2>8. n # Null => during[n] \in Calling /\ \A x \in Waiters : host[x] # n
      BY <2>2, <2>6 DEF Calling
    <2>9. /\ \A x \in Waiters : x # n => tail'[x] = tail[x]
          /\ \A x \in Waiters : x = n => tail'[x] = "none"
          /\ tail' \in [Waiters -> Users \cup {Null, "none"}]
      BY <1>1
    <2>. HIDE DEF CallsInv, AnyPlaces
    <2>. QED
      BY <1>1, <2>1, <2>2, <2>3, <2>4, <2>5, <2>6, <2>7, <2>8, <2>9, CallsUnlock
  <1>. QED
    BY <1>2, <1>3

LEMMA CallsEnqueue ==
  ASSUME CallsInv, NEW u \in Users, pc[u] # "locking", Enqueue(u), pc'[u] = "locking",
         \A x \in Users : pc[x] = "locking" => pc'[x] = "locking"
  PROVE  GoodQueue' /\ owner' = owner
  <1>1. GoodQueue
    BY DEF CallsInv
  <1>. QED
    BY <1>1, QueueGrows DEF GoodQueue, QueueOfLocking

LEMMA CallsLockHeld == ASSUME CallsInv, NEW w \in Waiters, LockHeld(w) PROVE CallsInv'
  <1>1. /\ pc[w] \in {"idle", "woken"} /\ Enqueue(w) /\ w \in Users
        /\ pc' = BackTo(host[w], [pc EXCEPT ![w] = "locking"])
        /\ host' = [host EXCEPT ![w] = Null] /\ tail' = tail
    BY DEF LockHeld, Users
  <1>2. host[w] # Null => host[w] # w /\ host[w] \in Users /\ pc[host[w]] \in Calling
    BY <1>1 DEF CallsInv, AnyPlaces, Calls, Calling
  <1>3. pc'[w] = "locking" /\ \A x \in Users : pc[x] = "locking" => pc'[x] = "locking"
    BY <1>1, <1>2 DEF BackTo, Calling, CallsInv, AnyPlaces
  <1>4. GoodQueue' /\ owner' = owner
    BY <1>1, <1>3, CallsEnqueue
  <1>. QED
    BY <1>1, <1>4, CallsBack

LEMMA CallsEnd == ASSUME CallsInv, NEW w \in Waiters, End(w) PROVE CallsInv'
  <1>1. /\ pc[w] = "ending" /\ w \in Users
        /\ pc' = BackTo(host[w], [pc EXCEPT ![w] = "idle"])
        /\ host' = [host EXCEPT ![w] = Null] /\ tail' = tail
        /\ owner' = owner /\ queue' = queue
    BY DEF End, Users
  <1>2. host[w] # Null => host[w] # w /\ host[w] \in Users /\ pc[host[w]] \in Calling
    BY <1>1 DEF CallsInv, AnyPlaces, Calls, Calling
  <1>3. \A x \in Users : pc[x] = "locking" => pc'[x] = "locking"
    BY <1>1, <1>2 DEF BackTo, Calling, CallsInv, AnyPlaces
  <1>4. GoodQueue'
    <2>1. \A i \in 1..Len(queue) : queue[i] \in Users
      BY DEF CallsInv, GoodQueue
    <2>. QED
      BY <1>1, <1>3, <2>1 DEF CallsInv, GoodQueue, QueueOfLocking
  <1>. QED
    BY <1>1, <1>4, CallsBack

LEMMA CallsPush == ASSUME CallsInv, NEW w \in Waiters, Push(w) PROVE CallsInv'
  <1>. USE Distinct DEF CallsInv, AnyPlaces
  <1>1. CASE UNCHANGED <<pc, tail, host, owner, queue>>
    BY <1>1 DEF OwnersInside, Inside, GoodQueue, QueueOfLocking, Calls, Apart
  <1>2. CASE /\ pc' = [pc EXCEPT ![w] = "waiting"]
             /\ tail' = [tail EXCEPT ![w] = host[w]]
             /\ host' = [host EXCEPT ![w] = Null]
    <2>1. /\ pc[w] = "pushing" /\ owner = w /\ owner' = owner /\ queue' = queue /\ w \in Users
      BY DEF Push, OwnersInside, Inside, Users
    <2>2. /\ pc'[w] = "waiting" /\ \A x \in Users : x # w => pc'[x] = pc[x]
          /\ tail'[w] = host[w] /\ host'[w] = Null
          /\ \A x \in Waiters : x # w => tail'[x] = tail[x] /\ host'[x] = host[x]
      BY <1>2, <2>1
    <2>3. AnyPlaces'
      BY <1>2, <2>1 DEF Users, WaiterPlaces
    <2>4. OwnersInside'
      BY <2>1, <2>2 DEF OwnersInside, Inside, Users
    <2>5. GoodQueue'
      <3>1. \A i \in 1..Len(queue) : queue[i] \in Users
        BY DEF GoodQueue
      <3>. QED
        BY <2>1, <2>2, <3>1 DEF GoodQueue, QueueOfLocking
    <2>6. \A x \in Users : pc[x] \in Calling => pc'[x] = pc[x]
      BY <2>1, <2>2 DEF Calling
    <2>7. \A x \in Waiters : /\ host'[x] # Null => host[x] = host'[x] /\ x # w
                             /\ tail'[x] \notin {Null, "none"} =>
                                  \/ x = w /\ tail'[x] = host[w]
                                  \/ x # w /\ tail'[x] = tail[x]
      BY <2>2
    <2>8. \A x \in Waiters : /\ host'[x] # Null => pc'[host'[x]] \in Calling
                             /\ tail'[x] \notin {Null, "none"} => pc'[tail'[x]] \in Calling
      BY <2>6, <2>7 DEF Calls
    <2>9. \A v, x \in Waiters : Apart(v, x)'
      BY <2>2, <2>7 DEF Calls, Apart
    <2>10. Calls'
      BY <2>8, <2>9 DEF Calls, Calling
    <2>. QED
      BY <2>3, <2>4, <2>5, <2>10
  <1>. QED
    BY <1>1, <1>2 DEF Push

LEMMA CallsWake == ASSUME CallsInv, NEW n \in Notifiers, Wake(n) PROVE CallsInv'
  <1>. DEFINE w == continuation_[head[n]]
  <1>. USE Distinct DEF CallsInv, AnyPlaces
  <1>1. /\ pc[n] = "waking" /\ n \in Users /\ n \notin Waiters
        /\ owner' = owner /\ queue' = queue /\ tail' = tail
    BY DEF Wake, Users
  <1>2. CASE pc' = [pc EXCEPT ![n] = "undefined"] /\ host' = host
    BY <1>1, <1>2, CallsAlone DEF Calling
  <1>3. CASE /\ w \in Waiters /\ pc[w] = "waiting"
             /\ pc' = [pc EXCEPT ![n] = "resuming", ![w] = "woken"]
             /\ host' = [host EXCEPT ![w] = n]
    <2>. HIDE DEF w
    <2>1. w \in Waiters \/ w \notin Users
      BY <1>3
    <2>2. w # n
      BY <1>1, <1>3
    <2>3. /\ pc'[n] = "resuming"
          /\ w \in Waiters => pc'[w] = "woken"
          /\ \A x \in Users : x # n /\ x # w => pc'[x] = pc[x]
      BY <1>1, <1>3, <2>2 DEF Users
    <2>4. /\ \A x \in Waiters : x # w => host'[x] = host[x]
          /\ w \in Waiters => host'[w] = n
      BY <1>3
    <2>5. AnyPlaces'
      BY <1>1, <1>3, <2>1, <2>3 DEF Users, WaiterPlaces, NotifierPlaces
    <2>6. OwnersInside'
      <3>1. \A x \in Waiters : x # n /\ (x = w => pc'[x] = "woken") /\ (x # w => pc'[x] = pc[x])
        BY <1>1, <2>3 DEF Users
      <3>. QED
        BY <1>1, <3>1 DEF OwnersInside, Inside
    <2>7. GoodQueue'
      <3>1. \A i \in 1..Len(queue) : queue[i] \in Users /\ queue[i] # n /\ queue[i] # w
        BY <1>1, <1>3 DEF GoodQueue, QueueOfLocking
      <3>. QED
        BY <1>1, <2>3, <3>1 DEF GoodQueue, QueueOfLocking
    <2>8. \A x \in Users : pc[x] \in Calling => x # n /\ pc'[x] = pc[x]
      BY <1>1, <1>3, <2>3 DEF Calling
    <2>9. \A x \in Waiters : /\ host[x] # Null => /\ host[x] # n /\ host[x] \in Users
                                                  /\ pc'[host[x]] \in Calling
                             /\ tail[x] \notin {Null, "none"} => /\ tail[x] # n /\ tail[x] \in Users
                                                                 /\ pc'[tail[x]] \in Calling
      BY <2>8 DEF Calls
    <2>10. \A x \in Waiters : host'[x] # Null => pc'[host'[x]] \in Calling
      BY <2>3, <2>4, <2>9 DEF Calling
    <2>11. \A x \in Waiters : tail[x] # n
      BY <2>9, <1>1 DEF Users
    <2>12. \A v, x \in Waiters : Apart(v, x)'
      BY <1>1, <2>4, <2>9, <2>11 DEF Calls, Apart
    <2>13. Calls'
      BY <1>1, <2>9, <2>10, <2>12 DEF Calls, Calling
    <2>. QED
      BY <2>5, <2>6, <2>7, <2>13
  <1>. QED
    BY <1>2, <1>3 DEF Wake

LEMMA CallsBegin == ASSUME CallsInv, NEW n \in Notifiers, Begin(n) PROVE CallsInv'
  <1>1. pc[n] = "idle" /\ n \in Users /\ n \notin Waiters /\ UNCHANGED <<host, tail>>
    BY Distinct DEF Begin, Users
  <1>2. CASE UNCHANGED <<owner, queue>> /\ pc' = [pc EXCEPT ![n] = "notifying"]
    BY <1>1, <1>2, CallsAlone DEF Calling, NotifierPlaces
  <1>3. CASE Acquire(n) /\ pc' = [pc EXCEPT ![n] = "notifying"]
    <2>1. pc' = [pc EXCEPT ![n] = IF n \in Waiters THEN "testing" ELSE "notifying"]
      BY <1>1, <1>3
    <2>. QED
      BY <1>1, <1>3, <2>1, CallsAcquire
  <1>4. CASE Enqueue(n) /\ pc' = [pc EXCEPT ![n] = "locking"]
    <2>. USE Distinct DEF CallsInv, AnyPlaces
    <2>1. pc'[n] = "locking" /\ \A x \in Users : x # n => pc'[x] = pc[x]
      BY <1>1, <1>4
    <2>2. GoodQueue' /\ owner' = owner
      BY <1>1, <1>4, <2>1, CallsEnqueue
    <2>3. AnyPlaces'
      BY <1>1, <1>4, <2>2 DEF NotifierPlaces
    <2>4. OwnersInside' /\ Calls'
      BY <1>1, <2>1, <2>2 DEF OwnersInside, Inside, Calls, Calling, Apart, Users
    <2>. QED
      BY <2>2, <2>3, <2>4
  <1>. QED
    BY <1>2, <1>3, <1>4 DEF Begin

LEMMA CallsWalk ==
  ASSUME CallsInv, NEW n \in Notifiers, Notify(n) \/ Take(n) \/ Advance(n) \/ Rest(n)
  PROVE  CallsInv'
  <1>1. n \in Users /\ n \notin Waiters /\ pc[n] \in {"notifying", "taking", "advance", "ending"}
    BY Distinct DEF Users, Notify, Take, Advance, Rest
  <1>2. /\ UNCHANGED <<owner, queue, host, tail>>
        /\ \E place \in NotifierPlaces : pc' = [pc EXCEPT ![n] = place]
    BY DEF Notify, Take, Advance, Rest, NotifierPlaces
  <1>. QED
    BY <1>1, <1>2, CallsAlone DEF Calling

LEMMA NextCalls == CallsInv /\ [Next]_vars => CallsInv'
  <1>. SUFFICES ASSUME CallsInv, [Next]_vars PROVE CallsInv'
    OBVIOUS
  <1>1. ASSUME NEW w \in Waiters, LockFree(w) PROVE CallsInv'
    <2>1. /\ pc[w] \in {"idle", "woken"} /\ Acquire(w) /\ w \in Users /\ UNCHANGED <<host, tail>>
          /\ pc' = [pc EXCEPT ![w] = IF w \in Waiters THEN "testing" ELSE "notifying"]
      BY <1>1 DEF LockFree, Users
    <2>. QED
      BY <2>1, CallsAcquire
  <1>2. ASSUME NEW w \in Waiters, Wait(w) PROVE CallsInv'
    BY <1>2, CallsAlone, Distinct DEF Wait, Users, Inside, Calling, WaiterPlaces
  <1>3. CASE \E w \in Waiters : WaiterStep(w)
    BY <1>1, <1>2, <1>3, CallsLockHeld, CallsTakeFlag, CallsPush, CallsUnlockInSuspend, CallsEnd
    DEF WaiterStep
  <1>4. CASE \E n \in Notifiers : NotifierStep(n)
    BY <1>4, CallsBegin, CallsWalk, CallsWake, CallsFinish DEF NotifierStep
  <1>5. CASE UNCHANGED vars
    BY <1>5 DEF vars, CallsInv, AnyPlaces, OwnersInside, Inside, GoodQueue, QueueOfLocking,
                Calls, Apart
  <1>. QED
    BY <1>3, <1>4, <1>5 DEF Next

\* Wait() has the mutex again when it evaluates the predicate, whether or not
\* notifiers hold the mutex while they notify.
THEOREM PredicateUnderLock == Spec => []TestsUnderLock
  <1>1. CallsInv => TestsUnderLock
    BY DEF CallsInv, OwnersInside, Inside, TestsUnderLock
  <1>. QED
    BY <1>1, InitCalls, NextCalls, PTL DEF Spec

-----------------------------------------------------------------------------
(* The way out of Wait().  TakenTestsAgain is a liveness property; what it     *)
(* rests on is that somebody can go on as long as anybody waits.               *)

\* Whoever owns the mutex is on the way to its Unlock(), and whoever is
\* suspended in Lock() is in the queue of a mutex that is held.
OwnerInv ==
  /\ \A w \in Waiters : owner = w => pc[w] \in {"testing", "pushing"} \/ tail[w] # "none"
  /\ \A n \in Notifiers : owner = n => pc[n] \in InNotify
  /\ owner = Null => queue = <<>>
  /\ \A u \in Users : pc[u] = "locking" => u \in Queued

\* When each user can take a step: the guards of its actions, Begin() and the
\* first Lock() of a waiter apart, which nobody has to call.
WaiterCan(w) ==
  \/ pc[w] = "woken" /\ (owner = Null \/ w \notin Queued)
  \/ pc[w] = "testing" /\ flag /\ owner = w
  \/ pc[w] = "testing" /\ ~flag /\ FreeFrames # {}
  \/ pc[w] \in {"pushing", "ending"}
  \/ tail[w] # "none" /\ owner = w

NotifierCan(n) ==
  \/ pc[n] \in {"notifying", "taking", "waking", "advance", "ending"}
  \/ pc[n] = "notified" /\ owner = n

\* Somebody is suspended in Lock(), or was taken by a Notify() that has yet to
\* resume it.
SomebodyWaits == queue # <<>> \/ \E n \in Notifiers : taken[n] \ woken[n] # {}

\* There is memory for another Wait().
NobodyStuck ==
  SomebodyWaits /\ FreeFrames # {} =>
    (\E w \in Waiters : WaiterCan(w)) \/ \E n \in Notifiers : NotifierCan(n)

\* A step that leaves the mutex alone: the owner goes on inside, and nobody
\* starts to wait for the mutex.
LEMMA OwnerStays ==
  ASSUME OwnerInv, UNCHANGED <<owner, queue>>,
         \A w \in Waiters : owner = w => pc'[w] \in {"testing", "pushing"} \/ tail'[w] # "none",
         \A n \in Notifiers : owner = n => pc'[n] \in InNotify,
         \A u \in Users : pc'[u] = "locking" => pc[u] = "locking"
  PROVE  OwnerInv'
  BY DEF OwnerInv, Queued

\* Locking a free mutex.
LEMMA OwnerAcquires ==
  ASSUME OwnerInv, NEW u \in Users, Acquire(u),
         u \in Waiters => pc'[u] \in {"testing", "pushing"},
         u \in Notifiers => pc'[u] \in InNotify,
         \A v \in Users : pc'[v] = "locking" => pc[v] = "locking"
  PROVE  OwnerInv'
  BY Distinct DEF OwnerInv, Acquire, Queued, Users

\* Queueing for a held one.
LEMMA OwnerQueues ==
  ASSUME CVInv, OwnerInv, NEW u \in Users, Enqueue(u),
         \A w \in Waiters : owner = w => pc'[w] = pc[w] /\ tail'[w] = tail[w],
         \A n \in Notifiers : owner = n => pc'[n] \in InNotify,
         \A v \in Users : pc'[v] = "locking" => pc[v] = "locking" \/ v = u
  PROVE  OwnerInv'
  <1>1. owner' = owner /\ owner # Null /\ queue' = Append(queue, u) /\ queue \in Seq(Users)
    BY DEF Enqueue, CVInv, TypeOK
  <1>2. \A v \in Users : v \in Queued \/ v = u => v \in Queued'
    <2>1. ASSUME NEW i \in DOMAIN queue
          PROVE  i \in DOMAIN Append(queue, u) /\ Append(queue, u)[i] = queue[i]
      BY <1>1
    <2>2. Len(Append(queue, u)) \in DOMAIN Append(queue, u)
          /\ Append(queue, u)[Len(Append(queue, u))] = u
      BY <1>1
    <2>. QED
      BY <1>1, <2>1, <2>2 DEF Queued
  <1>. QED
    BY <1>1, <1>2 DEF OwnerInv

\* Unlock(): the next owner starts inside, and the others stay in the queue.
LEMMA OwnerUnlocks ==
  ASSUME CVInv, OwnerInv, NEW u \in Users, NEW h, NEW after, NEW during,
         UnlockOver(u, h, after, during),
         Users \subseteq DOMAIN after, Users \subseteq DOMAIN during,
         after = [v \in DOMAIN after |-> after[v]],
         during = [v \in DOMAIN during |-> during[v]],
         \A v \in Users : after[v] = "locking" \/ during[v] = "locking" => pc[v] = "locking"
  PROVE  OwnerInv'
  <1>. USE Distinct
  <1>1. queue \in Seq(Users)
    BY DEF CVInv, TypeOK
  <1>2. CASE queue = <<>>
    <2>1. owner' = Null /\ queue' = <<>> /\ pc' = after
      BY <1>2 DEF UnlockOver, Release
    <2>2. \A v \in Users : pc[v] # "locking"
      BY <1>2 DEF OwnerInv, Queued
    <2>. QED
      BY <2>1, <2>2 DEF OwnerInv, Users
  <1>3. CASE queue # <<>>
    <2>. DEFINE x == Head(queue)
    <2>1. x \in Users /\ owner' = x /\ queue' = Tail(queue)
      BY <1>1, <1>3 DEF UnlockOver, Release
    <2>2. /\ x \in Waiters => pc'[x] = "testing"
          /\ x \in Notifiers => pc'[x] = "notifying"
          /\ \A v \in Users : v # x => pc'[v] \in {after[v], during[v]}
      <3>1. CASE x \in Waiters
        <4>1. pc' = [during EXCEPT ![x] = "testing"]
          BY <1>3, <3>1 DEF UnlockOver
        <4>. QED
          BY <2>1, <3>1, <4>1
      <3>2. CASE x \notin Waiters
        <4>1. pc' = [after EXCEPT ![x] = "notifying"]
          BY <1>3, <3>2 DEF UnlockOver
        <4>. QED
          BY <2>1, <3>2, <4>1
      <3>. QED
        BY <3>1, <3>2
    <2>3. ASSUME NEW v \in Users, pc'[v] = "locking"
          PROVE  v \in Queued'
      <3>1. v # x /\ pc[v] = "locking"
        BY <2>1, <2>2, <2>3 DEF Users
      <3>2. PICK i \in 1..Len(queue) : queue[i] = v
        BY <1>1, <3>1 DEF OwnerInv, Queued
      <3>3. i # 1
        BY <1>1, <1>3, <3>1, <3>2
      <3>4. i - 1 \in 1..Len(Tail(queue)) /\ Tail(queue)[i - 1] = v
        BY <1>1, <1>3, <3>2, <3>3
      <3>5. i - 1 \in DOMAIN Tail(queue)
        BY <1>1, <1>3, <3>4
      <3>. QED
        BY <2>1, <3>4, <3>5 DEF Queued
    <2>. QED
      BY <2>1, <2>2, <2>3 DEF OwnerInv, InNotify, Users
  <1>. QED
    BY <1>2, <1>3

\* The owner is nobody's host in an Unlock(), and not in Lock() or after
\* Wait().
LEMMA OwnerIsInside ==
  ASSUME CVInv, OwnerInv
  PROVE  /\ \A w \in Waiters : owner = w => pc[w] \in {"testing", "pushing", "waiting"}
         /\ \A n \in Notifiers : owner = n => pc[n] \in InNotify
         /\ \A w \in Waiters : host[w] # Null =>
              /\ host[w] \in Users
              /\ pc[host[w]] \in {"resuming", "unlocking"}
         /\ \A w \in Waiters : tail[w] \notin {"none", Null} =>
              /\ tail[w] \in Users
              /\ pc[tail[w]] = "unlocking"
  <1>1. \A w \in Waiters : owner = w => pc[w] \in {"testing", "pushing", "waiting"}
    BY DEF OwnerInv, CVInv, OneGuest, Hosted
  <1>2. \A w \in Waiters : host[w] # Null =>
          host[w] \in Users /\ pc[host[w]] \in {"resuming", "unlocking"}
    BY DEF CVInv, TypeOK, OneGuest, Hosted
  <1>3. \A w \in Waiters : tail[w] \notin {"none", Null} =>
          tail[w] \in Users /\ pc[tail[w]] = "unlocking"
    BY DEF CVInv, TypeOK, OneGuest, Hosted
  <1>. QED
    BY <1>1, <1>2, <1>3 DEF OwnerInv

\* A step at the end of which w is at p and its host, if any, goes on.
LeavesTo(w, p) == pc' = BackTo(host[w], [pc EXCEPT ![w] = p])

LEMMA BackToIs ==
  ASSUME Shapes, NEW w \in Waiters, NEW p, host[w] \in Users \cup {Null}, LeavesTo(w, p)
  PROVE  \A v \in Users :
           /\ v = host[w] => /\ pc'[v] \in {"advance", "ending"}
                             /\ pc[v] = "resuming" => pc'[v] = "advance"
           /\ v = w /\ v # host[w] => pc'[v] = p
           /\ v # w /\ v # host[w] => pc'[v] = pc[v]
  <1>. DEFINE places == [pc EXCEPT ![w] = p]
  <1>1. /\ Users \subseteq DOMAIN places /\ places[w] = p
        /\ \A v \in Users : v # w => places[v] = pc[v]
    BY DEF Shapes, Users
  <1>2. CASE host[w] = Null
    <2>1. pc' = places /\ Null \notin Users
      BY <1>2, Distinct DEF LeavesTo, BackTo, Users
    <2>. QED
      BY <1>1, <1>2, <2>1
  <1>3. CASE host[w] # Null
    <2>1. pc' = [places EXCEPT ![host[w]] = Returned(host[w])]
      BY <1>3 DEF LeavesTo, BackTo
    <2>. HIDE DEF places
    <2>2. /\ pc'[host[w]] = Returned(host[w])
          /\ \A v \in Users : v # host[w] => pc'[v] = places[v]
      BY <1>1, <1>3, <2>1
    <2>. QED
      BY <1>1, <2>2 DEF Returned
  <1>. QED
    BY <1>2, <1>3

LEMMA OwnerWaiterStep ==
  ASSUME CVInv, OwnerInv, NEW w \in Waiters, WaiterStep(w)
  PROVE  OwnerInv'
  <1>. USE Distinct
  <1>a. /\ pc \in [Users -> WaiterPlaces \cup NotifierPlaces]
        /\ w \in Users /\ Waiters \subseteq Users /\ Notifiers \subseteq Users
    BY DEF CVInv, Shapes, Users
  <1>b. /\ tail \in [Waiters -> Users \cup {Null, "none"}]
        /\ host \in [Waiters -> Users \cup {Null}]
        /\ Shapes /\ host[w] \in Users \cup {Null}
    BY DEF CVInv, Shapes, TypeOK
  <1>c. Null \notin Users
    BY DEF Users
  <1>d. /\ \A v \in Waiters : owner = v => pc[v] \in {"testing", "pushing", "waiting"}
        /\ \A n \in Notifiers : owner = n => pc[n] \in InNotify
        /\ host[w] # Null => pc[host[w]] \in {"resuming", "unlocking"}
    BY OwnerIsInside
  <1>1. CASE LockFree(w)
    <2>1. Acquire(w) /\ pc' = [pc EXCEPT ![w] = "testing"]
      BY <1>1 DEF LockFree
    <2>. QED
      BY <1>a, <2>1, OwnerAcquires
  <1>2. CASE LockHeld(w)
    <2>1. /\ Enqueue(w) /\ tail' = tail /\ pc[w] \in {"idle", "woken"}
          /\ LeavesTo(w, "locking")
      BY <1>2 DEF LockHeld, LeavesTo
    <2>2. \A v \in Users :
            /\ v = host[w] => /\ pc'[v] \in {"advance", "ending"}
                              /\ pc[v] = "resuming" => pc'[v] = "advance"
            /\ v # w /\ v # host[w] => pc'[v] = pc[v]
      BY <1>a, <1>b, <2>1, BackToIs
    <2>3. \A v \in Waiters : owner = v => pc'[v] = pc[v]
      BY <1>a, <1>c, <1>d, <2>1, <2>2
    <2>4. \A n \in Notifiers : owner = n => pc'[n] \in InNotify
      BY <1>a, <1>c, <1>d, <2>1, <2>2 DEF InNotify
    <2>5. \A v \in Users : pc'[v] = "locking" => pc[v] = "locking" \/ v = w
      BY <2>2
    <2>. QED
      BY <1>a, <2>1, <2>3, <2>4, <2>5, OwnerQueues
  <1>3. CASE TakeFlag(w)
    <2>. DEFINE after  == [pc EXCEPT ![w] = "ending"]
                during == [pc EXCEPT ![w] = "unlocking"]
    <2>1. UnlockOver(w, w, after, during)
      BY <1>3 DEF TakeFlag
    <2>2. \A v \in Users : after[v] = "locking" \/ during[v] = "locking" => pc[v] = "locking"
      BY <1>a
    <2>3. /\ DOMAIN after = Users /\ DOMAIN during = Users
          /\ after = [v \in DOMAIN after |-> after[v]]
          /\ during = [v \in DOMAIN during |-> during[v]]
      BY <1>a
    <2>. HIDE DEF after, during
    <2>. QED
      BY <1>a, <2>1, <2>2, <2>3, OwnerUnlocks
  <1>4. CASE Wait(w)
    <2>1. /\ pc[w] = "testing" /\ pc' = [pc EXCEPT ![w] = "pushing"]
          /\ UNCHANGED <<owner, queue, tail>>
      BY <1>4 DEF Wait
    <2>. QED
      BY <1>a, <2>1, OwnerStays DEF OwnerInv
  <1>5. CASE Push(w)
    <2>1. UNCHANGED <<owner, queue>> /\ pc[w] = "pushing"
      BY <1>5 DEF Push
    <2>2. CASE UNCHANGED <<pc, tail>>
      BY <2>1, <2>2, OwnerStays DEF OwnerInv
    <2>3. CASE pc' = [pc EXCEPT ![w] = "waiting"] /\ tail' = [tail EXCEPT ![w] = host[w]]
      <3>1. tail'[w] # "none" /\ \A v \in Waiters : v # w => tail'[v] = tail[v]
        BY <1>b, <2>3
      <3>. QED
        BY <1>a, <2>1, <2>3, <3>1, OwnerStays DEF OwnerInv
    <2>. QED
      BY <1>5, <2>2, <2>3 DEF Push
  <1>6. CASE UnlockInSuspend(w)
    <2>. DEFINE after == BackTo(tail[w], pc)
    <2>1. UnlockOver(w, tail[w], after, pc) /\ tail[w] \in Users \cup {Null}
      BY <1>6, <1>b DEF UnlockInSuspend
    <2>2. \A v \in Users : after[v] = "locking" \/ pc[v] = "locking" => pc[v] = "locking"
      BY <1>a, <2>1 DEF BackTo, Returned
    <2>3. /\ DOMAIN after = Users /\ DOMAIN pc = Users
          /\ after = [v \in DOMAIN after |-> after[v]] /\ pc = [v \in DOMAIN pc |-> pc[v]]
      BY <1>a DEF BackTo
    <2>. HIDE DEF after
    <2>. QED
      BY <1>a, <2>1, <2>2, <2>3, OwnerUnlocks
  <1>7. CASE End(w)
    <2>1. /\ UNCHANGED <<owner, queue, tail>> /\ pc[w] = "ending"
          /\ LeavesTo(w, "idle")
      BY <1>7 DEF End, LeavesTo
    <2>2. \A v \in Users :
            /\ v = host[w] => /\ pc'[v] \in {"advance", "ending"}
                              /\ pc[v] = "resuming" => pc'[v] = "advance"
            /\ v = w /\ v # host[w] => pc'[v] = "idle"
            /\ v # w /\ v # host[w] => pc'[v] = pc[v]
      BY <1>a, <1>b, <2>1, BackToIs
    <2>3. \A v \in Waiters : owner = v => pc'[v] = pc[v]
      BY <1>a, <1>c, <1>d, <2>1, <2>2
    <2>4. \A v \in Waiters : owner = v =>
            pc'[v] \in {"testing", "pushing"} \/ tail'[v] # "none"
      BY <2>1, <2>3 DEF OwnerInv
    <2>5. \A n \in Notifiers : owner = n => pc'[n] \in InNotify
      BY <1>a, <1>c, <1>d, <2>1, <2>2 DEF InNotify
    <2>6. \A v \in Users : pc'[v] = "locking" => pc[v] = "locking"
      BY <2>2
    <2>. QED
      BY <2>1, <2>4, <2>5, <2>6, OwnerStays
  <1>. QED
    BY <1>1, <1>2, <1>3, <1>4, <1>5, <1>6, <1>7 DEF WaiterStep

LEMMA OwnerNotifierStep ==
  ASSUME HoldLock, CVInv, CVInv', OwnerInv, NEW n \in Notifiers, NotifierStep(n)
  PROVE  OwnerInv'
  <1>. USE Distinct
  <1>a. /\ pc \in [Users -> WaiterPlaces \cup NotifierPlaces]
        /\ n \in Users /\ n \notin Waiters /\ Waiters \subseteq Users /\ Notifiers \subseteq Users
    BY DEF CVInv, Shapes, Users
  <1>1. CASE Begin(n)
    <2>1. CASE owner = Null
      <3>1. Acquire(n) /\ pc' = [pc EXCEPT ![n] = "notifying"]
        BY <1>1, <2>1 DEF Begin
      <3>. QED
        BY <1>a, <3>1, OwnerAcquires DEF InNotify
    <2>2. CASE owner # Null
      <3>1. Enqueue(n) /\ pc' = [pc EXCEPT ![n] = "locking"] /\ tail' = tail /\ pc[n] = "idle"
        BY <1>1, <2>2 DEF Begin
      <3>2. owner # n
        BY <3>1, OwnerIsInside DEF InNotify
      <3>. QED
        BY <1>a, <3>1, <3>2, OwnerQueues DEF OwnerInv
    <2>. QED
      BY <2>1, <2>2
  <1>2. CASE Finish(n)
    <2>. DEFINE after  == [pc EXCEPT ![n] = "ending"]
                during == [pc EXCEPT ![n] = "unlocking"]
    <2>1. UnlockOver(n, n, after, during)
      BY <1>2 DEF Finish
    <2>2. \A v \in Users : after[v] = "locking" \/ during[v] = "locking" => pc[v] = "locking"
      BY <1>a
    <2>3. /\ DOMAIN after = Users /\ DOMAIN during = Users
          /\ after = [v \in DOMAIN after |-> after[v]]
          /\ during = [v \in DOMAIN during |-> during[v]]
      BY <1>a
    <2>. HIDE DEF after, during
    <2>. QED
      BY <1>a, <2>1, <2>2, <2>3, OwnerUnlocks
  <1>3. CASE Notify(n) \/ Take(n) \/ Advance(n)
    <2>1. /\ UNCHANGED <<owner, queue, tail>>
          /\ \E p \in InNotify : pc' = [pc EXCEPT ![n] = p]
      BY <1>3 DEF Notify, Take, Advance, InNotify
    <2>. QED
      BY <1>a, <2>1, OwnerStays DEF OwnerInv, InNotify
  <1>4. CASE Wake(n)
    <2>. DEFINE w == continuation_[head[n]]
    <2>1. UNCHANGED <<owner, queue, tail>> /\ pc[n] = "waking" /\ owner = n
      BY <1>4 DEF Wake, CVInv, LockedWhileInside, InNotify
    <2>2. \A v \in Users : v # n => pc'[v] \in {pc[v], "woken"}
      BY <1>4, <1>a DEF Wake
    <2>3. pc'[n] = "resuming"
      <3>1. pc'[n] # "undefined"
        BY DEF CVInv, TypeOK
      <3>2. CASE w \in Waiters /\ pc[w] = "waiting" /\ frame[w] = head[n]
        <4>1. pc' = [pc EXCEPT ![n] = "resuming", ![w] = "woken"] /\ w # n
          BY <1>4, <2>1, <3>2 DEF Wake
        <4>. QED
          BY <1>a, <4>1
      <3>3. CASE ~(w \in Waiters /\ pc[w] = "waiting" /\ frame[w] = head[n])
        <4>1. pc' = [pc EXCEPT ![n] = "undefined"]
          BY <1>4, <3>3 DEF Wake
        <4>. QED
          BY <1>a, <3>1, <4>1
      <3>. QED
        BY <3>2, <3>3
    <2>. QED
      BY <1>a, <2>1, <2>2, <2>3, OwnerStays DEF InNotify
  <1>5. CASE Rest(n)
    <2>1. /\ UNCHANGED <<owner, queue, tail>> /\ pc[n] = "ending"
          /\ pc' = [pc EXCEPT ![n] = "idle"]
      BY <1>5 DEF Rest
    <2>2. owner # n
      BY <2>1, OwnerIsInside DEF InNotify
    <2>. QED
      BY <1>a, <2>1, <2>2, OwnerStays DEF OwnerInv
  <1>. QED
    BY <1>1, <1>2, <1>3, <1>4, <1>5 DEF NotifierStep

\* The owner of the mutex goes on, unless it is a notifier that waits for the
\* waiter it has resumed: that one goes on to its Lock().
LEMMA OwnerCan ==
  ASSUME CVInv, OwnerInv, FreeFrames # {}, owner # Null
  PROVE  (\E w \in Waiters : WaiterCan(w)) \/ \E n \in Notifiers : NotifierCan(n)
  <1>1. CASE owner \in Waiters
    <2>1. pc[owner] \in {"testing", "pushing"} \/ tail[owner] # "none"
      BY <1>1 DEF OwnerInv
    <2>2. WaiterCan(owner)
      BY <2>1 DEF WaiterCan
    <2>. QED
      BY <1>1, <2>2
  <1>2. CASE owner \in Notifiers /\ pc[owner] # "resuming"
    <2>1. NotifierCan(owner)
      BY <1>2 DEF OwnerInv, NotifierCan, InNotify
    <2>. QED
      BY <1>2, <2>1
  <1>3. CASE owner \in Notifiers /\ pc[owner] = "resuming"
    <2>. DEFINE w == continuation_[head[owner]]
    <2>1. pc[w] = "woken" /\ w \in woken[owner]
      BY <1>3 DEF CVInv, Walk
    <2>2. w \in Waiters
      <3>1. woken[owner] \in SUBSET Waiters
        BY <1>3 DEF CVInv, TypeOK
      <3>. QED
        BY <2>1, <3>1
    <2>3. w \notin Queued
      <3>1. QueueOfLocking /\ DOMAIN queue = 1..Len(queue)
        BY DEF CVInv, TypeOK
      <3>. QED
        BY <2>1, <3>1 DEF QueueOfLocking, Queued
    <2>. QED
      BY <2>1, <2>2, <2>3 DEF WaiterCan
  <1>. QED
    BY <1>1, <1>2, <1>3 DEF CVInv, TypeOK, Users

\* As long as anybody is suspended in Lock(), or was taken by a Notify() and not
\* resumed yet, a waiter or a notifier can take a step: resuming one inside the
\* other, with the mutex passed on from stack to stack, never leaves everybody
\* waiting for somebody else.
THEOREM SomebodyCanGoOn == ASSUME HoldLock, ~SlotReused PROVE Spec => []NobodyStuck
  <1>1. Init => OwnerInv
    BY Distinct DEF Init, LockInit, OwnerInv, Users
  <1>2. CVInv /\ CVInv' /\ OwnerInv /\ [Next]_vars => OwnerInv'
    <2>1. CASE UNCHANGED vars
      BY <2>1 DEF vars, OwnerInv, Queued
    <2>. QED
      BY <2>1, OwnerWaiterStep, OwnerNotifierStep DEF Next
  <1>3. CVInv /\ OwnerInv => NobodyStuck
    <2>. SUFFICES ASSUME CVInv, OwnerInv, SomebodyWaits, FreeFrames # {}
                  PROVE  (\E w \in Waiters : WaiterCan(w)) \/ \E n \in Notifiers : NotifierCan(n)
      BY DEF NobodyStuck
    <2>1. ASSUME NEW n \in Notifiers, taken[n] \ woken[n] # {}
          PROVE  owner = n
      <3>1. pc[n] \in Walking
        BY <2>1 DEF CVInv, TypeOK, Counts, Walking
      <3>. QED
        BY <3>1 DEF CVInv, LockedWhileInside, InNotify, Walking
    <2>2. owner # Null
      BY <2>1, Distinct DEF SomebodyWaits, OwnerInv
    <2>. QED
      BY <2>2, OwnerCan
  <1>. QED
    BY <1>1, <1>2, <1>3, CVInvariant, PTL DEF Spec
=============================================================================
