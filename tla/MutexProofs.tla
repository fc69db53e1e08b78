---------------------------- MODULE MutexProofs ----------------------------
(***************************************************************************)
(* Proofs about Mutex, for any set of users.                               *)
(*                                                                         *)
(* MutexInv says where pointers lead and that no two lead to the same      *)
(* user.  From it follow exclusion and the assertions.  That the lists     *)
(* lead to everybody, in one order, is a second invariant, InOrder, which  *)
(* the refinements rest on.                                                *)
(***************************************************************************)
EXTENDS Mutex, TLAPS, WellFoundedInduction, FiniteSetTheorems, SequenceTheorems

Queued(u) == pc[u] = "queued"
Reversing(u) == pc[u] = "reversing"

\* Every pointer of the mutex leads to a suspended user, so that whoever is
\* resumed is somebody that waits.
PointsToQueued ==
  /\ state_ \in Users => Queued(state_)
  /\ awaiter_ # Null /\ (\A u \in Users : ~Reversing(u)) => Queued(awaiter_)
  /\ \A u \in Users :
       /\ Reversing(u) /\ curr[u] # Null => Queued(curr[u])
       /\ Reversing(u) /\ rest[u] # Null => Queued(rest[u])
       /\ Queued(u) /\ next_[u] # Null => Queued(next_[u])

\* No two pointers lead to the same user, so that nobody is resumed twice.
NoSharing ==
  /\ \A u, v \in Users :
       Queued(u) /\ Queued(v) /\ next_[u] = next_[v] /\ next_[u] # Null => u = v
  /\ \A u \in Users : Queued(u) /\ next_[u] # Null =>
       /\ next_[u] # state_
       /\ (\A x \in Users : ~Reversing(x)) => next_[u] # awaiter_
       /\ \A x \in Users : Reversing(x) => next_[u] # curr[x] /\ next_[u] # rest[x]
  /\ state_ \in Users /\ (\A x \in Users : ~Reversing(x)) => state_ # awaiter_
  /\ \A x \in Users : Reversing(x) =>
       /\ state_ \in Users => state_ # curr[x] /\ state_ # rest[x]
       /\ curr[x] # Null => curr[x] # rest[x]

\* Every suspended user is led to by some pointer.
Reached ==
  \A u \in Users : Queued(u) =>
    \/ state_ = u
    \/ awaiter_ = u /\ \A x \in Users : ~Reversing(x)
    \/ \E x \in Users : Reversing(x) /\ (curr[x] = u \/ rest[x] = u)
    \/ \E v \in Users : Queued(v) /\ next_[v] = u

\* The holder's list is empty unless the holder is in its critical section:
\* Unlock() empties it before it lets the mutex go or takes the stack.
ListEmpty ==
  /\ state_ = Unlocked => awaiter_ = Null
  /\ \A u \in Users : pc[u] \in {"unlocking", "releasing", "taking"} => awaiter_ = Null

\* The Unlock() that a resumed coroutine runs in waits for it and for nobody
\* else; a suspended coroutine runs nowhere.
HostsWait ==
  /\ \A u \in Users : host[u] # Null => pc[host[u]] = "resuming"
  /\ \A u, v \in Users : host[u] = host[v] /\ host[u] # Null => u = v
  /\ \A u \in Users : Queued(u) => host[u] = Null

MutexInv == /\ TypeOK
            /\ MutualExclusion
            /\ UnlockAsserts
            /\ PointsToQueued
            /\ NoSharing
            /\ Reached
            /\ ListEmpty
            /\ HostsWait

-----------------------------------------------------------------------------
(* The invariant is inductive: one lemma for each action.                  *)

LEMMA InitInv == Init => MutexInv
  BY MutexAssumption
  DEF Init, MutexInv, TypeOK, MutualExclusion, UnlockAsserts, PointsToQueued,
      NoSharing, Reached, ListEmpty, HostsWait, Queued, Reversing, Holds,
      Releasing, Places, Link

LEMMA TryLockInv ==
  ASSUME MutexInv, NEW u \in Users, TryLock(u)
  PROVE  MutexInv'
  BY MutexAssumption
  DEF TryLock, MutexInv, TypeOK, MutualExclusion, UnlockAsserts, PointsToQueued,
      NoSharing, Reached, ListEmpty, HostsWait, Queued, Reversing, Holds,
      Releasing, Places, Link

LEMMA LockInv ==
  ASSUME MutexInv, NEW u \in Users, Lock(u)
  PROVE  MutexInv'
  BY MutexAssumption
  DEF Lock, MutexInv, TypeOK, MutualExclusion, UnlockAsserts, PointsToQueued,
      NoSharing, Reached, ListEmpty, HostsWait, Queued, Reversing, Holds,
      Releasing, Places, Link

LEMMA LoadToLockInv ==
  ASSUME MutexInv, NEW u \in Users, LoadToLock(u)
  PROVE  MutexInv'
  BY MutexAssumption
  DEF LoadToLock, MutexInv, TypeOK, MutualExclusion, UnlockAsserts, PointsToQueued,
      NoSharing, Reached, ListEmpty, HostsWait, Queued, Reversing, Holds,
      Releasing, Places, Link

LEMMA LockCasInv ==
  ASSUME MutexInv, NEW u \in Users, LockCas(u)
  PROVE  MutexInv'
  BY MutexAssumption
  DEF LockCas, MutexInv, TypeOK, MutualExclusion, UnlockAsserts, PointsToQueued,
      NoSharing, Reached, ListEmpty, HostsWait, Queued, Reversing, Holds,
      Releasing, Places, Link

LEMMA PushCasInv ==
  ASSUME MutexInv, NEW u \in Users, PushCas(u)
  PROVE  MutexInv'
  <1> USE MutexAssumption
      DEF PushCas, BackToHost, MutexInv, TypeOK, MutualExclusion, UnlockAsserts, PointsToQueued,
          NoSharing, Reached, ListEmpty, HostsWait, Queued, Reversing, Holds,
          Releasing, Places, Link
  <1>1. TypeOK'
    OBVIOUS
  <1>2. MutualExclusion'
    OBVIOUS
  <1>3. UnlockAsserts'
    OBVIOUS
  <1>4. PointsToQueued'
    OBVIOUS
  <1>5. NoSharing'
    OBVIOUS
  <1>6. Reached'
    OBVIOUS
  <1>7. ListEmpty'
    OBVIOUS
  <1>8. HostsWait'
    OBVIOUS
  <1>. QED
    BY <1>1, <1>2, <1>3, <1>4, <1>5, <1>6, <1>7, <1>8

LEMMA LockCasFailsInv ==
  ASSUME MutexInv, NEW u \in Users, LockCasFails(u)
  PROVE  MutexInv'
  <1> USE MutexAssumption
      DEF LockCasFails, MutexInv, TypeOK, MutualExclusion, UnlockAsserts, PointsToQueued,
          NoSharing, Reached, ListEmpty, HostsWait, Queued, Reversing, Holds,
          Releasing, Places, Link
  <1>1. TypeOK'
    OBVIOUS
  <1>2. MutualExclusion'
    OBVIOUS
  <1>3. UnlockAsserts'
    OBVIOUS
  <1>4. PointsToQueued'
    OBVIOUS
  <1>5. NoSharing'
    OBVIOUS
  <1>6. Reached'
    OBVIOUS
  <1>7. ListEmpty'
    OBVIOUS
  <1>8. HostsWait'
    OBVIOUS
  <1>. QED
    BY <1>1, <1>2, <1>3, <1>4, <1>5, <1>6, <1>7, <1>8

LEMMA HandOverInv ==
  ASSUME MutexInv, NEW u \in Users, HandOver(u)
  PROVE  MutexInv'
  <1> USE MutexAssumption
      DEF HandOver, Resume, MutexInv, TypeOK, MutualExclusion, UnlockAsserts, PointsToQueued,
          NoSharing, Reached, ListEmpty, HostsWait, Queued, Reversing, Holds,
          Releasing, Places, Link
  <1>1. TypeOK'
    OBVIOUS
  <1>2. MutualExclusion'
    OBVIOUS
  <1>3. UnlockAsserts'
    OBVIOUS
  <1>4. PointsToQueued'
    OBVIOUS
  <1>5. NoSharing'
    OBVIOUS
  <1>6. Reached'
    OBVIOUS
  <1>7. ListEmpty'
    OBVIOUS
  <1>8. HostsWait'
    OBVIOUS
  <1>. QED
    BY <1>1, <1>2, <1>3, <1>4, <1>5, <1>6, <1>7, <1>8

LEMMA UnlockInv ==
  ASSUME MutexInv, NEW u \in Users, Unlock(u)
  PROVE  MutexInv'
  BY MutexAssumption
  DEF Unlock, MutexInv, TypeOK, MutualExclusion, UnlockAsserts, PointsToQueued,
      NoSharing, Reached, ListEmpty, HostsWait, Queued, Reversing, Holds,
      Releasing, Places, Link

LEMMA LoadToUnlockInv ==
  ASSUME MutexInv, NEW u \in Users, LoadToUnlock(u)
  PROVE  MutexInv'
  BY MutexAssumption
  DEF LoadToUnlock, MutexInv, TypeOK, MutualExclusion, UnlockAsserts, PointsToQueued,
      NoSharing, Reached, ListEmpty, HostsWait, Queued, Reversing, Holds,
      Releasing, Places, Link

LEMMA UnlockCasInv ==
  ASSUME MutexInv, NEW u \in Users, UnlockCas(u)
  PROVE  MutexInv'
  BY MutexAssumption
  DEF UnlockCas, MutexInv, TypeOK, MutualExclusion, UnlockAsserts, PointsToQueued,
      NoSharing, Reached, ListEmpty, HostsWait, Queued, Reversing, Holds,
      Releasing, Places, Link

LEMMA UnlockCasFailsInv ==
  ASSUME MutexInv, NEW u \in Users, UnlockCasFails(u)
  PROVE  MutexInv'
  BY MutexAssumption
  DEF UnlockCasFails, MutexInv, TypeOK, MutualExclusion, UnlockAsserts, PointsToQueued,
      NoSharing, Reached, ListEmpty, HostsWait, Queued, Reversing, Holds,
      Releasing, Places, Link

LEMMA TakeStackInv ==
  ASSUME MutexInv, NEW u \in Users, TakeStack(u)
  PROVE  MutexInv'
  <1> USE MutexAssumption
      DEF TakeStack, MutexInv, TypeOK, MutualExclusion, UnlockAsserts, PointsToQueued,
          NoSharing, Reached, ListEmpty, HostsWait, Queued, Reversing, Holds,
          Releasing, Places, Link
  <1>1. TypeOK'
    OBVIOUS
  <1>2. MutualExclusion'
    OBVIOUS
  <1>3. UnlockAsserts'
    OBVIOUS
  <1>4. PointsToQueued'
    OBVIOUS
  <1>5. NoSharing'
    OBVIOUS
  <1>6. Reached'
    OBVIOUS
  <1>7. ListEmpty'
    OBVIOUS
  <1>8. HostsWait'
    OBVIOUS
  <1>. QED
    BY <1>1, <1>2, <1>3, <1>4, <1>5, <1>6, <1>7, <1>8

LEMMA ReverseOneInv ==
  ASSUME MutexInv, NEW u \in Users, ReverseOne(u)
  PROVE  MutexInv'
  <1> USE MutexAssumption
      DEF ReverseOne, MutexInv, TypeOK, MutualExclusion, UnlockAsserts, PointsToQueued,
          NoSharing, Reached, ListEmpty, HostsWait, Queued, Reversing, Holds,
          Releasing, Places, Link
  <1>1. TypeOK'
    OBVIOUS
  <1>2. MutualExclusion'
    OBVIOUS
  <1>3. UnlockAsserts'
    OBVIOUS
  <1>4. PointsToQueued'
    OBVIOUS
  <1>5. NoSharing'
    OBVIOUS
  <1>6. Reached'
    OBVIOUS
  <1>7. ListEmpty'
    OBVIOUS
  <1>8. HostsWait'
    OBVIOUS
  <1>. QED
    BY <1>1, <1>2, <1>3, <1>4, <1>5, <1>6, <1>7, <1>8

LEMMA HandOverTakenInv ==
  ASSUME MutexInv, NEW u \in Users, HandOverTaken(u)
  PROVE  MutexInv'
  <1> USE MutexAssumption
      DEF HandOverTaken, Resume, MutexInv, TypeOK, MutualExclusion, UnlockAsserts, PointsToQueued,
          NoSharing, Reached, ListEmpty, HostsWait, Queued, Reversing, Holds,
          Releasing, Places, Link
  <1>1. TypeOK'
    OBVIOUS
  <1>2. MutualExclusion'
    OBVIOUS
  <1>3. UnlockAsserts'
    OBVIOUS
  <1>4. PointsToQueued'
    OBVIOUS
  <1>5. NoSharing'
    OBVIOUS
  <1>6. Reached'
    OBVIOUS
  <1>7. ListEmpty'
    OBVIOUS
  <1>8. HostsWait'
    OBVIOUS
  <1>. QED
    BY <1>1, <1>2, <1>3, <1>4, <1>5, <1>6, <1>7, <1>8

LEMMA LeaveInv ==
  ASSUME MutexInv, NEW u \in Users, Leave(u)
  PROVE  MutexInv'
  <1> USE MutexAssumption
      DEF Leave, BackToHost, MutexInv, TypeOK, MutualExclusion, UnlockAsserts, PointsToQueued,
          NoSharing, Reached, ListEmpty, HostsWait, Queued, Reversing, Holds,
          Releasing, Places, Link
  <1>1. TypeOK'
    OBVIOUS
  <1>2. MutualExclusion'
    OBVIOUS
  <1>3. UnlockAsserts'
    OBVIOUS
  <1>4. PointsToQueued'
    OBVIOUS
  <1>5. NoSharing'
    OBVIOUS
  <1>6. Reached'
    OBVIOUS
  <1>7. ListEmpty'
    OBVIOUS
  <1>8. HostsWait'
    OBVIOUS
  <1>. QED
    BY <1>1, <1>2, <1>3, <1>4, <1>5, <1>6, <1>7, <1>8

LEMMA NextInv == MutexInv /\ [Next]_vars => MutexInv'
  <1>. SUFFICES ASSUME MutexInv, [Next]_vars
                PROVE  MutexInv'
    OBVIOUS
  <1>1. ASSUME NEW u \in Users, LockStep(u)
        PROVE  MutexInv'
    BY <1>1, TryLockInv, LockInv, LoadToLockInv, LockCasInv, PushCasInv, LockCasFailsInv
    DEF LockStep
  <1>2. ASSUME NEW u \in Users, UnlockStep(u)
        PROVE  MutexInv'
    BY <1>2, HandOverInv, UnlockInv, LoadToUnlockInv, UnlockCasInv, UnlockCasFailsInv,
       TakeStackInv, ReverseOneInv, HandOverTakenInv
    DEF UnlockStep
  <1>3. ASSUME NEW u \in Users, Leave(u)
        PROVE  MutexInv'
    BY <1>3, LeaveInv
  <1>4. CASE UNCHANGED vars
    BY <1>4
    DEF vars, MutexInv, TypeOK, MutualExclusion, UnlockAsserts, PointsToQueued,
        NoSharing, Reached, ListEmpty, HostsWait, Queued, Reversing, Holds
  <1>. QED
    BY <1>1, <1>2, <1>3, <1>4 DEF Next

\* MutexInv holds in every reachable state.
THEOREM Invariance == Spec => []MutexInv
  BY InitInv, NextInv, PTL DEF Spec

\* Every variable keeps its type; in particular Unlock() never follows a
\* null pointer.
THEOREM TypeCorrect == Spec => []TypeOK
  <1>1. MutexInv => TypeOK
    BY DEF MutexInv
  <1>. QED
    BY <1>1, Invariance, PTL

\* At most one user holds the mutex, however its users interleave, and
\* state_ tells whether anybody does.
THEOREM Exclusion == Spec => []MutualExclusion
  <1>1. MutexInv => MutualExclusion
    BY DEF MutexInv
  <1>. QED
    BY <1>1, Invariance, PTL

\* No assertion of Unlock() fails.
THEOREM AssertsHold == Spec => []UnlockAsserts
  <1>1. MutexInv => UnlockAsserts
    BY DEF MutexInv
  <1>. QED
    BY <1>1, Invariance, PTL

-----------------------------------------------------------------------------
(* The order of service.                                                   *)

\* q has users at the positions from i to j.
UsersAt(q, i, j) == /\ i \in Nat /\ j \in Nat /\ i <= j + 1
                    /\ \A x \in i..j : q[x] \in Users

\* q and r have the same users, at the positions from i to j and from k on.
SameAt(q, i, j, r, k) == \A x \in 0..(j - i) : q[i + x] = r[k + x]

\* A pointer leads to one list: two readings of it, from i to j and from k
\* to l, are of the same length and meet the same users.
LEMMA SameForward ==
  ASSUME NEW p, NEW q, NEW r, NEW i, NEW j, NEW k, NEW l,
         UsersAt(q, i, j), UsersAt(r, k, l),
         Forward(p, q, i, j), Forward(p, r, k, l)
  PROVE  j - i = l - k /\ SameAt(q, i, j, r, k)
  <1>. USE DEF UsersAt, SameAt
  <1>1. CASE i > j
    BY <1>1 DEF Forward
  <1>2. CASE k > l
    BY <1>2 DEF Forward
  <1>3. CASE i <= j /\ k <= l
    <2>. DEFINE both == {x \in Nat : x <= j - i /\ x <= l - k}
                apart == {x \in both : q[i + x] # r[k + x]}
    <2>1. /\ p = q[i] /\ \A x \in i..(j - 1) : next_[q[x]] = q[x + 1]
          /\ p = r[k] /\ \A x \in k..(l - 1) : next_[r[x]] = r[x + 1]
          /\ next_[q[j]] \notin Users /\ next_[r[l]] \notin Users
      BY <1>3 DEF Forward
    <2>2. ASSUME apart # {}
          PROVE  FALSE
      <3>1. apart \subseteq Nat
        OBVIOUS
      <3>2. PICK m \in apart : \A n \in apart : ~(<<n, m>> \in OpToRel(<, Nat))
        <4>. HIDE DEF apart
        <4>. QED
          BY <2>2, <3>1, NatLessThanWellFounded, WFMin
      <3>3. \A n \in apart : ~(n < m)
        BY <3>1, <3>2 DEF OpToRel
      <3>4. m \in both /\ q[i + m] # r[k + m]
        BY <3>2
      <3>5. m # 0
        <4>1. i + 0 = i /\ k + 0 = k /\ q[i] = r[k]
          BY <2>1
        <4>. QED
          BY <3>4, <4>1
      <3>6. m - 1 \in both /\ m - 1 < m
        BY <3>4, <3>5
      <3>7. q[i + (m - 1)] = r[k + (m - 1)]
        BY <3>3, <3>6
      <3>8. /\ i + (m - 1) \in i..(j - 1) /\ (i + (m - 1)) + 1 = i + m
            /\ k + (m - 1) \in k..(l - 1) /\ (k + (m - 1)) + 1 = k + m
        BY <3>4, <3>5
      <3>. QED
        BY <2>1, <3>4, <3>7, <3>8
    <2>3. \A x \in both : q[i + x] = r[k + x]
      BY <2>2
    <2>4. ASSUME j - i < l - k
          PROVE  FALSE
      <3>1. j - i \in both
        BY <1>3, <2>4
      <3>2. k + (j - i) \in k..(l - 1) /\ (k + (j - i)) + 1 \in k..l /\ i + (j - i) = j
        BY <1>3, <2>4
      <3>3. next_[q[j]] = r[(k + (j - i)) + 1]
        BY <2>1, <2>3, <3>1, <3>2
      <3>. QED
        BY <2>1, <3>2, <3>3
    <2>5. ASSUME l - k < j - i
          PROVE  FALSE
      <3>1. l - k \in both
        BY <1>3, <2>5
      <3>2. i + (l - k) \in i..(j - 1) /\ (i + (l - k)) + 1 \in i..j /\ k + (l - k) = l
        BY <1>3, <2>5
      <3>3. next_[r[l]] = q[(i + (l - k)) + 1]
        BY <2>1, <2>3, <3>1, <3>2
      <3>. QED
        BY <2>1, <3>2, <3>3
    <2>6. j - i = l - k
      BY <2>4, <2>5
    <2>. QED
      BY <2>3, <2>6
  <1>. QED
    BY <1>1, <1>2, <1>3

\* The same from the other end.
LEMMA Mirrored ==
  ASSUME NEW p, NEW q, NEW i \in Nat, NEW j \in Nat, Backward(p, q, i, j)
  PROVE  Forward(p, [x \in i..j |-> q[(i + j) - x]], i, j)
  <1>1. CASE i > j
    BY <1>1 DEF Forward, Backward
  <1>2. CASE i <= j
    <2>. DEFINE f == [x \in i..j |-> q[(i + j) - x]]
    <2>1. p = q[j] /\ next_[q[i]] \notin Users
      BY <1>2 DEF Backward
    <2>2. /\ (i + j) - i = j /\ (i + j) - j = i
          /\ i \in i..j /\ j \in i..j
      BY <1>2
    <2>3. f[i] = p /\ next_[f[j]] \notin Users
      BY <2>1, <2>2
    <2>4. ASSUME NEW x \in i..(j - 1)
          PROVE  next_[f[x]] = f[x + 1]
      <3>1. (i + j) - (x + 1) \in i..(j - 1) /\ x \in i..j /\ x + 1 \in i..j
        BY <1>2
      <3>2. ((i + j) - (x + 1)) + 1 = (i + j) - x
        BY <1>2
      <3>3. next_[q[((i + j) - (x + 1)) + 1]] = q[(i + j) - (x + 1)]
        BY <1>2, <3>1 DEF Backward
      <3>. QED
        BY <3>1, <3>2, <3>3
    <2>. HIDE DEF f
    <2>5. Forward(p, f, i, j)
      BY <1>2, <2>3, <2>4 DEF Forward
    <2>. QED
      BY <2>5 DEF f
  <1>. QED
    BY <1>1, <1>2

LEMMA SameBackward ==
  ASSUME NEW p, NEW q, NEW r, NEW i, NEW j, NEW k, NEW l,
         UsersAt(q, i, j), UsersAt(r, k, l),
         Backward(p, q, i, j), Backward(p, r, k, l)
  PROVE  j - i = l - k /\ \A x \in 0..(j - i) : q[j - x] = r[l - x]
  <1>. DEFINE f == [x \in i..j |-> q[(i + j) - x]]
              g == [x \in k..l |-> r[(k + l) - x]]
  <1>0. {i, j, k, l} \subseteq Nat
    BY DEF UsersAt
  <1>1. Forward(p, f, i, j) /\ Forward(p, g, k, l)
    BY <1>0, Mirrored
  <1>2. /\ \A x \in i..j : (i + j) - x \in i..j
        /\ \A x \in k..l : (k + l) - x \in k..l
    BY <1>0
  <1>3. UsersAt(f, i, j) /\ UsersAt(g, k, l)
    BY <1>2 DEF UsersAt
  <1>. HIDE DEF f, g
  <1>4. j - i = l - k /\ SameAt(f, i, j, g, k)
    BY <1>1, <1>3, SameForward
  <1>5. ASSUME NEW x \in 0..(j - i)
        PROVE  q[j - x] = r[l - x]
    <2>1. /\ i + x \in i..j /\ (i + j) - (i + x) = j - x
          /\ k + x \in k..l /\ (k + l) - (k + x) = l - x
      BY <1>0, <1>4
    <2>2. f[i + x] = q[j - x] /\ g[k + x] = r[l - x]
      BY <2>1 DEF f, g
    <2>. QED
      BY <1>4, <2>2 DEF SameAt
  <1>. QED
    BY <1>4, <1>5

\* The order is determined by the lists.
LEMMA OneOrder ==
  ASSUME MutexInv, NEW n \in Nat, NEW q \in [1..n -> Users], NEW r \in [1..n -> Users],
         IsWaitingOrder(q), IsWaitingOrder(r)
  PROVE  q = r
  <1>1. Len(q) = n /\ Len(r) = n /\ q \in Seq(Users) /\ r \in Seq(Users)
    OBVIOUS
  <1>. DEFINE Fits(i, j) == i \in 1..(n + 1) /\ j \in 0..n /\ i <= j + 1
  <1>2. ASSUME NEW i, NEW j, Fits(i, j)
        PROVE  UsersAt(q, i, j) /\ UsersAt(r, i, j)
    BY <1>2 DEF UsersAt
  <1>3. PICK k \in 0..n :
          IsHeldOrder(q, k) /\ Backward(state_, q, k + 1, n)
    BY <1>1 DEF IsWaitingOrder
  <1>4. PICK l \in 0..n :
          IsHeldOrder(r, l) /\ Backward(state_, r, l + 1, n)
    BY <1>1 DEF IsWaitingOrder
  <1>5. k = l /\ \A x \in (k + 1)..n : q[x] = r[x]
    <2>1. n - (k + 1) = n - (l + 1) /\ \A x \in 0..(n - (k + 1)) : q[n - x] = r[n - x]
      <3>1. UsersAt(q, k + 1, n) /\ UsersAt(r, l + 1, n)
        BY <1>2
      <3>2. Backward(state_, q, k + 1, n) /\ Backward(state_, r, l + 1, n)
        BY <1>3, <1>4
      <3>. QED
        BY <3>1, <3>2, SameBackward, SMTT(30)
    <2>2. ASSUME NEW x \in (k + 1)..n
          PROVE  q[x] = r[x]
      <3>1. n - x \in 0..(n - (k + 1)) /\ n - (n - x) = x
        OBVIOUS
      <3>. QED
        BY <2>1, <3>1
    <2>. QED
      BY <2>1, <2>2
  <1>6. \A x \in 1..k : q[x] = r[x]
    <2>1. CASE \A u \in Users : pc[u] # "reversing"
      <3>1. Forward(awaiter_, q, 1, k) /\ Forward(awaiter_, r, 1, l)
        BY <1>3, <1>4, <2>1 DEF IsHeldOrder
      <3>2. UsersAt(q, 1, k) /\ UsersAt(r, 1, l)
        BY <1>2
      <3>3. SameAt(q, 1, k, r, 1)
        BY <3>1, <3>2, SameForward
      <3>4. ASSUME NEW x \in 1..k
            PROVE  q[x] = r[x]
        <4>1. x - 1 \in 0..(k - 1) /\ 1 + (x - 1) = x
          OBVIOUS
        <4>. QED
          BY <3>3, <4>1 DEF SameAt
      <3>. QED
        BY <3>4
    <2>2. ASSUME NEW u \in Users, pc[u] = "reversing"
          PROVE  \A x \in 1..k : q[x] = r[x]
      <3>1. \A v \in Users : pc[v] = "reversing" => v = u
        BY <2>2 DEF MutexInv, MutualExclusion, Holds, Releasing
      <3>2. PICK c \in 0..k : Backward(curr[u], q, 1, c) /\ Forward(rest[u], q, c + 1, k)
        BY <1>3, <2>2, <3>1 DEF IsHeldOrder
      <3>3. PICK d \in 0..k : Backward(curr[u], r, 1, d) /\ Forward(rest[u], r, d + 1, k)
        BY <1>4, <1>5, <2>2, <3>1 DEF IsHeldOrder
      <3>4. c - 1 = d - 1 /\ \A x \in 0..(c - 1) : q[c - x] = r[d - x]
        <4>1. UsersAt(q, 1, c) /\ UsersAt(r, 1, d)
          BY <1>2
        <4>. QED
          BY <3>2, <3>3, <4>1, SameBackward
      <3>5. SameAt(q, c + 1, k, r, d + 1)
        <4>1. UsersAt(q, c + 1, k) /\ UsersAt(r, d + 1, k)
          BY <1>2
        <4>. QED
          BY <3>2, <3>3, <4>1, SameForward
      <3>6. ASSUME NEW x \in 1..c
            PROVE  q[x] = r[x]
        <4>1. c - x \in 0..(c - 1) /\ c - (c - x) = x /\ d = c
          BY <3>4
        <4>. QED
          BY <3>4, <4>1
      <3>7. ASSUME NEW x \in (c + 1)..k
            PROVE  q[x] = r[x]
        <4>1. x - (c + 1) \in 0..(k - (c + 1)) /\ (c + 1) + (x - (c + 1)) = x /\ d = c
          BY <3>4
        <4>. QED
          BY <3>5, <4>1 DEF SameAt
      <3>. QED
        BY <3>6, <3>7
    <2>. QED
      BY <2>1, <2>2
  <1>7. \A x \in 1..n : q[x] = r[x]
    BY <1>5, <1>6
  <1>. QED
    BY <1>7

\* q lists the suspended users, each once, in the order of service.
Ordered(q) == /\ q \in Seq(Users)
              /\ \A i, j \in 1..Len(q) : q[i] = q[j] => i = j
              /\ \A u \in Users : Queued(u) <=> \E i \in 1..Len(q) : q[i] = u
              /\ IsWaitingOrder(q)

LEMMA TheOrder ==
  ASSUME MutexInv, NEW q, Ordered(q)
  PROVE  q \in Orders /\ WaitingOrder = q
  <1>. DEFINE n == Len(q)
  <1>1. /\ n \in Nat /\ q \in [1..n -> Users]
        /\ \A i, j \in 1..n : q[i] = q[j] => i = j
        /\ Waiters = {q[i] : i \in 1..n}
        /\ IsWaitingOrder(q)
    BY DEF Ordered, Waiters, Queued
  <1>. HIDE DEF n
  <1>2. q \in Bijection(1..n, Waiters)
    BY <1>1 DEF Bijection, Injection, Surjection, IsInjective
  <1>3. ExistsBijection(1..n, Waiters)
    BY <1>2 DEF ExistsBijection
  <1>4. IsFiniteSet(1..n) /\ Cardinality(1..n) = n
    BY <1>1, FS_Interval
  <1>5. Cardinality(Waiters) = n
    BY <1>3, <1>4, FS_Bijection
  <1>6. q \in [1..Cardinality(Waiters) -> Waiters]
    BY <1>1, <1>5
  <1>7. q \in Orders
    <2>1. DOMAIN q = 1..n
      BY <1>1
    <2>. QED
      BY <1>1, <1>6, <2>1 DEF Orders
  <1>8. ASSUME NEW r \in Orders, IsWaitingOrder(r)
        PROVE  r = q
    <2>1. r \in [1..n -> Users]
      BY <1>5, <1>8 DEF Orders, Waiters
    <2>. QED
      BY <1>1, <1>8, <2>1, OneOrder
  <1>. QED
    BY <1>1, <1>7, <1>8 DEF WaitingOrder

-----------------------------------------------------------------------------
(* Steps keep the order, add to its end, or take its head.                 *)

\* Steps outside the lists.
LEMMA OrderStays ==
  ASSUME NEW q, Ordered(q),
         \A u \in Users : (Queued(u)' <=> Queued(u)) /\ (Reversing(u)' <=> Reversing(u)),
         \A u \in Users : Queued(u) => next_'[u] = next_[u],
         state_' = state_ \/ (state_ \notin Users /\ state_' \notin Users),
         UNCHANGED <<awaiter_, curr, rest>>
  PROVE  Ordered(q)'
  <1>1. /\ q \in Seq(Users) /\ Len(q) \in Nat
        /\ \A i \in 1..Len(q) : q[i] \in Users /\ next_'[q[i]] = next_[q[i]]
    BY DEF Ordered
  <1>2. PICK k \in 0..Len(q) : IsHeldOrder(q, k) /\ Backward(state_, q, k + 1, Len(q))
    BY DEF Ordered, IsWaitingOrder
  <1>3. Backward(state_, q, k + 1, Len(q))'
    BY <1>1, <1>2 DEF Backward
  <1>4. IsHeldOrder(q, k)'
    <2>1. CASE /\ \A u \in Users : pc[u] # "reversing"
               /\ Forward(awaiter_, q, 1, k)
      <3>1. Forward(awaiter_, q, 1, k)'
        <4>1. CASE k = 0
          BY <2>1, <4>1 DEF Forward
        <4>2. CASE k # 0
          <5>1. /\ awaiter_ = q[1] /\ next_[q[k]] \notin Users
                /\ \A x \in 1..(k - 1) : next_[q[x]] = q[x + 1]
            BY <2>1, <4>2 DEF Forward
          <5>2. k \in 1..Len(q) /\ \A x \in 1..(k - 1) : x \in 1..Len(q)
            BY <1>1, <4>2
          <5>. QED
            BY <1>1, <4>2, <5>1, <5>2 DEF Forward
        <4>. QED
          BY <4>1, <4>2
      <3>. QED
        BY <2>1, <3>1 DEF IsHeldOrder, Reversing
    <2>2. ASSUME NEW u \in Users, NEW c \in 0..k, pc[u] = "reversing",
                 Backward(curr[u], q, 1, c), Forward(rest[u], q, c + 1, k)
          PROVE  IsHeldOrder(q, k)'
      <3>1. Backward(curr[u], q, 1, c)' /\ Forward(rest[u], q, c + 1, k)'
        BY <1>1, <2>2 DEF Forward, Backward
      <3>. QED
        BY <2>2, <3>1 DEF IsHeldOrder, Reversing
    <2>. QED
      BY <1>2, <2>1, <2>2 DEF IsHeldOrder
  <1>. QED
    BY <1>1, <1>3, <1>4 DEF Ordered, IsWaitingOrder

\* The stack becomes the holder's list, which was empty.
LEMMA TakeStackOrder ==
  ASSUME MutexInv, NEW q, Ordered(q), NEW u \in Users, TakeStack(u)
  PROVE  Ordered(q)'
  <1>. USE MutexAssumption
  <1>1. q \in Seq(Users) /\ \A v \in Users : ~Reversing(v)
    BY DEF Ordered, MutexInv, MutualExclusion, TakeStack, Holds, Releasing, Reversing
  <1>2. PICK k \in 0..Len(q) : IsHeldOrder(q, k) /\ Backward(state_, q, k + 1, Len(q))
    BY DEF Ordered, IsWaitingOrder
  <1>3. awaiter_ = Null /\ Forward(awaiter_, q, 1, k)
    BY <1>1, <1>2 DEF TakeStack, MutexInv, ListEmpty, IsHeldOrder, Reversing
  <1>4. k = 0
    BY <1>1, <1>3 DEF Forward
  <1>5. /\ pc'[u] = "reversing" /\ curr'[u] = state_ /\ rest'[u] = Null
        /\ state_' = Null /\ next_' = next_
        /\ \A v \in Users : Queued(v)' <=> Queued(v)
    BY DEF TakeStack, MutexInv, TypeOK, Queued
  <1>6. Backward(curr[u], q, 1, Len(q))'
    BY <1>2, <1>4, <1>5 DEF Backward
  <1>7. Forward(rest[u], q, Len(q) + 1, Len(q))'
    BY <1>1, <1>5 DEF Forward
  <1>8. IsHeldOrder(q, Len(q))'
    BY <1>1, <1>5, <1>6, <1>7 DEF IsHeldOrder
  <1>9. Backward(state_, q, Len(q) + 1, Len(q))'
    BY <1>1, <1>5 DEF Backward
  <1>10. IsWaitingOrder(q)'
    BY <1>1, <1>8, <1>9 DEF IsWaitingOrder
  <1>. QED
    BY <1>5, <1>10 DEF Ordered

\* Reversing moves an awaiter from one end of the gap to the other.
LEMMA ReverseOneOrder ==
  ASSUME MutexInv, NEW q, Ordered(q), NEW u \in Users, ReverseOne(u)
  PROVE  Ordered(q)'
  <1>. USE MutexAssumption
  <1>1. /\ q \in Seq(Users) /\ Len(q) \in Nat
        /\ \A i \in 1..Len(q) : q[i] \in Users
        /\ \A i, j \in 1..Len(q) : q[i] = q[j] => i = j
    BY DEF Ordered
  <1>2. pc[u] = "reversing" /\ \A v \in Users : pc[v] = "reversing" => v = u
    BY DEF MutexInv, MutualExclusion, ReverseOne, Holds, Releasing
  <1>3. PICK k \in 0..Len(q) : IsHeldOrder(q, k) /\ Backward(state_, q, k + 1, Len(q))
    BY DEF Ordered, IsWaitingOrder
  <1>4. PICK c \in 0..k : Backward(curr[u], q, 1, c) /\ Forward(rest[u], q, c + 1, k)
    BY <1>2, <1>3 DEF IsHeldOrder
  <1>5. /\ curr[u] \in Users
        /\ next_' = [next_ EXCEPT ![curr[u]] = rest[u]]
        /\ rest'[u] = curr[u] /\ curr'[u] = next_[curr[u]]
        /\ state_' = state_ /\ pc' = pc
    BY DEF ReverseOne, MutexInv, TypeOK, Link
  <1>6. c \in 1..k /\ curr[u] = q[c] /\ next_[q[1]] \notin Users
    BY <1>4, <1>5 DEF Backward
  <1>7. /\ next_'[q[c]] = rest[u]
        /\ \A i \in 1..Len(q) : i # c => next_'[q[i]] = next_[q[i]]
    BY <1>1, <1>5, <1>6 DEF MutexInv, TypeOK
  <1>8. Backward(curr[u], q, 1, c - 1)'
    <2>1. CASE c = 1
      BY <1>5, <1>6, <2>1 DEF Backward
    <2>2. CASE c # 1
      <3>1. \A x \in 1..(c - 1) : next_[q[x + 1]] = q[x]
        BY <1>4, <1>6 DEF Backward
      <3>2. c - 1 \in 1..(c - 1) /\ (c - 1) + 1 = c
        BY <1>6, <2>2
      <3>3. curr'[u] = q[c - 1]
        BY <1>5, <1>6, <3>1, <3>2
      <3>4. ASSUME NEW x \in 1..((c - 1) - 1)
            PROVE  next_'[q[x + 1]] = q[x]
        <4>1. x \in 1..(c - 1) /\ x + 1 \in 1..Len(q) /\ x + 1 # c
          BY <1>6
        <4>. QED
          BY <1>7, <3>1, <4>1
      <3>5. next_'[q[1]] \notin Users
        BY <1>1, <1>6, <1>7, <2>2
      <3>. QED
        BY <3>2, <3>3, <3>4, <3>5 DEF Backward
    <2>. QED
      BY <2>1, <2>2
  <1>9. Forward(rest[u], q, c, k)'
    <2>1. rest'[u] = q[c]
      BY <1>5, <1>6
    <2>2. next_'[q[k]] \notin Users
      <3>1. CASE c = k
        BY <1>4, <1>7, <3>1 DEF Forward
      <3>2. CASE c < k
        <4>1. next_[q[k]] \notin Users
          BY <1>4, <3>2 DEF Forward
        <4>. QED
          BY <1>6, <1>7, <3>2, <4>1
      <3>. QED
        BY <1>6, <3>1, <3>2
    <2>3. ASSUME NEW x \in c..(k - 1)
          PROVE  next_'[q[x]] = q[x + 1]
      <3>1. CASE x = c
        BY <1>4, <1>7, <3>1 DEF Forward
      <3>2. CASE x # c
        <4>1. x \in (c + 1)..(k - 1) /\ x \in 1..Len(q)
          BY <1>6, <3>2
        <4>. QED
          BY <1>4, <1>7, <3>2, <4>1 DEF Forward
      <3>. QED
        BY <3>1, <3>2
    <2>. QED
      BY <1>6, <2>1, <2>2, <2>3 DEF Forward
  <1>10. IsHeldOrder(q, k)'
    <2>1. c - 1 \in 0..k /\ (c - 1) + 1 = c /\ pc'[u] = "reversing"
      BY <1>2, <1>5, <1>6
    <2>2. Forward(rest[u], q, (c - 1) + 1, k)'
      BY <1>9, <2>1
    <2>. QED
      BY <1>8, <2>1, <2>2 DEF IsHeldOrder
  <1>11. Backward(state_, q, k + 1, Len(q))'
    <2>1. \A i \in (k + 1)..Len(q) : next_'[q[i]] = next_[q[i]]
      BY <1>6, <1>7
    <2>. QED
      BY <1>3, <1>5, <2>1 DEF Backward
  <1>12. IsWaitingOrder(q)'
    BY <1>10, <1>11 DEF IsWaitingOrder
  <1>. QED
    BY <1>5, <1>12 DEF Ordered, Queued

\* A push adds the user to the end.
LEMMA PushCasOrder ==
  ASSUME MutexInv, NEW q, Ordered(q), NEW u \in Users, PushCas(u)
  PROVE  Ordered(Append(q, u))'
  <1>. USE MutexAssumption
  <1>. DEFINE r == Append(q, u)
  <1>1. /\ q \in Seq(Users) /\ Len(q) \in Nat
        /\ \A i \in 1..Len(q) : q[i] \in Users /\ Queued(q[i])
        /\ \A i, j \in 1..Len(q) : q[i] = q[j] => i = j
    BY DEF Ordered
  <1>2. /\ r \in Seq(Users) /\ Len(r) = Len(q) + 1
        /\ r[Len(q) + 1] = u
        /\ \A i \in 1..Len(q) : r[i] = q[i]
    BY <1>1, AppendProperties
  <1>. HIDE DEF r
  <1>3. ~Queued(u) /\ u \notin {q[i] : i \in 1..Len(q)}
    BY <1>1 DEF PushCas, Queued
  <1>4. /\ next_' = [next_ EXCEPT ![u] = state_] /\ state_' = u /\ state_ # Unlocked
        /\ awaiter_' = awaiter_ /\ curr' = curr /\ rest' = rest
        /\ \A v \in Users : Queued(v)' <=> Queued(v) \/ v = u
        /\ \A v \in Users : (pc'[v] = "reversing") <=> (pc[v] = "reversing")
    BY DEF PushCas, BackToHost, MutexInv, TypeOK, HostsWait, Queued, Link
  <1>5. /\ next_'[u] = state_
        /\ \A i \in 1..Len(q) : next_'[r[i]] = next_[q[i]] /\ r[i] = q[i]
    BY <1>1, <1>2, <1>3, <1>4 DEF MutexInv, TypeOK
  <1>6. PICK k \in 0..Len(q) : IsHeldOrder(q, k) /\ Backward(state_, q, k + 1, Len(q))
    BY DEF Ordered, IsWaitingOrder
  <1>7. IsHeldOrder(r, k)'
    <2>1. CASE /\ \A v \in Users : pc[v] # "reversing"
               /\ Forward(awaiter_, q, 1, k)
      <3>1. Forward(awaiter_, r, 1, k)'
        BY <1>4, <1>5, <2>1 DEF Forward
      <3>. QED
        BY <1>4, <2>1, <3>1 DEF IsHeldOrder
    <2>2. ASSUME NEW v \in Users, NEW c \in 0..k, pc[v] = "reversing",
                 Backward(curr[v], q, 1, c), Forward(rest[v], q, c + 1, k)
          PROVE  IsHeldOrder(r, k)'
      <3>1. Backward(curr[v], r, 1, c)'
        <4>1. 1..c \subseteq 1..Len(q) /\ \A x \in 1..(c - 1) : x + 1 \in 1..Len(q)
          OBVIOUS
        <4>. QED
          BY <1>4, <1>5, <2>2, <4>1 DEF Backward
      <3>2. Forward(rest[v], r, c + 1, k)'
        <4>1. /\ (c + 1)..k \subseteq 1..Len(q)
              /\ \A x \in (c + 1)..(k - 1) : x + 1 \in 1..Len(q)
          OBVIOUS
        <4>. QED
          BY <1>4, <1>5, <2>2, <4>1 DEF Forward
      <3>. QED
        BY <1>4, <2>2, <3>1, <3>2 DEF IsHeldOrder
    <2>. QED
      BY <1>6, <2>1, <2>2 DEF IsHeldOrder
  <1>8. Backward(state_, r, k + 1, Len(r))'
    <2>1. k + 1 <= Len(r) /\ state_' = r[Len(r)]
      BY <1>2, <1>4
    <2>2. CASE k = Len(q)
      BY <1>1, <1>2, <1>4, <1>5, <1>6, <2>1, <2>2 DEF Backward
    <2>3. CASE k < Len(q)
      <3>1. /\ state_ = q[Len(q)] /\ next_[q[k + 1]] \notin Users
            /\ \A x \in (k + 1)..(Len(q) - 1) : next_[q[x + 1]] = q[x]
        BY <1>6, <2>3 DEF Backward
      <3>2. next_'[r[k + 1]] \notin Users
        BY <1>5, <2>3, <3>1
      <3>3. ASSUME NEW x \in (k + 1)..(Len(r) - 1)
            PROVE  next_'[r[x + 1]] = r[x]
        <4>1. CASE x = Len(q)
          BY <1>2, <1>5, <2>3, <3>1, <4>1
        <4>2. CASE x # Len(q)
          <5>1. x \in (k + 1)..(Len(q) - 1) /\ x \in 1..Len(q) /\ x + 1 \in 1..Len(q)
            BY <1>2, <4>2
          <5>. QED
            BY <1>5, <3>1, <5>1
        <4>. QED
          BY <4>1, <4>2
      <3>. QED
        BY <2>1, <3>2, <3>3 DEF Backward
    <2>. QED
      BY <1>6, <2>2, <2>3
  <1>9. IsWaitingOrder(r)'
    BY <1>2, <1>7, <1>8 DEF IsWaitingOrder
  <1>10. \A i, j \in 1..Len(r) : r[i] = r[j] => i = j
    BY <1>1, <1>2, <1>3
  <1>11. ASSUME NEW v \in Users
         PROVE  Queued(v)' <=> \E i \in 1..Len(r) : r[i] = v
    <2>1. Queued(v) <=> \E i \in 1..Len(q) : q[i] = v
      BY DEF Ordered
    <2>2. \A i \in 1..Len(r) : i \in 1..Len(q) \/ i = Len(q) + 1
      BY <1>2
    <2>3. 1..Len(q) \subseteq 1..Len(r) /\ Len(q) + 1 \in 1..Len(r)
      BY <1>1, <1>2
    <2>. QED
      BY <1>2, <1>4, <2>1, <2>2, <2>3
  <1>12. Ordered(r)'
    BY <1>2, <1>9, <1>10, <1>11 DEF Ordered
  <1>. QED
    BY <1>12 DEF r

\* A handover takes the head.
LEMMA ResumeOrder ==
  ASSUME TypeOK, NEW q, Ordered(q), NEW k \in 0..Len(q), NEW w \in Users,
         Forward(w, q, 1, k), Backward(state_, q, k + 1, Len(q)),
         next_' = [next_ EXCEPT ![w] = Null], awaiter_' = next_[w], state_' = state_,
         \A v \in Users : Queued(v)' <=> Queued(v) /\ v # w,
         \A v \in Users : pc'[v] # "reversing"
  PROVE  q # <<>> /\ w = Head(q) /\ Ordered(Tail(q))'
  <1>. DEFINE r == Tail(q)
  <1>1. /\ q \in Seq(Users) /\ Len(q) \in Nat
        /\ \A i \in 1..Len(q) : q[i] \in Users
        /\ \A i, j \in 1..Len(q) : q[i] = q[j] => i = j
        /\ \A v \in Users : Queued(v) <=> \E i \in 1..Len(q) : q[i] = v
    BY DEF Ordered
  <1>2. /\ k \in 1..Len(q) /\ w = q[1]
        /\ next_[q[k]] \notin Users
        /\ \A x \in 1..(k - 1) : next_[q[x]] = q[x + 1]
    BY DEF Forward
  <1>3. q # <<>> /\ w = Head(q)
    BY <1>1, <1>2
  <1>4. /\ r \in Seq(Users) /\ Len(r) = Len(q) - 1
        /\ \A i \in 1..Len(r) : r[i] = q[i + 1]
    BY <1>1, <1>3, HeadTailProperties
  <1>. HIDE DEF r
  <1>5. \A i \in 1..Len(r) : i + 1 \in 2..Len(q) /\ next_'[r[i]] = next_[q[i + 1]]
    <2>1. \A i \in 1..Len(r) : i + 1 \in 2..Len(q)
      BY <1>4
    <2>2. \A i \in 2..Len(q) : q[i] \in Users \ {w}
      BY <1>1, <1>2
    <2>. QED
      BY <1>4, <2>1, <2>2 DEF TypeOK
  <1>6. Forward(awaiter_, r, 1, k - 1)'
    <2>1. CASE k = 1
      BY <1>2, <2>1 DEF Forward
    <2>2. CASE k # 1
      <3>1. k - 1 \in 1..Len(r) /\ (k - 1) + 1 = k /\ 1 \in 1..Len(r) /\ 1 \in 1..(k - 1)
        BY <1>2, <1>4, <2>2
      <3>2. awaiter_' = r[1]
        BY <1>2, <1>4, <3>1
      <3>3. next_'[r[k - 1]] \notin Users
        BY <1>2, <1>5, <3>1
      <3>4. ASSUME NEW x \in 1..((k - 1) - 1)
            PROVE  next_'[r[x]] = r[x + 1]
        <4>1. x \in 1..Len(r) /\ x + 1 \in 1..Len(r) /\ x + 1 \in 1..(k - 1)
          BY <1>2, <1>4
        <4>. QED
          BY <1>2, <1>4, <1>5, <4>1
      <3>. QED
        BY <3>1, <3>2, <3>3, <3>4 DEF Forward
    <2>. QED
      BY <2>1, <2>2
  <1>7. Backward(state_, r, k, Len(r))'
    <2>1. CASE k = Len(q)
      BY <1>1, <1>4, <2>1 DEF Backward
    <2>2. CASE k < Len(q)
      <3>1. /\ state_ = q[Len(q)] /\ next_[q[k + 1]] \notin Users
            /\ \A x \in (k + 1)..(Len(q) - 1) : next_[q[x + 1]] = q[x]
        BY <1>2, <2>2 DEF Backward
      <3>2. /\ Len(r) \in 1..Len(r) /\ k \in 1..Len(r) /\ Len(r) + 1 = Len(q)
        BY <1>1, <1>2, <1>4, <2>2
      <3>3. state_' = r[Len(r)] /\ next_'[r[k]] \notin Users
        BY <1>4, <1>5, <3>1, <3>2
      <3>4. ASSUME NEW x \in k..(Len(r) - 1)
            PROVE  next_'[r[x + 1]] = r[x]
        <4>1. /\ x \in 1..Len(r) /\ x + 1 \in 1..Len(r)
              /\ x + 1 \in (k + 1)..(Len(q) - 1)
          BY <1>2, <1>4
        <4>. QED
          BY <1>4, <1>5, <3>1, <4>1
      <3>. QED
        BY <3>2, <3>3, <3>4 DEF Backward
    <2>. QED
      BY <1>2, <2>1, <2>2
  <1>8. IsWaitingOrder(r)'
    <2>1. k - 1 \in 0..Len(r) /\ (k - 1) + 1 = k
      BY <1>2, <1>4
    <2>2. IsHeldOrder(r, k - 1)'
      BY <1>6 DEF IsHeldOrder
    <2>. QED
      BY <1>7, <2>1, <2>2 DEF IsWaitingOrder
  <1>9. \A i, j \in 1..Len(r) : r[i] = r[j] => i = j
    <2>1. ASSUME NEW i \in 1..Len(r), NEW j \in 1..Len(r), r[i] = r[j]
          PROVE  i = j
      <3>1. i + 1 \in 1..Len(q) /\ j + 1 \in 1..Len(q) /\ q[i + 1] = q[j + 1]
        BY <1>4, <2>1
      <3>2. i + 1 = j + 1
        BY <1>1, <3>1
      <3>. QED
        BY <3>2
    <2>. QED
      BY <2>1
  <1>10. ASSUME NEW v \in Users
         PROVE  Queued(v)' <=> \E i \in 1..Len(r) : r[i] = v
    <2>1. ASSUME Queued(v), v # w
          PROVE  \E i \in 1..Len(r) : r[i] = v
      <3>1. PICK i \in 1..Len(q) : q[i] = v
        BY <1>1, <2>1
      <3>2. i - 1 \in 1..Len(r) /\ (i - 1) + 1 = i
        BY <1>2, <1>4, <2>1, <3>1
      <3>. QED
        BY <1>4, <3>1, <3>2
    <2>2. ASSUME NEW i \in 1..Len(r), r[i] = v
          PROVE  Queued(v) /\ v # w
      <3>1. i + 1 \in 1..Len(q) /\ q[i + 1] = v /\ i + 1 # 1 /\ 1 \in 1..Len(q)
        BY <1>2, <1>4, <2>2
      <3>. QED
        BY <1>1, <1>2, <3>1
    <2>. QED
      BY <2>1, <2>2
  <1>11. Ordered(r)'
    BY <1>4, <1>8, <1>9, <1>10 DEF Ordered
  <1>. QED
    BY <1>3, <1>11 DEF r

\* What the lists lead to is the waiting order, before a step and after it.
WaitsInOrder == \A q : MutexInv /\ Ordered(q) => q \in Orders /\ WaitingOrder = q

LEMMA OrderAtAnyTime == WaitsInOrder /\ WaitsInOrder'
  <1>1. WaitsInOrder
    BY TheOrder DEF WaitsInOrder
  <1>. QED
    BY <1>1, PTL

-----------------------------------------------------------------------------
(* Mutex implements HandoverLock.                                          *)

LEMMA TheOne ==
  ASSUME NEW S, NEW x, S = {x}
  PROVE  (IF S = {} THEN Null ELSE CHOOSE u \in S : TRUE) = x
  OBVIOUS

\* Before a step: at most one holder, and waiters are not holders.
LEMMA HolderFacts ==
  ASSUME MutexInv
  PROVE  /\ \A u \in Users : Holds(u) => Holders = {u} /\ Holder = u
         /\ state_ = Unlocked => Holders = {} /\ Holder = Null
         /\ state_ # Unlocked => Holder \in Users
  <1>1. ASSUME NEW u \in Users, Holds(u)
        PROVE  Holders = {u} /\ Holder = u
    <2>1. Holders = {u}
      BY <1>1 DEF MutexInv, MutualExclusion, Holders
    <2>. QED
      BY <2>1, TheOne DEF Holder
  <1>2. ASSUME state_ = Unlocked
        PROVE  Holders = {} /\ Holder = Null
    <2>1. Holders = {}
      BY <1>2 DEF MutexInv, MutualExclusion, Holders
    <2>. QED
      BY <2>1 DEF Holder
  <1>3. ASSUME state_ # Unlocked
        PROVE  Holder \in Users
    BY <1>1, <1>3 DEF MutexInv, MutualExclusion
  <1>. QED
    BY <1>1, <1>2, <1>3

\* Steps that move users among places outside the two lists and inside
\* Unlock() are not visible.
LEMMA Invisible ==
  ASSUME Holders' = Holders, Waiters' = Waiters
  PROVE  UNCHANGED Handover!lockVars
  BY DEF Handover!lockVars, Holder

LEMMA AcquireStep ==
  ASSUME MutexInv, NEW u \in Users, TryLock(u) \/ LockCas(u)
  PROVE  Handover!Acquire(u)
  <1>1. state_ = Unlocked /\ Holders = {} /\ Holder = Null
    BY HolderFacts DEF TryLock, LockCas
  <1>2. Holders' = {u} /\ Waiters' = Waiters
    BY <1>1
    DEF TryLock, LockCas, Holders, Waiters, Holds, Releasing, MutexInv, TypeOK
  <1>3. Holder' = u
    BY <1>2, TheOne DEF Holder
  <1>. QED
    BY <1>1, <1>2, <1>3 DEF Handover!Acquire

LEMMA EnqueueStep ==
  ASSUME MutexInv, NEW u \in Users, PushCas(u)
  PROVE  Handover!Enqueue(u)
  <1>1. state_ # Unlocked /\ Holder \in Users
    BY HolderFacts DEF PushCas
  <1>2. pc[u] = "pushing" /\ ~Holds(u)
    BY DEF PushCas, Holds, Releasing
  <1>3. Holder # u /\ u \notin Waiters
    <2>1. PICK v \in Users : Holds(v)
      BY <1>1 DEF MutexInv, MutualExclusion
    <2>. QED
      BY <1>2, <2>1, HolderFacts DEF Waiters
  <1>4. Holders' = Holders /\ Waiters' = Waiters \cup {u}
    BY <1>2
    DEF PushCas, BackToHost, Holders, Waiters, Holds, Releasing, MutexInv, TypeOK, HostsWait, Link
  <1>5. Holder' = Holder
    BY <1>4 DEF Holder
  <1>. QED
    BY <1>1, <1>3, <1>4, <1>5, MutexAssumption DEF Handover!Enqueue

LEMMA HandOverStep ==
  ASSUME MutexInv, NEW u \in Users, NEW w \in Users, Holds(u), pc[w] = "queued", Resume(u, w)
  PROVE  Handover!HandOver(u, w)
  <1>1. Holders = {u} /\ Holder = u /\ u # w
    BY HolderFacts DEF Holds, Releasing
  <1>2. Holders' = {w} /\ Waiters' = Waiters \ {w} /\ w \in Waiters
    BY <1>1
    DEF Resume, Holders, Waiters, Holds, Releasing, MutexInv, TypeOK
  <1>3. Holder' = w
    BY <1>2, TheOne DEF Holder
  <1>. QED
    BY <1>1, <1>2, <1>3 DEF Handover!HandOver

\* The mutex is let go when no list leads to anybody.
LEMMA FreeStep ==
  ASSUME MutexInv, NEW q, Ordered(q), NEW u \in Users, UnlockCas(u)
  PROVE  Handover!Free(u) /\ q = <<>>
  <1>1. Holds(u) /\ Holders = {u} /\ Holder = u
    BY HolderFacts DEF UnlockCas, Holds, Releasing
  <1>2. q = <<>>
    <2>1. awaiter_ = Null /\ state_ = Null
      BY DEF UnlockCas, MutexInv, ListEmpty
    <2>2. \A x \in Users : ~Reversing(x)
      BY <1>1 DEF UnlockCas, MutexInv, MutualExclusion, Reversing, Holds, Releasing
    <2>3. PICK k \in 0..Len(q) : IsHeldOrder(q, k) /\ Backward(state_, q, k + 1, Len(q))
      BY DEF Ordered, IsWaitingOrder
    <2>4. q \in Seq(Users) /\ k = Len(q)
      BY <2>1, <2>3, MutexAssumption DEF Ordered, Backward
    <2>5. Forward(Null, q, 1, k)
      BY <2>1, <2>2, <2>3 DEF IsHeldOrder, Reversing
    <2>6. Len(q) = 0
      BY <2>4, <2>5, MutexAssumption DEF Forward
    <2>. QED
      BY <2>4, <2>6
  <1>3. Waiters = {}
    BY <1>2 DEF Ordered, Waiters, Queued
  <1>4. Holders' = {} /\ Waiters' = Waiters
    BY <1>1 DEF UnlockCas, Holders, Waiters, Holds, Releasing, MutexInv, TypeOK
  <1>5. Holder' = Null
    BY <1>4 DEF Holder
  <1>. QED
    BY <1>1, <1>2, <1>3, <1>4, <1>5 DEF Handover!Free

\* The awaiter that Unlock() resumes is the first of the waiting order.
LEMMA HandOverOrder ==
  ASSUME MutexInv, NEW q, Ordered(q), NEW u \in Users, HandOver(u) \/ HandOverTaken(u)
  PROVE  /\ q # <<>> /\ Head(q) \in Users /\ Ordered(Tail(q))'
         /\ Handover!HandOver(u, Head(q))
  <1>. USE MutexAssumption
  <1>1. Holds(u) /\ \A v \in Users : Holds(v) => v = u
    BY DEF HandOver, HandOverTaken, Holds, Releasing, MutexInv, MutualExclusion
  <1>2. PICK k \in 0..Len(q) : IsHeldOrder(q, k) /\ Backward(state_, q, k + 1, Len(q))
    BY DEF Ordered, IsWaitingOrder
  <1>3. \E w \in Users : /\ Forward(w, q, 1, k) /\ Queued(w)
                         /\ Resume(u, w) /\ awaiter_' = next_[w]
    <2>1. CASE HandOver(u)
      <3>1. \A v \in Users : pc[v] # "reversing"
        BY <1>1, <2>1 DEF HandOver, Holds, Releasing
      <3>2. Forward(awaiter_, q, 1, k)
        BY <1>2, <3>1 DEF IsHeldOrder
      <3>3. awaiter_ \in Users /\ Queued(awaiter_)
        BY <2>1, <3>1 DEF HandOver, Reversing, MutexInv, TypeOK, Link, PointsToQueued
      <3>. QED
        BY <2>1, <3>2, <3>3 DEF HandOver
    <2>2. CASE HandOverTaken(u)
      <3>1. pc[u] = "reversing" /\ \A v \in Users : pc[v] = "reversing" => v = u
        BY <1>1, <2>2 DEF HandOverTaken, Holds, Releasing
      <3>2. PICK c \in 0..k : Backward(curr[u], q, 1, c) /\ Forward(rest[u], q, c + 1, k)
        BY <1>2, <3>1 DEF IsHeldOrder
      <3>3. c = 0
        <4>1. c \in 1..k => q[c] \in Users
          BY DEF Ordered
        <4>. QED
          BY <2>2, <3>2, <4>1 DEF HandOverTaken, Backward
      <3>4. rest[u] \in Users /\ Queued(rest[u])
        BY <2>2
        DEF HandOverTaken, Reversing, MutexInv, TypeOK, Link, PointsToQueued, UnlockAsserts
      <3>. QED
        BY <2>2, <3>2, <3>3, <3>4 DEF HandOverTaken
    <2>. QED
      BY <2>1, <2>2
  <1>4. PICK w \in Users : /\ Forward(w, q, 1, k) /\ Queued(w)
                           /\ Resume(u, w) /\ awaiter_' = next_[w]
    BY <1>3
  <1>5. /\ next_' = [next_ EXCEPT ![w] = Null] /\ state_' = state_
        /\ \A v \in Users : Queued(v)' <=> Queued(v) /\ v # w
        /\ \A v \in Users : pc'[v] # "reversing"
    BY <1>1, <1>4
    DEF Resume, HandOver, HandOverTaken, MutexInv, TypeOK, Queued, Holds, Releasing
  <1>6. q # <<>> /\ w = Head(q) /\ Ordered(Tail(q))'
    BY <1>2, <1>4, <1>5, ResumeOrder DEF MutexInv
  <1>7. Handover!HandOver(u, w)
    BY <1>1, <1>4, HandOverStep DEF Queued
  <1>. QED
    BY <1>6, <1>7

\* All other steps.
LEMMA UnseenStep ==
  ASSUME MutexInv, NEW u \in Users,
         \/ Lock(u) \/ LoadToLock(u) \/ LockCasFails(u) \/ Unlock(u)
         \/ LoadToUnlock(u) \/ UnlockCasFails(u) \/ TakeStack(u)
         \/ ReverseOne(u) \/ Leave(u)
  PROVE  UNCHANGED Handover!lockVars
  <1>1. Holders' = Holders /\ Waiters' = Waiters
    BY DEF Lock, LoadToLock, LockCasFails, Unlock, LoadToUnlock, UnlockCasFails, TakeStack,
           ReverseOne, Leave, BackToHost, Holders, Waiters, Holds, Releasing, MutexInv,
           TypeOK, HostsWait, Link
  <1>. QED
    BY <1>1, Invisible

LEMMA OrderKept ==
  ASSUME MutexInv, NEW q, Ordered(q), NEW u \in Users,
         \/ TryLock(u) \/ Lock(u) \/ LoadToLock(u) \/ LockCas(u)
         \/ LockCasFails(u) \/ Unlock(u) \/ LoadToUnlock(u) \/ UnlockCas(u)
         \/ UnlockCasFails(u) \/ TakeStack(u) \/ ReverseOne(u) \/ Leave(u)
  PROVE  Ordered(q)'
  <1>1. CASE TakeStack(u) \/ ReverseOne(u)
    BY <1>1, TakeStackOrder, ReverseOneOrder
  <1>2. CASE \/ TryLock(u) \/ Lock(u) \/ LoadToLock(u) \/ LockCas(u)
             \/ LockCasFails(u) \/ Unlock(u) \/ LoadToUnlock(u) \/ UnlockCas(u)
             \/ UnlockCasFails(u) \/ Leave(u)
    <2>1. \A v \in Users : (Queued(v)' <=> Queued(v)) /\ (Reversing(v)' <=> Reversing(v))
      BY <1>2
      DEF TryLock, Lock, LoadToLock, LockCas, LockCasFails, Unlock, LoadToUnlock, UnlockCas,
          UnlockCasFails, Leave, BackToHost, Queued, Reversing, MutexInv, TypeOK, HostsWait,
          Link
    <2>2. \A v \in Users : Queued(v) => next_'[v] = next_[v]
      BY <1>2
      DEF TryLock, Lock, LoadToLock, LockCas, LockCasFails, Unlock, LoadToUnlock, UnlockCas,
          UnlockCasFails, Leave, Queued, MutexInv, TypeOK
    <2>3. /\ state_' = state_ \/ (state_ \notin Users /\ state_' \notin Users)
          /\ UNCHANGED <<awaiter_, curr, rest>>
      BY <1>2, MutexAssumption
      DEF TryLock, Lock, LoadToLock, LockCas, LockCasFails, Unlock, LoadToUnlock, UnlockCas,
          UnlockCasFails, Leave
    <2>. QED
      BY <2>1, <2>2, <2>3, OrderStays
  <1>. QED
    BY <1>1, <1>2

\* Each step is a step of HandoverLock or none, and the waiting order follows.
LEMMA StepInOrder ==
  ASSUME MutexInv, NEW q, Ordered(q), [Next]_vars
  PROVE  \/ \E u \in Users : Handover!Acquire(u) /\ Ordered(q)'
         \/ \E u \in Users : Handover!Enqueue(u) /\ Ordered(Append(q, u))'
         \/ \E u \in Users : Handover!Free(u) /\ Ordered(q)' /\ q = <<>>
         \/ \E u \in Users : /\ Handover!HandOver(u, Head(q)) /\ Head(q) \in Users
                             /\ Ordered(Tail(q))' /\ q # <<>>
         \/ UNCHANGED Handover!lockVars /\ Ordered(q)'
  <1>1. ASSUME NEW u \in Users, TryLock(u) \/ LockCas(u)
        PROVE  Handover!Acquire(u) /\ Ordered(q)'
    BY <1>1, AcquireStep, OrderKept
  <1>2. ASSUME NEW u \in Users, PushCas(u)
        PROVE  Handover!Enqueue(u) /\ Ordered(Append(q, u))'
    BY <1>2, EnqueueStep, PushCasOrder
  <1>3. ASSUME NEW u \in Users, HandOver(u) \/ HandOverTaken(u)
        PROVE  /\ Handover!HandOver(u, Head(q)) /\ Head(q) \in Users
               /\ Ordered(Tail(q))' /\ q # <<>>
    BY <1>3, HandOverOrder
  <1>4. ASSUME NEW u \in Users, UnlockCas(u)
        PROVE  Handover!Free(u) /\ Ordered(q)' /\ q = <<>>
    BY <1>4, FreeStep, OrderKept
  <1>5. ASSUME NEW u \in Users,
               \/ Lock(u) \/ LoadToLock(u) \/ LockCasFails(u) \/ Unlock(u)
               \/ LoadToUnlock(u) \/ UnlockCasFails(u) \/ TakeStack(u)
               \/ ReverseOne(u) \/ Leave(u)
        PROVE  UNCHANGED Handover!lockVars /\ Ordered(q)'
    BY <1>5, UnseenStep, OrderKept
  <1>6. CASE UNCHANGED vars
    <2>1. Holders' = Holders /\ Waiters' = Waiters
      BY <1>6 DEF vars, Holders, Waiters, Holds
    <2>2. Ordered(q)'
      BY <1>6, OrderStays DEF vars, Queued, Reversing
    <2>. QED
      BY <2>1, <2>2, Invisible
  <1>. QED
    BY <1>1, <1>2, <1>3, <1>4, <1>5, <1>6 DEF Next, LockStep, UnlockStep

\* The suspended users have an order that the lists lead to.
InOrder == \E q : Ordered(q)

LEMMA InitInOrder == Init => InOrder
  <1>. SUFFICES ASSUME Init
                PROVE  Ordered(<<>>)
    BY DEF InOrder
  <1>1. IsWaitingOrder(<<>>)
    BY MutexAssumption DEF Init, IsWaitingOrder, IsHeldOrder, Forward, Backward
  <1>. QED
    BY <1>1 DEF Init, Ordered, Queued

LEMMA NextInOrder == MutexInv /\ InOrder /\ [Next]_vars => InOrder'
  BY StepInOrder DEF InOrder

\* The suspended users have an order at any time, in which the lists lead to
\* them.
THEOREM WaitersAreOrdered == Spec => [](MutexInv /\ InOrder)
  BY InitInOrder, NextInOrder, Invariance, PTL DEF Spec

\* The lists lead to every suspended user once: neither a push that races with
\* the exchange of Unlock() nor the reversal loses or doubles an awaiter.
THEOREM NobodyIsLost == Spec => []NoLostWaiter
  <1>1. MutexInv /\ InOrder => NoLostWaiter
    BY TheOrder DEF InOrder, NoLostWaiter, Ordered
  <1>. QED
    BY <1>1, WaitersAreOrdered, PTL

\* The mutex is always handed to a waiter, and is let go only when nobody
\* waits.
THEOREM ImplementsHandoverLock == Spec => NoForgottenWaiter
  <1>1. Init => Handover!LockInit
    BY DEF Init, Handover!LockInit, Holder, Holders, Waiters, Holds, Releasing
  <1>2. MutexInv /\ InOrder /\ [Next]_vars => [Handover!LockNext]_(Handover!lockVars)
    BY StepInOrder DEF InOrder, Handover!LockNext
  <1>. QED
    BY <1>1, <1>2, WaitersAreOrdered, PTL DEF Spec, NoForgottenWaiter, Handover!LockSpec

\* The mutex is a first-come-first-served lock: whoever is pushed on the stack
\* gets the lock after all that were suspended before, and nobody overtakes.
THEOREM ImplementsFifoLock == Spec => FirstComeFirstServed
  <1>1. Init => Fifo!LockInit
    <2>. SUFFICES ASSUME Init
                  PROVE  Fifo!LockInit
      OBVIOUS
    <2>1. Holder = Null
      BY DEF Init, Holder, Holders, Holds, Releasing
    <2>2. MutexInv /\ IsWaitingOrder(<<>>)
      BY InitInv, MutexAssumption DEF Init, IsWaitingOrder, IsHeldOrder, Forward, Backward
    <2>3. Ordered(<<>>)
      BY <2>2 DEF Init, Ordered, Queued
    <2>. QED
      BY <2>1, <2>2, <2>3, TheOrder DEF Fifo!LockInit
  <1>2. ASSUME MutexInv, MutexInv', InOrder, [Next]_vars
        PROVE  [Fifo!LockNext]_(Fifo!lockVars)
    <2>1. PICK q : Ordered(q)
      BY <1>2 DEF InOrder
    <2>2. q \in Seq(Users) /\ q = WaitingOrder
      BY <1>2, <2>1, TheOrder DEF Ordered
    <2>3. \A r : Ordered(r)' => WaitingOrder' = r
      BY <1>2, OrderAtAnyTime DEF WaitsInOrder
    <2>4. ASSUME NEW u \in Users, Handover!Acquire(u), Ordered(q)'
          PROVE  Fifo!LockNext
      BY <2>2, <2>3, <2>4 DEF Handover!Acquire, Fifo!Acquire, Fifo!LockNext
    <2>5. ASSUME NEW u \in Users, Handover!Enqueue(u), Ordered(Append(q, u))'
          PROVE  Fifo!LockNext
      <3>1. u \notin Fifo!Queued
        BY <2>1, <2>2, <2>5 DEF Handover!Enqueue, Fifo!Queued, Ordered, Waiters, Queued
      <3>. QED
        BY <2>2, <2>3, <2>5, <3>1 DEF Handover!Enqueue, Fifo!Enqueue, Fifo!LockNext
    <2>6. ASSUME NEW u \in Users, Handover!Free(u), Ordered(q)', q = <<>>
          PROVE  Fifo!LockNext
      BY <2>2, <2>3, <2>6 DEF Handover!Free, Fifo!Release, Fifo!LockNext
    <2>7. ASSUME NEW u \in Users, Handover!HandOver(u, Head(q)), Ordered(Tail(q))', q # <<>>
          PROVE  Fifo!LockNext
      BY <2>2, <2>3, <2>7 DEF Handover!HandOver, Fifo!Release, Fifo!LockNext
    <2>8. ASSUME UNCHANGED Handover!lockVars, Ordered(q)'
          PROVE  UNCHANGED Fifo!lockVars
      BY <2>2, <2>3, <2>8 DEF Handover!lockVars, Fifo!lockVars
    <2>. QED
      BY <1>2, <2>1, <2>4, <2>5, <2>6, <2>7, <2>8, StepInOrder
  <1>. QED
    BY <1>1, <1>2, WaitersAreOrdered, PTL DEF Spec, FirstComeFirstServed, Fifo!LockSpec

-----------------------------------------------------------------------------
(* What a waiter can count on.  QueuedGetsLock is a liveness property; what it *)
(* rests on is that there is a holder to wait for, and that each handover      *)
(* brings a waiter nearer.                                                     *)

\* Who waits, waits for somebody.
WaitersHaveHolder == Waiters # {} => Holder \in Users

\* A user is suspended only while another holds the mutex: neither the last
\* compare-and-exchange of Unlock() nor a handover leaves waiters behind with
\* nobody to resume them.
THEOREM SomebodyHolds == Spec => []WaitersHaveHolder
  <1>1. Init => WaitersHaveHolder
    BY DEF Init, WaitersHaveHolder, Waiters
  <1>2. MutexInv /\ InOrder /\ WaitersHaveHolder /\ [Next]_vars => WaitersHaveHolder'
    <2>. SUFFICES ASSUME MutexInv, InOrder, WaitersHaveHolder, [Next]_vars
                  PROVE  WaitersHaveHolder'
      OBVIOUS
    <2>1. PICK q : Ordered(q)
      BY DEF InOrder
    <2>2. ASSUME NEW u \in Users,
                 \/ Handover!Acquire(u) \/ Handover!Enqueue(u) \/ Handover!Free(u)
                 \/ Head(q) \in Users /\ Handover!HandOver(u, Head(q))
          PROVE  WaitersHaveHolder'
      <3>1. Holder # Null => Holder \in Users
        BY HolderFacts
      <3>. QED
        BY <2>2, <3>1
        DEF WaitersHaveHolder, Handover!Acquire, Handover!Enqueue, Handover!Free,
            Handover!HandOver
    <2>3. CASE UNCHANGED Handover!lockVars
      BY <2>3 DEF WaitersHaveHolder, Handover!lockVars
    <2>. QED
      BY <2>1, <2>2, <2>3, StepInOrder
  <1>. QED
    BY <1>1, <1>2, WaitersAreOrdered, PTL DEF Spec

\* The waiter at place i keeps its place, or moves up by one as the mutex is
\* handed to the first.
MovesUp(i) ==
  \/ /\ Len(WaitingOrder') >= i
     /\ WaitingOrder'[i] = WaitingOrder[i]
     /\ Holder' = Holder
  \/ /\ Holder' = WaitingOrder[1]
     /\ i > 1 => Len(WaitingOrder') >= i - 1 /\ WaitingOrder'[i - 1] = WaitingOrder[i]

\* The waiter at place i gets the mutex at the i-th handover from now, however
\* many users come after it: nobody is put before it, and nothing but a handover
\* moves the queue.
THEOREM PlacesMoveUp == Spec => [][\A i \in 1..Len(WaitingOrder) : MovesUp(i)]_vars
  <1>1. ASSUME MutexInv, MutexInv', InOrder, WaitersHaveHolder, [Next]_vars,
               NEW i \in 1..Len(WaitingOrder)
        PROVE  MovesUp(i)
    <2>1. PICK q : Ordered(q)
      BY <1>1 DEF InOrder
    <2>2. q \in Seq(Users) /\ WaitingOrder = q /\ i \in 1..Len(q)
      BY <1>1, <2>1, TheOrder DEF Ordered
    <2>3. \A r : Ordered(r)' => WaitingOrder' = r
      BY <1>1, OrderAtAnyTime DEF WaitsInOrder
    <2>4. Holder # Null
      <3>1. q[i] \in Waiters
        BY <2>1, <2>2 DEF Ordered, Waiters, Queued
      <3>. QED
        BY <1>1, <3>1, MutexAssumption DEF WaitersHaveHolder
    <2>5. ASSUME NEW u \in Users, Handover!Enqueue(u), Ordered(Append(q, u))'
          PROVE  MovesUp(i)
      <3>1. WaitingOrder' = Append(q, u) /\ Holder' = Holder
        BY <2>3, <2>5 DEF Handover!Enqueue
      <3>2. Len(Append(q, u)) >= i /\ Append(q, u)[i] = q[i]
        BY <2>2
      <3>. QED
        BY <2>2, <3>1, <3>2 DEF MovesUp
    <2>6. ASSUME Holder' = Head(q), Ordered(Tail(q))', q # <<>>
          PROVE  MovesUp(i)
      <3>1. WaitingOrder' = Tail(q) /\ Holder' = q[1]
        <4>1. WaitingOrder' = Tail(q)
          BY <2>3, <2>6
        <4>2. Head(q) = q[1]
          OBVIOUS
        <4>. QED
          BY <2>6, <4>1, <4>2
      <3>2. i > 1 => Len(Tail(q)) >= i - 1 /\ Tail(q)[i - 1] = q[i]
        BY <2>2
      <3>. QED
        BY <2>2, <3>1, <3>2 DEF MovesUp
    <2>7. ASSUME UNCHANGED Handover!lockVars, Ordered(q)'
          PROVE  MovesUp(i)
      <3>1. WaitingOrder' = q /\ Holder' = Holder
        BY <2>3, <2>7 DEF Handover!lockVars
      <3>. QED
        BY <2>2, <3>1 DEF MovesUp
    <2>8. \A u \in Users : ~Handover!Acquire(u)
      BY <2>4 DEF Handover!Acquire
    <2>9. \A u \in Users : Handover!HandOver(u, Head(q)) => Holder' = Head(q)
      BY DEF Handover!HandOver
    <2>10. q # <<>>
      BY <2>2
    <2>. QED
      BY <1>1, <2>1, <2>5, <2>6, <2>7, <2>8, <2>9, <2>10, StepInOrder
  <1>2. MutexInv /\ MutexInv' /\ InOrder /\ WaitersHaveHolder /\ [Next]_vars
          => [\A i \in 1..Len(WaitingOrder) : MovesUp(i)]_vars
    BY <1>1
  <1>. QED
    BY <1>2, WaitersAreOrdered, SomebodyHolds, PTL DEF Spec
=============================================================================
