-------------------------- MODULE TaskContextProofs --------------------------
(***************************************************************************)
(* Proofs about TaskContext, for any modules, executors, threads and       *)
(* coroutines, in three layers:                                            *)
(*   - StackInv: how the stacks of the threads and the coroutines that     *)
(*     wait for each other fit together, whatever user code does;          *)
(*   - ModuleInv: the module of a thread is that of everything on its      *)
(*     stack, unless a service handler waits for a mutex or modules share  *)
(*     one;                                                                *)
(*   - ExecutorInv: so is the executor, unless user code posts elsewhere   *)
(*     or wakes a coroutine of another executor.                           *)
(***************************************************************************)
EXTENDS TaskContext, TLAPS, FiniteSetTheorems, SequenceTheorems

OnStack == {"running", "syncing", "waking"}

Types ==
  /\ g \in [Threads -> Contexts]
  /\ synchronized \in [Threads -> BOOLEAN]
  /\ stack \in [Threads -> Seq(Tasks)]
  /\ place \in [Tasks -> Places]
  /\ at \in [Tasks -> Executors \cup {None}]
  /\ own \in [Tasks -> Contexts]
  /\ home \in [Tasks -> Contexts]
  /\ parent \in [Tasks -> Tasks \cup Comms \cup {None}]
  /\ stale \in [Tasks -> Contexts \cup {None}]

\* Each coroutine that is on a stack has one spot there.
Spots ==
  /\ \A h \in Threads : \A i \in 1..Len(stack[h]) : place[stack[h][i]] \in OnStack
  /\ \A h, k \in Threads : \A i \in 1..Len(stack[h]) : \A j \in 1..Len(stack[k]) :
       stack[h][i] = stack[k][j] => h = k /\ i = j
  /\ \A t \in Tasks : place[t] \in OnStack =>
       \E h \in Threads : \E i \in 1..Len(stack[h]) : stack[h][i] = t

\* A coroutine waits for the end of exactly one other.
Families ==
  /\ \A t \in Tasks : place[t] = "none" => parent[t] = None
  /\ \A t \in Tasks : parent[t] \in Tasks => place[parent[t]] \in {"awaiting", "syncing"}
  /\ \A t, u \in Tasks : parent[t] \in Tasks /\ parent[t] = parent[u] => t = u
  /\ \A t \in Tasks : place[t] \in {"awaiting", "syncing"} =>
       \E u \in Tasks : parent[u] = t

\* Whom the end of a coroutine lets go on by co_await.
Up == [t \in Tasks |-> IF parent[t] \in Tasks /\ place[parent[t]] = "awaiting"
                       THEN parent[t] ELSE None]

\* A coroutine and those that await it, directly or not: the fewest coroutines
\* with which `up` leads from t on to no other.
Closed(up, S) == \A r \in S : up[r] \in S \cup {None}

Family(up, t) == {r \in Tasks : \A S \in SUBSET Tasks : t \in S /\ Closed(up, S) => r \in S}

\* Below the top of a stack are callers of resume() and of Sync(); what is
\* above a Sync() is of the family that it waits for.
Callers ==
  \A h \in Threads : \A i \in 1..(Len(stack[h]) - 1) :
    /\ place[stack[h][i]] \in {"syncing", "waking"}
    /\ place[stack[h][i]] = "syncing" =>
         \A t \in Tasks : parent[t] = stack[h][i] => t \in Family(Up, stack[h][i + 1])

StackInv == Types /\ Spots /\ Families /\ Callers

\* A coroutine is bound to the module it was created for, as is the one that
\* waits for it; only plain callbacks wait for mutexes.
Bound ==
  /\ \A t \in Tasks : own[t].ctx = home[t].ctx
  /\ \A t \in Tasks : parent[t] \in Tasks => /\ home[t].ctx = home[parent[t]].ctx
                                             /\ stale[t] = stale[parent[t]]
  /\ \A t \in Tasks : place[t] = "parked" => stale[t] = None

\* The module of a thread is that of all it is in the middle of.
OneModule ==
  \A h \in Threads : \A i \in 1..Len(stack[h]) : home[stack[h][i]].ctx = g[h].ctx

\* What has been resumed in place is no part of a service handler.
WokenPlain ==
  \A h \in Threads : \A i \in 1..(Len(stack[h]) - 1) :
    place[stack[h][i]] = "waking" => stale[stack[h][i + 1]] = None

ModuleInv == Bound /\ OneModule /\ WokenPlain

\* The executor of a thread.
ExecutorAt(h) == IF h \in Workers THEN ExecutorOf[h] ELSE None

\* A coroutine is bound to the executor it was created for, as is the one that
\* waits for it, and is queued nowhere else.
BoundThere ==
  /\ \A t \in Tasks : own[t].exe = home[t].exe
  /\ \A t \in Tasks : parent[t] \in Tasks => home[t].exe = home[parent[t]].exe
  /\ \A t \in Tasks : place[t] = "queued" => at[t] = home[t].exe

\* A thread is only in the middle of what is bound to its executor.
OneExecutor ==
  \A h \in Threads : \A i \in 1..Len(stack[h]) : home[stack[h][i]].exe = ExecutorAt(h)

ContextThere == \A h \in Threads : stack[h] # <<>> => g[h].exe = ExecutorAt(h)

ExecutorInv == BoundThere /\ OneExecutor /\ ContextThere

-----------------------------------------------------------------------------
(* Families.                                                               *)

LEMMA NoneIsNobody ==
  /\ None \notin Modules /\ None \notin Executors /\ None \notin Tasks /\ None \notin Comms
  /\ Workers \cap Comms = {} /\ Tasks \cap Comms = {}
  /\ IsFiniteSet(Workers)
  /\ ExecutorOf \in [Workers -> Executors]
  BY TaskContextAssumption

LEMMA FamilyIsLeast ==
  ASSUME NEW up, NEW t, NEW S \in SUBSET Tasks, t \in S, Closed(up, S)
  PROVE  Family(up, t) \subseteq S
  BY DEF Family

LEMMA FamilyIsClosed ==
  ASSUME NEW up \in [Tasks -> Tasks \cup {None}], NEW t \in Tasks
  PROVE  /\ Family(up, t) \in SUBSET Tasks
         /\ t \in Family(up, t)
         /\ Closed(up, Family(up, t))
  <1>1. Family(up, t) \in SUBSET Tasks /\ t \in Family(up, t)
    BY DEF Family
  <1>2. ASSUME NEW r \in Family(up, t), up[r] # None
        PROVE  up[r] \in Family(up, t)
    <2>1. r \in Tasks /\ up[r] \in Tasks
      BY <1>1, <1>2
    <2>2. ASSUME NEW S \in SUBSET Tasks, t \in S, Closed(up, S)
          PROVE  up[r] \in S
      BY <1>2, <2>2, FamilyIsLeast DEF Closed
    <2>. QED
      BY <2>1, <2>2 DEF Family
  <1>. QED
    BY <1>1, <1>2 DEF Closed

\* Another relation keeps a family that it does not touch.
LEMMA FamilyKept ==
  ASSUME NEW up \in [Tasks -> Tasks \cup {None}], NEW other \in [Tasks -> Tasks \cup {None}],
         NEW t \in Tasks, \A r \in Family(up, t) : other[r] = up[r]
  PROVE  Family(up, t) \subseteq Family(other, t)
  <1>1. Closed(up, Family(up, t) \cap Family(other, t))
    BY FamilyIsClosed DEF Closed
  <1>. QED
    BY <1>1, FamilyIsClosed, FamilyIsLeast

LEMMA UpIsPartial == Types => Up \in [Tasks -> Tasks \cup {None}]
  BY DEF Types, Up

\* Everybody in the family of t but t awaits.
LEMMA FamilyAwaits ==
  ASSUME Types, NEW t \in Tasks, NEW r \in Family(Up, t), r # t
  PROVE  r \in Tasks /\ place[r] = "awaiting"
  <1>. DEFINE S == {t} \cup {q \in Tasks : place[q] = "awaiting"}
  <1>1. Closed(Up, S)
    BY DEF Closed, Up
  <1>. QED
    BY <1>1, FamilyIsLeast

-----------------------------------------------------------------------------
(* Stacks.                                                                 *)

\* Front() and Append() on stacks.
LEMMA StackOps ==
  ASSUME NEW s \in Seq(Tasks)
  PROVE  /\ Len(s) \in Nat
         /\ s # <<>> => /\ Len(s) > 0 /\ Len(s) \in 1..Len(s)
                        /\ Last(s) \in Tasks /\ Last(s) = s[Len(s)]
                        /\ Front(s) \in Seq(Tasks)
                        /\ Len(Front(s)) = Len(s) - 1
                        /\ \A i \in 1..(Len(s) - 1) : Front(s)[i] = s[i]
         /\ \A t \in Tasks : /\ Append(s, t) \in Seq(Tasks)
                             /\ Len(Append(s, t)) = Len(s) + 1
                             /\ Append(s, t)[Len(s) + 1] = t
                             /\ \A i \in 1..Len(s) : Append(s, t)[i] = s[i]
         /\ \A i \in 1..Len(s) : s[i] \in Tasks
         /\ s = <<>> <=> Len(s) = 0
  <1>1. /\ Len(s) \in Nat
        /\ \A i \in 1..Len(s) : s[i] \in Tasks
        /\ s = <<>> <=> Len(s) = 0
    OBVIOUS
  <1>2. ASSUME s # <<>>
        PROVE  /\ Len(s) > 0 /\ Len(s) \in 1..Len(s)
               /\ Last(s) \in Tasks /\ Last(s) = s[Len(s)]
    BY <1>1, <1>2 DEF Last
  <1>3. ASSUME s # <<>>
        PROVE  /\ Front(s) \in Seq(Tasks)
               /\ Len(Front(s)) = Len(s) - 1
               /\ \A i \in 1..(Len(s) - 1) : Front(s)[i] = s[i]
    <2>1. Len(s) - 1 \in Int /\ 1 \in Int /\ \A i \in 1..(Len(s) - 1) : s[i] \in Tasks
      BY <1>1
    <2>2. /\ SubSeq(s, 1, Len(s) - 1) \in Seq(Tasks)
          /\ Len(SubSeq(s, 1, Len(s) - 1))
               = IF 1 <= Len(s) - 1 THEN (Len(s) - 1) - 1 + 1 ELSE 0
          /\ \A i \in 1..((Len(s) - 1) - 1 + 1) :
               SubSeq(s, 1, Len(s) - 1)[i] = s[1 + i - 1]
      BY <2>1, SubSeqProperties
    <2>3. Len(s) - 1 \in Nat
      BY <1>1, <1>2, <1>3
    <2>4. \A i \in 1..(Len(s) - 1) : i \in 1..((Len(s) - 1) - 1 + 1) /\ 1 + i - 1 = i
      BY <2>3
    <2>5. Front(s) = SubSeq(s, 1, Len(s) - 1)
      BY DEF Front
    <2>6. (IF 1 <= Len(s) - 1 THEN (Len(s) - 1) - 1 + 1 ELSE 0) = Len(s) - 1
      <3>1. \A n \in Nat : (IF 1 <= n THEN n - 1 + 1 ELSE 0) = n
        <4>1. ASSUME NEW n \in Nat PROVE (1 <= n => n - 1 + 1 = n) /\ (~(1 <= n) => n = 0)
          OBVIOUS
        <4>. QED
          BY <4>1
      <3>. QED
        BY <2>3, <3>1
    <2>7. \A i \in 1..(Len(s) - 1) : SubSeq(s, 1, Len(s) - 1)[i] = s[i]
      BY <2>2, <2>4
    <2>. QED
      BY <2>2, <2>5, <2>6, <2>7
  <1>4. ASSUME NEW t \in Tasks
        PROVE  /\ Append(s, t) \in Seq(Tasks)
               /\ Len(Append(s, t)) = Len(s) + 1
               /\ Append(s, t)[Len(s) + 1] = t
               /\ \A i \in 1..Len(s) : Append(s, t)[i] = s[i]
    OBVIOUS
  <1>. QED
    BY <1>1, <1>2, <1>3, <1>4

\* The stacks after one of them has lost its top, got another one, or grown.
LEMMA PopStack ==
  ASSUME Types, NEW h \in Threads, stack[h] # <<>>, stack' = [stack EXCEPT ![h] = Front(@)]
  PROVE  /\ stack' \in [Threads -> Seq(Tasks)]
         /\ \A k \in Threads : k # h => stack'[k] = stack[k]
         /\ Len(stack'[h]) = Len(stack[h]) - 1
         /\ \A i \in 1..Len(stack'[h]) : i \in 1..(Len(stack[h]) - 1) /\ stack'[h][i] = stack[h][i]
  <1>1. stack[h] \in Seq(Tasks) /\ stack'[h] = Front(stack[h])
    BY DEF Types
  <1>2. /\ Front(stack[h]) \in Seq(Tasks)
        /\ Len(Front(stack[h])) = Len(stack[h]) - 1
        /\ \A i \in 1..(Len(stack[h]) - 1) : Front(stack[h])[i] = stack[h][i]
    BY <1>1, StackOps
  <1>. QED
    BY <1>1, <1>2 DEF Types

LEMMA ReplaceTop ==
  ASSUME Types, NEW h \in Threads, stack[h] # <<>>, NEW u \in Tasks,
         stack' = [stack EXCEPT ![h] = Append(Front(@), u)]
  PROVE  /\ stack' \in [Threads -> Seq(Tasks)]
         /\ \A k \in Threads : k # h => stack'[k] = stack[k]
         /\ Len(stack'[h]) = Len(stack[h])
         /\ stack'[h][Len(stack[h])] = u
         /\ \A i \in 1..(Len(stack[h]) - 1) : stack'[h][i] = stack[h][i]
  <1>1. stack[h] \in Seq(Tasks) /\ stack'[h] = Append(Front(stack[h]), u) /\ Len(stack[h]) \in Nat
    BY DEF Types
  <1>2. /\ Front(stack[h]) \in Seq(Tasks)
        /\ Len(Front(stack[h])) = Len(stack[h]) - 1
        /\ \A i \in 1..(Len(stack[h]) - 1) : Front(stack[h])[i] = stack[h][i]
    BY <1>1, StackOps
  <1>3. /\ Append(Front(stack[h]), u) \in Seq(Tasks)
        /\ Len(Append(Front(stack[h]), u)) = Len(Front(stack[h])) + 1
        /\ Append(Front(stack[h]), u)[Len(Front(stack[h])) + 1] = u
        /\ \A i \in 1..Len(Front(stack[h])) : Append(Front(stack[h]), u)[i] = Front(stack[h])[i]
    BY <1>2, StackOps
  <1>4. Len(stack[h]) - 1 + 1 = Len(stack[h])
    BY <1>1
  <1>. QED
    BY <1>1, <1>2, <1>3, <1>4 DEF Types

LEMMA PushStack ==
  ASSUME Types, NEW h \in Threads, NEW u \in Tasks, stack' = [stack EXCEPT ![h] = Append(@, u)]
  PROVE  /\ stack' \in [Threads -> Seq(Tasks)]
         /\ \A k \in Threads : k # h => stack'[k] = stack[k]
         /\ Len(stack'[h]) = Len(stack[h]) + 1
         /\ stack'[h][Len(stack[h]) + 1] = u
         /\ \A i \in 1..Len(stack[h]) : stack'[h][i] = stack[h][i]
  <1>1. stack[h] \in Seq(Tasks) /\ stack'[h] = Append(stack[h], u)
    BY DEF Types
  <1>. QED
    BY <1>1, StackOps DEF Types

LEMMA NewStack ==
  ASSUME Types, NEW h \in Threads, stack[h] = <<>>, NEW u \in Tasks,
         stack' = [stack EXCEPT ![h] = <<u>>]
  PROVE  /\ stack' \in [Threads -> Seq(Tasks)]
         /\ \A k \in Threads : k # h => stack'[k] = stack[k]
         /\ Len(stack'[h]) = 1
         /\ stack'[h][1] = u
  BY DEF Types

\* The coroutine that runs on h is the last on its stack.
LEMMA Running ==
  ASSUME Types, NEW h \in Threads, NEW t, Runs(h, t)
  PROVE  /\ stack[h] # <<>> /\ Len(stack[h]) \in Nat /\ Len(stack[h]) > 0
         /\ Len(stack[h]) \in 1..Len(stack[h])
         /\ stack[h][Len(stack[h])] = t /\ t \in Tasks /\ place[t] = "running"
  BY StackOps DEF Types, Runs

\* What LeftBy() does: a caller of resume() below the top goes on.
LEMMA Left ==
  ASSUME Types, NEW h \in Threads, NEW t, Runs(h, t), NEW places \in [Tasks -> Places]
  PROVE  /\ LeftBy(h, places) \in [Tasks -> Places]
         /\ \A u \in Tasks : \/ LeftBy(h, places)[u] = places[u]
                             \/ /\ places[u] = "waking" /\ LeftBy(h, places)[u] = "running"
                                /\ Len(stack[h]) - 1 \in 1..Len(stack[h])
                                /\ stack[h][Len(stack[h]) - 1] = u
  <1>. DEFINE below == Front(stack[h])
  <1>1. CASE below # <<>> /\ places[Last(below)] = "waking"
    <2>1. /\ stack[h] \in Seq(Tasks) /\ stack[h] # <<>>
          /\ below \in Seq(Tasks) /\ Len(below) = Len(stack[h]) - 1
          /\ \A i \in 1..(Len(stack[h]) - 1) : below[i] = stack[h][i]
      BY Running, StackOps DEF Types
    <2>2. Last(below) \in Tasks /\ Last(below) = below[Len(below)] /\ Len(below) \in 1..Len(below)
      BY <1>1, <2>1, StackOps
    <2>3. LeftBy(h, places) = [places EXCEPT ![Last(below)] = "running"]
      BY <1>1 DEF LeftBy
    <2>4. /\ Len(stack[h]) - 1 \in 1..Len(stack[h])
          /\ stack[h][Len(stack[h]) - 1] = Last(below)
      BY <2>1, <2>2
    <2>. QED
      BY <1>1, <2>2, <2>3, <2>4 DEF Places
  <1>2. CASE ~(below # <<>> /\ places[Last(below)] = "waking")
    BY <1>2 DEF LeftBy
  <1>. QED
    BY <1>1, <1>2

\* The spots after each kind of step.
LEMMA SpotsKept ==
  ASSUME Spots, stack' = stack,
         \A u \in Tasks : place'[u] \in OnStack <=> place[u] \in OnStack,
         Types
  PROVE  Spots'
  <1>1. \A h \in Threads : \A i \in 1..Len(stack[h]) : stack[h][i] \in Tasks
    BY StackOps DEF Types
  <1>. QED
    BY <1>1 DEF Spots

LEMMA SpotsPop ==
  ASSUME Types, Spots, NEW h \in Threads, NEW t, Runs(h, t),
         stack' = [stack EXCEPT ![h] = Front(@)],
         place'[t] \notin OnStack,
         \A u \in Tasks \ {t} : place'[u] \in OnStack <=> place[u] \in OnStack
  PROVE  Spots'
  <1>1. /\ \A k \in Threads : k # h => stack'[k] = stack[k]
        /\ Len(stack'[h]) = Len(stack[h]) - 1
        /\ \A i \in 1..Len(stack'[h]) : i \in 1..(Len(stack[h]) - 1) /\ stack'[h][i] = stack[h][i]
    BY Running, PopStack
  <1>2. Len(stack[h]) \in Nat /\ Len(stack[h]) \in 1..Len(stack[h]) /\ stack[h][Len(stack[h])] = t
    BY Running
  <1>3. \A k \in Threads : \A i \in 1..Len(stack'[k]) :
          /\ i \in 1..Len(stack[k]) /\ stack'[k][i] = stack[k][i]
          /\ stack[k][i] \in Tasks
          /\ ~(k = h /\ i = Len(stack[h]))
    <2>1. \A k \in Threads : \A i \in 1..Len(stack[k]) : stack[k][i] \in Tasks
      BY StackOps DEF Types
    <2>2. ASSUME NEW i \in 1..Len(stack'[h])
          PROVE  i \in 1..Len(stack[h]) /\ stack'[h][i] = stack[h][i] /\ i # Len(stack[h])
      BY <1>1, <1>2
    <2>3. ASSUME NEW k \in Threads, k # h PROVE stack'[k] = stack[k]
      BY <1>1, <2>3
    <2>. QED
      BY <2>1, <2>2, <2>3
  <1>4. \A k \in Threads : \A i \in 1..Len(stack'[k]) : stack[k][i] # t
    BY <1>2, <1>3 DEF Spots
  <1>5. \A k \in Threads : \A i \in 1..Len(stack'[k]) : place'[stack'[k][i]] \in OnStack
    BY <1>3, <1>4 DEF Spots
  <1>6. \A k, l \in Threads : \A i \in 1..Len(stack'[k]) : \A j \in 1..Len(stack'[l]) :
          stack'[k][i] = stack'[l][j] => k = l /\ i = j
    BY <1>3 DEF Spots
  <1>7. ASSUME NEW u \in Tasks, place'[u] \in OnStack
        PROVE  \E k \in Threads : \E i \in 1..Len(stack'[k]) : stack'[k][i] = u
    <2>1. u # t /\ place[u] \in OnStack
      BY <1>7
    <2>2a. PICK k \in Threads : \E i \in 1..Len(stack[k]) : stack[k][i] = u
      BY <2>1 DEF Spots
    <2>2. PICK i \in 1..Len(stack[k]) : stack[k][i] = u
      BY <2>2a
    <2>3. i \in 1..Len(stack'[k])
      <3>1. CASE k = h
        BY <1>1, <1>2, <2>1, <2>2, <3>1
      <3>2. CASE k # h
        BY <1>1, <2>2, <3>2
      <3>. QED
        BY <3>1, <3>2
    <2>. QED
      BY <1>3, <2>2, <2>3
  <1>. QED
    BY <1>5, <1>6, <1>7 DEF Spots

LEMMA SpotsReplace ==
  ASSUME Types, Spots, NEW h \in Threads, NEW t, Runs(h, t), NEW u \in Tasks \ {t},
         stack' = [stack EXCEPT ![h] = Append(Front(@), u)],
         place[u] \notin OnStack, place'[u] \in OnStack, place'[t] \notin OnStack,
         \A r \in Tasks \ {t, u} : place'[r] \in OnStack <=> place[r] \in OnStack
  PROVE  Spots'
  <1>1. /\ \A k \in Threads : k # h => stack'[k] = stack[k]
        /\ Len(stack'[h]) = Len(stack[h])
        /\ stack'[h][Len(stack[h])] = u
        /\ \A i \in 1..(Len(stack[h]) - 1) : stack'[h][i] = stack[h][i]
    BY Running, ReplaceTop
  <1>2. Len(stack[h]) \in Nat /\ Len(stack[h]) \in 1..Len(stack[h]) /\ stack[h][Len(stack[h])] = t
    BY Running
  <1>3. \A k \in Threads : \A i \in 1..Len(stack'[k]) :
          /\ i \in 1..Len(stack[k]) /\ stack[k][i] \in Tasks
          /\ stack'[k][i] = IF k = h /\ i = Len(stack[h]) THEN u ELSE stack[k][i]
    <2>1. \A k \in Threads : \A i \in 1..Len(stack[k]) : stack[k][i] \in Tasks
      BY StackOps DEF Types
    <2>2. ASSUME NEW i \in 1..Len(stack'[h])
          PROVE  /\ i \in 1..Len(stack[h])
                 /\ i # Len(stack[h]) => i \in 1..(Len(stack[h]) - 1)
      BY <1>1, <1>2
    <2>3. ASSUME NEW k \in Threads, k # h PROVE stack'[k] = stack[k]
      BY <1>1, <2>3
    <2>. QED
      BY <1>1, <2>1, <2>2, <2>3
  <1>4. \A k \in Threads : \A i \in 1..Len(stack[k]) :
          /\ stack[k][i] # u
          /\ stack[k][i] = t => k = h /\ i = Len(stack[h])
    BY <1>2 DEF Spots
  <1>5. \A k \in Threads : \A i \in 1..Len(stack'[k]) : place'[stack'[k][i]] \in OnStack
    BY <1>3, <1>4 DEF Spots
  <1>6. \A k, l \in Threads : \A i \in 1..Len(stack'[k]) : \A j \in 1..Len(stack'[l]) :
          stack'[k][i] = stack'[l][j] => k = l /\ i = j
    BY <1>3, <1>4 DEF Spots
  <1>7. ASSUME NEW r \in Tasks, place'[r] \in OnStack
        PROVE  \E k \in Threads : \E i \in 1..Len(stack'[k]) : stack'[k][i] = r
    <2>1. CASE r = u
      BY <1>1, <1>2, <2>1
    <2>2. CASE r # u
      <3>1. r # t /\ place[r] \in OnStack
        BY <1>7, <2>2
      <3>2a. PICK k \in Threads : \E i \in 1..Len(stack[k]) : stack[k][i] = r
        BY <3>1 DEF Spots
      <3>2. PICK i \in 1..Len(stack[k]) : stack[k][i] = r
        BY <3>2a
      <3>3. i \in 1..Len(stack'[k]) /\ ~(k = h /\ i = Len(stack[h]))
        BY <1>1, <1>2, <3>1, <3>2
      <3>. QED
        BY <1>3, <3>2, <3>3
    <2>. QED
      BY <2>1, <2>2
  <1>. QED
    BY <1>5, <1>6, <1>7 DEF Spots

LEMMA SpotsPush ==
  ASSUME Types, Spots, NEW h \in Threads, NEW u \in Tasks,
         \/ stack' = [stack EXCEPT ![h] = Append(@, u)]
         \/ stack[h] = <<>> /\ stack' = [stack EXCEPT ![h] = <<u>>],
         place[u] \notin OnStack, place'[u] \in OnStack,
         \A r \in Tasks \ {u} : place'[r] \in OnStack <=> place[r] \in OnStack
  PROVE  Spots'
  <1>1. /\ \A k \in Threads : k # h => stack'[k] = stack[k]
        /\ Len(stack'[h]) = Len(stack[h]) + 1
        /\ stack'[h][Len(stack[h]) + 1] = u
        /\ \A i \in 1..Len(stack[h]) : stack'[h][i] = stack[h][i]
    <2>1. CASE stack' = [stack EXCEPT ![h] = Append(@, u)]
      BY <2>1, PushStack
    <2>2. CASE stack[h] = <<>> /\ stack' = [stack EXCEPT ![h] = <<u>>]
      <3>1. Len(stack[h]) = 0 /\ Len(stack[h]) + 1 = 1
        BY <2>2
      <3>2. /\ \A k \in Threads : k # h => stack'[k] = stack[k]
            /\ Len(stack'[h]) = 1 /\ stack'[h][1] = u
        BY <2>2, NewStack
      <3>. QED
        BY <3>1, <3>2
    <2>. QED
      BY <2>1, <2>2
  <1>2. Len(stack[h]) \in Nat
    BY StackOps DEF Types
  <1>3. \A k \in Threads : \A i \in 1..Len(stack'[k]) :
          \/ k = h /\ i = Len(stack[h]) + 1 /\ stack'[k][i] = u
          \/ i \in 1..Len(stack[k]) /\ stack[k][i] \in Tasks /\ stack'[k][i] = stack[k][i]
    <2>1. \A k \in Threads : \A i \in 1..Len(stack[k]) : stack[k][i] \in Tasks
      BY StackOps DEF Types
    <2>2. ASSUME NEW i \in 1..Len(stack'[h])
          PROVE  i \in 1..Len(stack[h]) \/ i = Len(stack[h]) + 1
      BY <1>1, <1>2
    <2>3. ASSUME NEW k \in Threads, k # h PROVE stack'[k] = stack[k]
      BY <1>1, <2>3
    <2>. QED
      BY <1>1, <2>1, <2>2, <2>3
  <1>4. \A k \in Threads : \A i \in 1..Len(stack[k]) : stack[k][i] # u
    BY DEF Spots
  <1>5. \A k \in Threads : \A i \in 1..Len(stack'[k]) : place'[stack'[k][i]] \in OnStack
    BY <1>3, <1>4 DEF Spots
  <1>6. ASSUME NEW k \in Threads, NEW l \in Threads, NEW i \in 1..Len(stack'[k]),
               NEW j \in 1..Len(stack'[l]), stack'[k][i] = stack'[l][j]
        PROVE  k = l /\ i = j
    <2>1. CASE stack'[k][i] = u
      <3>1. k = h /\ i = Len(stack[h]) + 1
        BY <1>3, <1>4, <2>1
      <3>2. l = h /\ j = Len(stack[h]) + 1
        <4>1. stack'[l][j] = u
          BY <1>6, <2>1
        <4>. QED
          BY <1>3, <1>4, <4>1
      <3>. QED
        BY <3>1, <3>2
    <2>2. CASE stack'[k][i] # u
      <3>1. /\ i \in 1..Len(stack[k]) /\ j \in 1..Len(stack[l])
            /\ stack[k][i] = stack[l][j]
        BY <1>3, <1>6, <2>2
      <3>. QED
        BY <3>1 DEF Spots
    <2>. QED
      BY <2>1, <2>2
  <1>7. ASSUME NEW r \in Tasks, place'[r] \in OnStack
        PROVE  \E k \in Threads : \E i \in 1..Len(stack'[k]) : stack'[k][i] = r
    <2>1. CASE r = u
      BY <1>1, <1>2, <2>1
    <2>2. CASE r # u
      <3>1a. PICK k \in Threads : \E i \in 1..Len(stack[k]) : stack[k][i] = r
        BY <1>7, <2>2 DEF Spots
      <3>1. PICK i \in 1..Len(stack[k]) : stack[k][i] = r
        BY <3>1a
      <3>2. i \in 1..Len(stack'[k]) /\ stack'[k][i] = stack[k][i]
        BY <1>1, <1>2, <3>1
      <3>. QED
        BY <3>1, <3>2
    <2>. QED
      BY <2>1, <2>2
  <1>. QED
    BY <1>5, <1>6, <1>7 DEF Spots

-----------------------------------------------------------------------------
(* Who waits for whom, after each kind of step.                            *)

LEMMA FamiliesKept ==
  ASSUME Types, Families, parent' = parent,
         \A u \in Tasks : /\ place'[u] = "none" => place[u] = "none"
                          /\ place'[u] \in {"awaiting", "syncing"} <=> place[u] \in {"awaiting", "syncing"}
  PROVE  Families'
  BY DEF Families, Types

\* A new coroutine that no other one waits for.
LEMMA FamiliesNew ==
  ASSUME Types, Families, NEW u \in Tasks, NEW by \in Comms \cup {None},
         place[u] = "none", place'[u] \in {"queued", "running"},
         parent' = [parent EXCEPT ![u] = by],
         \A r \in Tasks \ {u} : place'[r] = place[r]
  PROVE  Families'
  <1>1. by \notin Tasks
    BY NoneIsNobody
  <1>2. \A r \in Tasks : parent[r] # u
    BY DEF Families
  <1>3. \A r \in Tasks : parent'[r] = IF r = u THEN by ELSE parent[r]
    BY DEF Types
  <1>4. \A r \in Tasks : place'[r] = "none" => parent'[r] = None
    BY <1>3 DEF Families
  <1>5. \A r \in Tasks : parent'[r] \in Tasks => place'[parent'[r]] \in {"awaiting", "syncing"}
    BY <1>1, <1>2, <1>3 DEF Families
  <1>6. \A r, q \in Tasks : parent'[r] \in Tasks /\ parent'[r] = parent'[q] => r = q
    BY <1>1, <1>3 DEF Families
  <1>7. ASSUME NEW r \in Tasks, place'[r] \in {"awaiting", "syncing"}
        PROVE  \E q \in Tasks : parent'[q] = r
    <2>1. PICK q \in Tasks : parent[q] = r
      BY <1>7 DEF Families
    <2>2. q # u
      BY <2>1, NoneIsNobody DEF Families
    <2>. QED
      BY <1>3, <2>1, <2>2
  <1>. QED
    BY <1>4, <1>5, <1>6, <1>7 DEF Families

\* A new coroutine u that t waits for.
LEMMA FamiliesChild ==
  ASSUME Types, Families, NEW t \in Tasks, NEW u \in Tasks \ {t},
         place[u] = "none", place'[u] = "running",
         place[t] = "running", place'[t] \in {"awaiting", "syncing"},
         parent' = [parent EXCEPT ![u] = t],
         \A r \in Tasks \ {t, u} : place'[r] = place[r]
  PROVE  Families'
  <1>1. \A r \in Tasks : parent[r] # u /\ parent[r] # t
    BY DEF Families
  <1>2. \A r \in Tasks : parent'[r] = IF r = u THEN t ELSE parent[r]
    BY DEF Types
  <1>3. parent[u] = None
    BY DEF Families
  <1>4. \A r \in Tasks : place'[r] = "none" => parent'[r] = None
    BY <1>2 DEF Families
  <1>5. \A r \in Tasks : parent'[r] \in Tasks => place'[parent'[r]] \in {"awaiting", "syncing"}
    BY <1>1, <1>2 DEF Families
  <1>6. \A r, q \in Tasks : parent'[r] \in Tasks /\ parent'[r] = parent'[q] => r = q
    BY <1>1, <1>2 DEF Families
  <1>7. ASSUME NEW r \in Tasks, place'[r] \in {"awaiting", "syncing"}
        PROVE  \E q \in Tasks : parent'[q] = r
    <2>1. CASE r = t
      BY <1>2, <2>1
    <2>2. CASE r # t
      <3>1. r # u /\ place[r] \in {"awaiting", "syncing"}
        BY <1>7, <2>2
      <3>2. PICK q \in Tasks : parent[q] = r
        BY <3>1 DEF Families
      <3>3. q # u
        BY <1>3, <3>2, NoneIsNobody
      <3>. QED
        BY <1>2, <3>2, <3>3
    <2>. QED
      BY <2>1, <2>2
  <1>. QED
    BY <1>4, <1>5, <1>6, <1>7 DEF Families

\* The end of t, which lets the coroutine that waits for it go on.
LEMMA FamiliesEnd ==
  ASSUME Types, Families, NEW t \in Tasks, place[t] = "running", place'[t] = "none",
         parent' = [parent EXCEPT ![t] = None],
         parent[t] \in Tasks => place'[parent[t]] = "running",
         \A r \in Tasks \ {t, parent[t]} :
            /\ place'[r] = "none" => place[r] = "none"
            /\ place'[r] \in {"awaiting", "syncing"} <=> place[r] \in {"awaiting", "syncing"}
  PROVE  Families'
  <1>1. \A r \in Tasks : parent[r] # t
    BY DEF Families
  <1>2. \A r \in Tasks : parent'[r] = IF r = t THEN None ELSE parent[r]
    BY DEF Types
  <1>3. \A r \in Tasks \ {t} : parent[r] \in Tasks => parent[r] # parent[t]
    BY DEF Families
  <1>4. \A r \in Tasks : place'[r] = "none" => parent'[r] = None
    BY <1>2 DEF Families
  <1>5. \A r \in Tasks : parent'[r] \in Tasks => place'[parent'[r]] \in {"awaiting", "syncing"}
    <2>1. ASSUME NEW r \in Tasks, parent'[r] \in Tasks
          PROVE  place'[parent'[r]] \in {"awaiting", "syncing"}
      <3>1. r # t /\ parent'[r] = parent[r]
        BY <1>2, <2>1, NoneIsNobody
      <3>2. parent[r] \in Tasks \ {t, parent[t]}
        BY <1>1, <1>3, <2>1, <3>1
      <3>. QED
        BY <3>1, <3>2 DEF Families
    <2>. QED
      BY <2>1
  <1>6. \A r, q \in Tasks : parent'[r] \in Tasks /\ parent'[r] = parent'[q] => r = q
    BY <1>2, NoneIsNobody DEF Families
  <1>7. ASSUME NEW r \in Tasks, place'[r] \in {"awaiting", "syncing"}
        PROVE  \E q \in Tasks : parent'[q] = r
    <2>1. r # t /\ r # parent[t] /\ place[r] \in {"awaiting", "syncing"}
      BY <1>7
    <2>2. PICK q \in Tasks : parent[q] = r
      BY <2>1 DEF Families
    <2>3. q # t
      BY <2>1, <2>2
    <2>. QED
      BY <1>2, <2>2, <2>3
  <1>. QED
    BY <1>4, <1>5, <1>6, <1>7 DEF Families

-----------------------------------------------------------------------------
(* Who calls whom on a stack, after each kind of step.                     *)

\* Everybody on a stack is a coroutine.
LEMMA StackOfTasks ==
  ASSUME Types, NEW h \in Threads, NEW i \in 1..Len(stack[h])
  PROVE  stack[h][i] \in Tasks
  BY StackOps DEF Types

\* Whoever runs on h is at its top and nowhere else.
LEMMA OtherThanTop ==
  ASSUME Types, Spots, NEW h \in Threads, NEW t, Runs(h, t),
         NEW k \in Threads, NEW i \in 1..Len(stack[k]), ~(k = h /\ i = Len(stack[h]))
  PROVE  stack[k][i] \in Tasks \ {t} /\ place[stack[k][i]] \in OnStack
  <1>1. Len(stack[h]) \in 1..Len(stack[h]) /\ stack[h][Len(stack[h])] = t
    BY Running
  <1>2. stack[k][i] = stack[h][Len(stack[h])] => k = h /\ i = Len(stack[h])
    BY <1>1 DEF Spots
  <1>3. stack[k][i] \in Tasks
    BY StackOfTasks
  <1>4. place[stack[k][i]] \in OnStack
    BY DEF Spots
  <1>. QED
    BY <1>1, <1>2, <1>3, <1>4

\* What stays below the top of a stack goes on waiting there.
Lower ==
  \A k \in Threads : \A i \in 1..(Len(stack'[k]) - 1) :
    /\ i \in 1..(Len(stack[k]) - 1) /\ stack'[k][i] = stack[k][i]
    /\ stack'[k][i + 1] = stack[k][i + 1]
    /\ place'[stack[k][i]] = place[stack[k][i]]

\* Stacks only lose their tops, or stay; so do families.
LEMMA CallersPop ==
  ASSUME Types, Callers,
         Lower,
         Up' = Up,
         \A r, u \in Tasks : parent'[r] = u => parent[r] = u
  PROVE  Callers'
  <1>. SUFFICES ASSUME NEW k \in Threads, NEW i \in 1..(Len(stack'[k]) - 1)
                PROVE  /\ place'[stack'[k][i]] \in {"syncing", "waking"}
                       /\ place'[stack'[k][i]] = "syncing" =>
                            \A r \in Tasks : parent'[r] = stack'[k][i]
                                             => r \in Family(Up', stack'[k][i + 1])
    BY DEF Callers
  <1>1. /\ i \in 1..(Len(stack[k]) - 1) /\ stack'[k][i] = stack[k][i]
        /\ stack'[k][i + 1] = stack[k][i + 1]
        /\ place'[stack[k][i]] = place[stack[k][i]]
    BY DEF Lower
  <1>2. stack[k][i] \in Tasks
    <2>1. i \in 1..Len(stack[k])
      BY <1>1, StackOps DEF Types
    <2>. QED
      BY <2>1, StackOfTasks
  <1>3. /\ place[stack[k][i]] \in {"syncing", "waking"}
        /\ place[stack[k][i]] = "syncing" =>
             \A r \in Tasks : parent[r] = stack[k][i] => r \in Family(Up, stack[k][i + 1])
    BY <1>1 DEF Callers
  <1>. QED
    BY <1>1, <1>2, <1>3

\* Nobody but u has got a parent, t.
OnlyNew(t, u) == \A r \in Tasks : parent'[r] = parent[r] \/ (r = u /\ parent'[r] = t)

\* A new top u.
LEMMA CallersPush ==
  ASSUME Types, Spots, Callers, NEW h \in Threads, NEW t, Runs(h, t), NEW u \in Tasks,
         stack' = [stack EXCEPT ![h] = Append(@, u)],
         place'[t] \in {"syncing", "waking"},
         \A r \in Tasks : parent[r] # t,
         OnlyNew(t, u),
         \A r \in Tasks : r # t /\ place[r] \in OnStack => place'[r] = place[r],
         Up' = Up
  PROVE  Callers'
  <1>. SUFFICES ASSUME NEW k \in Threads, NEW i \in 1..(Len(stack'[k]) - 1)
                PROVE  /\ place'[stack'[k][i]] \in {"syncing", "waking"}
                       /\ place'[stack'[k][i]] = "syncing" =>
                            \A r \in Tasks : parent'[r] = stack'[k][i]
                                             => r \in Family(Up', stack'[k][i + 1])
    BY DEF Callers
  <1>1. /\ k # h => stack'[k] = stack[k]
        /\ Len(stack'[h]) = Len(stack[h]) + 1
        /\ stack'[h][Len(stack[h]) + 1] = u
        /\ \A j \in 1..Len(stack[h]) : stack'[h][j] = stack[h][j]
    BY PushStack
  <1>2. /\ Len(stack[k]) \in Nat /\ Len(stack[h]) \in 1..Len(stack[h])
        /\ stack[h][Len(stack[h])] = t /\ Len(stack[h]) \in Nat /\ t \in Tasks
    BY Running, StackOps DEF Types
  <1>3. CASE k = h /\ i = Len(stack[h])
    <2>1. stack'[k][i] = t /\ stack'[k][i + 1] = u
      BY <1>1, <1>2, <1>3
    <2>2. u \in Family(Up', u)
      BY UpIsPartial, FamilyIsClosed
    <2>3. \A r \in Tasks : parent'[r] = t => r = u
      BY DEF OnlyNew
    <2>. QED
      BY <2>1, <2>2, <2>3
  <1>4. CASE ~(k = h /\ i = Len(stack[h]))
    <2>1. /\ i \in 1..(Len(stack[k]) - 1) /\ i \in 1..Len(stack[k])
          /\ stack'[k][i] = stack[k][i] /\ stack'[k][i + 1] = stack[k][i + 1]
      <3>1. CASE k # h
        BY <1>1, <1>2, <3>1
      <3>2. CASE k = h
        <4>1. i \in 1..Len(stack[h]) /\ i + 1 \in 1..Len(stack[h])
          BY <1>1, <1>2, <1>4, <3>2
        <4>. QED
          BY <1>1, <1>2, <3>2, <4>1
      <3>. QED
        BY <3>1, <3>2
    <2>2. stack[k][i] \in Tasks /\ stack[k][i] # t /\ place[stack[k][i]] \in OnStack
      <3>1. ~(k = h /\ i = Len(stack[h]))
        BY <1>4
      <3>. QED
        BY <2>1, <3>1, OtherThanTop
    <2>3. /\ place[stack[k][i]] \in {"syncing", "waking"}
          /\ place[stack[k][i]] = "syncing" =>
               \A r \in Tasks : parent[r] = stack[k][i] => r \in Family(Up, stack[k][i + 1])
      BY <2>1 DEF Callers
    <2>4. \A r \in Tasks : parent'[r] = stack[k][i] => parent[r] = stack[k][i]
      BY <2>2 DEF OnlyNew
    <2>. QED
      BY <2>1, <2>2, <2>3, <2>4
  <1>. QED
    BY <1>3, <1>4

\* A stack that has got its first coroutine.
LEMMA CallersNewStack ==
  ASSUME Types, Spots, Callers, NEW h \in Threads, stack[h] = <<>>, NEW u \in Tasks,
         stack' = [stack EXCEPT ![h] = <<u>>],
         \A r \in Tasks : place[r] \in OnStack => place'[r] = place[r],
         Up' = Up,
         \A r, q \in Tasks : parent'[r] = q => parent[r] = q
  PROVE  Callers'
  <1>1. /\ \A k \in Threads : k # h => stack'[k] = stack[k]
        /\ Len(stack'[h]) = 1
    BY NewStack
  <1>2. ASSUME NEW k \in Threads, NEW i \in 1..(Len(stack'[k]) - 1)
        PROVE  /\ i \in 1..(Len(stack[k]) - 1) /\ stack'[k][i] = stack[k][i]
               /\ stack'[k][i + 1] = stack[k][i + 1]
               /\ place'[stack[k][i]] = place[stack[k][i]]
    <2>1. k # h /\ stack'[k] = stack[k] /\ Len(stack[k]) \in Nat
      BY <1>1, StackOps DEF Types
    <2>2. i \in 1..Len(stack[k])
      BY <2>1
    <2>3. place[stack[k][i]] \in OnStack /\ stack[k][i] \in Tasks
      BY <2>2, StackOfTasks DEF Spots
    <2>. QED
      BY <2>1, <2>2, <2>3
  <1>3. Lower
    BY <1>2 DEF Lower
  <1>. QED
    BY <1>3, CallersPop

\* Another top u: everybody else stays.  The family of u has in it what the
\* family of t had, but for t.
LEMMA CallersReplace ==
  ASSUME Types, Spots, Callers, NEW h \in Threads, NEW t, Runs(h, t), NEW u \in Tasks,
         stack' = [stack EXCEPT ![h] = Append(Front(@), u)],
         \A r \in Tasks : r # t /\ place[r] \in OnStack => place'[r] = place[r],
         \A r, q \in Tasks : place[q] = "syncing" /\ parent'[r] = q
            => parent[r] = q /\ (r \in Family(Up, t) => r \in Family(Up', u)),
         \A k \in Threads : \A i \in 1..Len(stack[k]) : stack[k][i] # t =>
            Family(Up, stack[k][i]) \subseteq Family(Up', stack[k][i])
  PROVE  Callers'
  <1>. SUFFICES ASSUME NEW k \in Threads, NEW i \in 1..(Len(stack'[k]) - 1)
                PROVE  /\ place'[stack'[k][i]] \in {"syncing", "waking"}
                       /\ place'[stack'[k][i]] = "syncing" =>
                            \A r \in Tasks : parent'[r] = stack'[k][i]
                                             => r \in Family(Up', stack'[k][i + 1])
    BY DEF Callers
  <1>1. /\ k # h => stack'[k] = stack[k]
        /\ Len(stack'[h]) = Len(stack[h])
        /\ stack'[h][Len(stack[h])] = u
        /\ \A j \in 1..(Len(stack[h]) - 1) : stack'[h][j] = stack[h][j]
    BY Running, ReplaceTop
  <1>2. /\ Len(stack[k]) \in Nat /\ Len(stack[h]) \in 1..Len(stack[h])
        /\ stack[h][Len(stack[h])] = t /\ Len(stack[h]) \in Nat /\ t \in Tasks
    BY Running, StackOps DEF Types
  <1>3. /\ i \in 1..(Len(stack[k]) - 1) /\ i \in 1..Len(stack[k]) /\ i + 1 \in 1..Len(stack[k])
        /\ stack'[k][i] = stack[k][i]
        /\ ~(k = h /\ i = Len(stack[h]))
    BY <1>1, <1>2
  <1>4. stack[k][i] \in Tasks /\ stack[k][i] # t /\ place[stack[k][i]] \in OnStack
    BY <1>3, OtherThanTop
  <1>5. /\ place[stack[k][i]] \in {"syncing", "waking"}
        /\ place[stack[k][i]] = "syncing" =>
             \A r \in Tasks : parent[r] = stack[k][i] => r \in Family(Up, stack[k][i + 1])
    BY <1>3 DEF Callers
  <1>6. place'[stack'[k][i]] = place[stack[k][i]]
    BY <1>3, <1>4
  <1>7. ASSUME place[stack[k][i]] = "syncing", NEW r \in Tasks, parent'[r] = stack[k][i]
        PROVE  r \in Family(Up', stack'[k][i + 1])
    <2>1. parent[r] = stack[k][i] /\ (r \in Family(Up, t) => r \in Family(Up', u))
      BY <1>4, <1>7
    <2>2. r \in Family(Up, stack[k][i + 1])
      BY <1>5, <1>7, <2>1
    <2>3. CASE k = h /\ i + 1 = Len(stack[h])
      BY <1>1, <1>2, <2>1, <2>2, <2>3
    <2>4. CASE ~(k = h /\ i + 1 = Len(stack[h]))
      <3>1. stack[k][i + 1] # t
        BY <1>3, <2>4, OtherThanTop
      <3>2. stack'[k][i + 1] = stack[k][i + 1]
        <4>1. k = h => i + 1 \in 1..(Len(stack[h]) - 1)
          BY <1>2, <1>3, <2>4
        <4>. QED
          BY <1>1, <4>1
      <3>. QED
        BY <1>3, <2>2, <3>1, <3>2
    <2>. QED
      BY <2>3, <2>4
  <1>. QED
    BY <1>3, <1>5, <1>6, <1>7

-----------------------------------------------------------------------------
(* The actions keep StackInv.                                              *)

LEMMA UpKept ==
  ASSUME \A q \in Tasks : place'[q] = "awaiting" <=> place[q] = "awaiting",
         \A r \in Tasks : \/ parent'[r] = parent[r]
                          \/ /\ parent[r] \in Tasks => place[parent[r]] # "awaiting"
                             /\ parent'[r] \in Tasks => place[parent'[r]] # "awaiting"
  PROVE  Up' = Up
  <1>1. \A r \in Tasks : (IF parent'[r] \in Tasks /\ place'[parent'[r]] = "awaiting"
                          THEN parent'[r] ELSE None)
                         = (IF parent[r] \in Tasks /\ place[parent[r]] = "awaiting"
                            THEN parent[r] ELSE None)
    OBVIOUS
  <1>. QED
    BY <1>1 DEF Up

LEMMA NewCoroutine ==
  ASSUME StackInv, NEW u \in Tasks, NEW by \in Comms \cup {None},
         place[u] = "none", parent' = [parent EXCEPT ![u] = by],
         \/ place' = [place EXCEPT ![u] = "queued"] /\ stack' = stack
         \/ /\ place' = [place EXCEPT ![u] = "running"]
            /\ \E h \in Threads : stack[h] = <<>> /\ stack' = [stack EXCEPT ![h] = <<u>>]
  PROVE  Spots' /\ Families' /\ Callers'
  <1>. Types /\ Spots /\ Families /\ Callers
    BY DEF StackInv
  <1>1. \A r \in Tasks \ {u} : place'[r] = place[r] /\ parent'[r] = parent[r]
    BY DEF Types
  <1>2. parent[u] = None /\ parent'[u] = by /\ by \notin Tasks /\ None \notin Tasks
    BY NoneIsNobody DEF Families, Types
  <1>3. place'[u] \in {"queued", "running"} /\ place[u] \notin OnStack
    BY DEF Types, OnStack
  <1>4. Up' = Up
    <2>1. \A q \in Tasks : place'[q] = "awaiting" <=> place[q] = "awaiting"
      BY <1>1, <1>3
    <2>. QED
      BY <1>1, <1>2, <2>1, UpKept
  <1>5. Families'
    BY <1>1, <1>3, FamiliesNew
  <1>6. CASE place' = [place EXCEPT ![u] = "queued"] /\ stack' = stack
    <2>1. place'[u] = "queued"
      BY <1>6 DEF Types
    <2>2. Spots'
      BY <1>1, <1>3, <1>6, <2>1, SpotsKept DEF OnStack
    <2>3. Lower
      <3>1. ASSUME NEW k \in Threads, NEW i \in 1..(Len(stack[k]) - 1)
            PROVE  stack[k][i] \in Tasks \ {u}
        <4>1. i \in 1..Len(stack[k])
          BY StackOps DEF Types
        <4>. QED
          BY <1>3, <4>1, StackOfTasks DEF Spots
      <3>. QED
        BY <1>1, <1>6, <3>1 DEF Lower
    <2>4. \A r, q \in Tasks : parent'[r] = q => parent[r] = q
      BY <1>1, <1>2
    <2>5. Callers'
      BY <1>4, <2>3, <2>4, CallersPop
    <2>. QED
      BY <1>5, <2>2, <2>5
  <1>7. CASE /\ place' = [place EXCEPT ![u] = "running"]
             /\ \E h \in Threads : stack[h] = <<>> /\ stack' = [stack EXCEPT ![h] = <<u>>]
    <2>1. PICK h \in Threads : stack[h] = <<>> /\ stack' = [stack EXCEPT ![h] = <<u>>]
      BY <1>7
    <2>2. place'[u] = "running"
      BY <1>7 DEF Types
    <2>3. Spots'
      <3>1. place'[u] \in OnStack
        BY <2>2 DEF OnStack
      <3>. QED
        BY <1>1, <1>3, <2>1, <3>1, SpotsPush
    <2>4. \A r \in Tasks : place[r] \in OnStack => place'[r] = place[r]
      BY <1>1, <1>3
    <2>5. \A r, q \in Tasks : parent'[r] = q => parent[r] = q
      BY <1>1, <1>2
    <2>6. Callers'
      BY <1>4, <2>1, <2>4, <2>5, CallersNewStack
    <2>. QED
      BY <1>5, <2>3, <2>6
  <1>. QED
    BY <1>6, <1>7

\* The running coroutine t leaves its stack, and is put at place `to`; p, who
\* waits for it in a Sync(), goes on.
LEMMA LeavesStack ==
  ASSUME StackInv, NEW h \in Threads, NEW t, Runs(h, t),
         stack' = [stack EXCEPT ![h] = Front(@)],
         NEW to \in {"queued", "parked", "none"},
         \/ /\ to # "none" /\ parent' = parent
            /\ place' = LeftBy(h, [place EXCEPT ![t] = to])
         \/ /\ to = "none" /\ parent' = [parent EXCEPT ![t] = None] /\ parent[t] \notin Tasks
            /\ place' = LeftBy(h, [place EXCEPT ![t] = to])
         \/ /\ to = "none" /\ parent' = [parent EXCEPT ![t] = None] /\ parent[t] \in Tasks
            /\ place[parent[t]] = "syncing"
            /\ place' = [LeftBy(h, [place EXCEPT ![t] = to]) EXCEPT ![parent[t]] = "running"]
  PROVE  Spots' /\ Families' /\ Callers' /\ place' \in [Tasks -> Places]
  <1>. DEFINE p == parent[t]
  <1>1. /\ Types /\ Spots /\ Families /\ Callers
        /\ t \in Tasks /\ place[t] = "running" /\ None \notin Tasks
        /\ stack[h][Len(stack[h])] = t /\ Len(stack[h]) \in 1..Len(stack[h]) /\ Len(stack[h]) \in Nat
    BY Running, NoneIsNobody DEF StackInv
  <1>2a. [place EXCEPT ![t] = to] \in [Tasks -> Places]
    BY <1>1 DEF Types, Places
  <1>2b. PICK places \in [Tasks -> Places] : places = [place EXCEPT ![t] = to]
    BY <1>2a
  <1>2. /\ places[t] = to
        /\ \/ place' = LeftBy(h, places)
           \/ /\ to = "none" /\ p \in Tasks /\ place[p] = "syncing"
              /\ place' = [LeftBy(h, places) EXCEPT ![p] = "running"]
        /\ to = "none" /\ p \in Tasks => place' = [LeftBy(h, places) EXCEPT ![p] = "running"]
    BY <1>1, <1>2b DEF Types
  <1>3. \A r \in Tasks : r # t => places[r] = place[r]
    BY <1>1, <1>2b DEF Types
  <1>4. /\ LeftBy(h, places) \in [Tasks -> Places]
        /\ \A r \in Tasks : \/ LeftBy(h, places)[r] = places[r]
                            \/ places[r] = "waking" /\ LeftBy(h, places)[r] = "running"
    BY <1>1, Left
  <1>5. place' \in [Tasks -> Places]
    BY <1>2, <1>4 DEF Places
  <1>6. \A r \in Tasks :
          \/ place'[r] = LeftBy(h, places)[r]
          \/ r = p /\ p \in Tasks /\ place[p] = "syncing" /\ to = "none" /\ place'[p] = "running"
    BY <1>2, <1>4
  <1>7. p \in Tasks => p # t
    BY <1>1 DEF Families
  <1>8. place'[t] = to /\ to \notin OnStack /\ to \notin {"awaiting", "syncing"}
    BY <1>2, <1>4, <1>6, <1>7, <1>1 DEF OnStack
  <1>9. ASSUME NEW r \in Tasks \ {t}
        PROVE  /\ place'[r] \in OnStack <=> place[r] \in OnStack
               /\ place'[r] = "awaiting" <=> place[r] = "awaiting"
               /\ place'[r] = "none" <=> place[r] = "none"
               /\ r # p \/ to # "none" => (place'[r] = "syncing" <=> place[r] = "syncing")
    <2>1. places[r] = place[r]
      BY <1>3
    <2>2. CASE place'[r] = LeftBy(h, places)[r]
      BY <1>4, <2>1, <2>2 DEF OnStack
    <2>3. CASE r = p /\ place[p] = "syncing" /\ to = "none" /\ place'[p] = "running"
      BY <2>3 DEF OnStack
    <2>. QED
      BY <1>6, <2>2, <2>3
  <1>10. Spots'
    BY <1>1, <1>8, <1>9, SpotsPop
  <1>11. Families'
    <2>1. CASE to # "none"
      <3>1. parent' = parent
        BY <2>1
      <3>2. \A r \in Tasks : /\ place'[r] = "none" => place[r] = "none"
                             /\ place'[r] \in {"awaiting", "syncing"} <=> place[r] \in {"awaiting", "syncing"}
        BY <1>1, <1>8, <1>9, <2>1
      <3>. QED
        BY <1>1, <3>1, <3>2, FamiliesKept
    <2>2. CASE to = "none"
      <3>1. parent' = [parent EXCEPT ![t] = None] /\ place'[t] = "none"
        BY <1>8, <2>2
      <3>2. p \in Tasks => place'[p] = "running"
        BY <1>2, <1>4, <2>2
      <3>3. /\ Types /\ Families /\ t \in Tasks /\ place[t] = "running"
            /\ parent' = [parent EXCEPT ![t] = None] /\ place'[t] = "none"
            /\ parent[t] \in Tasks => place'[parent[t]] = "running"
        BY <1>1, <3>1, <3>2
      <3>4. \A r \in Tasks \ {t, parent[t]} :
               /\ place'[r] = "none" => place[r] = "none"
               /\ place'[r] \in {"awaiting", "syncing"} <=> place[r] \in {"awaiting", "syncing"}
        BY <1>9
      <3>. QED
        BY <3>3, <3>4, FamiliesEnd
    <2>. QED
      BY <2>1, <2>2
  <1>12. Up' = Up
    <2>1. \A q \in Tasks : place'[q] = "awaiting" <=> place[q] = "awaiting"
      BY <1>1, <1>8, <1>9
    <2>2. \A r \in Tasks : \/ parent'[r] = parent[r]
                           \/ r = t /\ parent'[t] = None /\ (p \in Tasks => place[p] # "awaiting")
      BY <1>1 DEF Types
    <2>. QED
      BY <1>1, <2>1, <2>2, UpKept
  <1>13. Callers'
    <2>1. \A k \in Threads : \A i \in 1..(Len(stack'[k]) - 1) : to # "none" \/ p \notin Tasks \/ stack[k][i] # p
      <3>1. SUFFICES ASSUME to = "none", p \in Tasks, place[p] = "syncing",
                            NEW k \in Threads, NEW i \in 1..(Len(stack'[k]) - 1), stack[k][i] = p
                     PROVE  FALSE
        OBVIOUS
      <3>2. /\ i \in 1..(Len(stack[k]) - 1) /\ i + 1 \in 1..Len(stack[k])
            /\ k = h => i + 1 # Len(stack[h])
        <4>1. /\ k # h => stack'[k] = stack[k]
              /\ Len(stack'[h]) = Len(stack[h]) - 1
          BY <1>1, Running, PopStack
        <4>2. Len(stack[k]) \in Nat
          BY <1>1, StackOps DEF Types
        <4>. QED
          BY <1>1, <4>1, <4>2
      <3>3. t \in Family(Up, stack[k][i + 1])
        BY <1>1, <3>1, <3>2 DEF Callers
      <3>4. stack[k][i + 1] = t
        BY <1>1, <3>2, <3>3, StackOfTasks, FamilyAwaits
      <3>. QED
        BY <1>1, <3>2, <3>4 DEF Spots
    <2>3. Lower
      <3>. SUFFICES ASSUME NEW k \in Threads, NEW i \in 1..(Len(stack'[k]) - 1)
                    PROVE  /\ i \in 1..(Len(stack[k]) - 1) /\ stack'[k][i] = stack[k][i]
                           /\ stack'[k][i + 1] = stack[k][i + 1]
                           /\ place'[stack[k][i]] = place[stack[k][i]]
        BY DEF Lower
      <3>1. /\ k # h => stack'[k] = stack[k]
            /\ Len(stack'[h]) = Len(stack[h]) - 1
            /\ \A j \in 1..Len(stack'[h]) : j \in 1..(Len(stack[h]) - 1) /\ stack'[h][j] = stack[h][j]
        BY <1>1, Running, PopStack
      <3>2. Len(stack[k]) \in Nat
        BY <1>1, StackOps DEF Types
      <3>3. /\ i \in 1..(Len(stack[k]) - 1) /\ stack'[k][i] = stack[k][i]
            /\ stack'[k][i + 1] = stack[k][i + 1]
            /\ i \in 1..Len(stack[k])
            /\ k = h => i # Len(stack[h]) - 1 /\ i # Len(stack[h])
        <4>1. CASE k # h
          BY <1>1, <3>1, <3>2, <4>1
        <4>2. CASE k = h
          <5>1. i \in 1..Len(stack'[h]) /\ i + 1 \in 1..Len(stack'[h])
            BY <1>1, <3>1, <3>2, <4>2
          <5>2. stack'[h][i] = stack[h][i] /\ stack'[h][i + 1] = stack[h][i + 1]
            BY <3>1, <5>1
          <5>. QED
            BY <1>1, <3>1, <3>2, <4>2, <5>1, <5>2
        <4>. QED
          BY <4>1, <4>2
      <3>4. stack[k][i] \in Tasks /\ stack[k][i] # t /\ place[stack[k][i]] \in OnStack
        <4>1. stack[k][i] \in Tasks
          BY <1>1, <3>3, StackOfTasks
        <4>2. place[stack[k][i]] \in OnStack
          BY <1>1, <3>3 DEF Spots
        <4>3. stack[k][i] # t
          BY <1>1, <3>3, OtherThanTop
        <4>. QED
          BY <4>1, <4>2, <4>3
      <3>5. LeftBy(h, places)[stack[k][i]] = places[stack[k][i]]
        <4>1. ASSUME Len(stack[h]) - 1 \in 1..Len(stack[h]), stack[h][Len(stack[h]) - 1] = stack[k][i]
              PROVE  FALSE
          BY <1>1, <3>3, <4>1 DEF Spots
        <4>. QED
          BY <1>1, <3>4, <4>1, Left
      <3>. QED
        BY <1>3, <1>6, <2>1, <3>3, <3>4, <3>5
    <2>5. \A r, u \in Tasks : parent'[r] = u => parent[r] = u
      BY <1>1 DEF Types
    <2>. QED
      BY <1>1, <1>12, <2>3, <2>5, CallersPop
  <1>. QED
    BY <1>5, <1>10, <1>11, <1>13

\* Types.
LEMMA TypesNext ==
  ASSUME Types, Next, place' \in [Tasks -> Places], stack' \in [Threads -> Seq(Tasks)]
  PROVE  Types'
  <1>. /\ None \in Contexts \cup {None} /\ NoCtx \in Contexts
       /\ \A m \in Modules \cup {None}, e \in Executors \cup {None} : Ctx(m, e) \in Contexts
       /\ \A c \in Contexts : c.exe \in Executors \cup {None} /\ c.ctx \in Modules \cup {None}
    BY DEF Contexts, NoCtx, Ctx
  <1>1. ASSUME NEW t \in Tasks, NEW c \in Contexts, NEW b \in Contexts,
               NEW by \in Tasks \cup Comms \cup {None}, NEW served \in Contexts \cup {None},
               Create(t, c, b, by, served)
        PROVE  /\ own' \in [Tasks -> Contexts] /\ home' \in [Tasks -> Contexts]
               /\ parent' \in [Tasks -> Tasks \cup Comms \cup {None}]
               /\ stale' \in [Tasks -> Contexts \cup {None}]
    BY <1>1 DEF Types, Create
  <1>2. ASSUME NEW t \in Tasks, Forget(t)
        PROVE  /\ own' \in [Tasks -> Contexts] /\ home' \in [Tasks -> Contexts]
               /\ parent' \in [Tasks -> Tasks \cup Comms \cup {None}]
               /\ stale' \in [Tasks -> Contexts \cup {None}]
               /\ at' \in [Tasks -> Executors \cup {None}]
    BY <1>2 DEF Types, Forget
  <1>3. ASSUME NEW h \in Comms, Callback(h)
        PROVE  Types'
    <2>. PICK t \in Tasks, m \in Modules :
           \/ DeliverInline(h, t, m) \/ ServeInline(h, t, m)
           \/ \E e \in Executors : Deliver(h, t, m, e) \/ Serve(h, t, m, e)
      BY <1>3 DEF Callback
    <2>0. h \in Threads /\ g[h] \in Contexts /\ Ctx(m, None) \in Contexts
      BY DEF Threads, Types
    <2>1. CASE DeliverInline(h, t, m)
      <3>1. Create(t, Ctx(m, None), Ctx(m, None), h, None)
        BY <2>1 DEF DeliverInline
      <3>. QED
        BY <1>1, <2>0, <2>1, <3>1 DEF DeliverInline, Types
    <2>2. CASE ServeInline(h, t, m)
      <3>1. Create(t, Ctx(m, None), Ctx(m, None), None, g[h])
        BY <2>2 DEF ServeInline
      <3>. QED
        BY <1>1, <2>0, <2>2, <3>1 DEF ServeInline, Types
    <2>3. ASSUME NEW e \in Executors, Deliver(h, t, m, e) PROVE Types'
      <3>1. Create(t, Ctx(m, e), Ctx(m, e), None, None) /\ Ctx(m, e) \in Contexts
        BY <2>3 DEF Deliver
      <3>. QED
        BY <1>1, <2>0, <2>3, <3>1 DEF Deliver, Types
    <2>4. ASSUME NEW e \in Executors, Serve(h, t, m, e) PROVE Types'
      <3>1. Create(t, Ctx(m, e), Ctx(m, e), None, g[h]) /\ Ctx(m, e) \in Contexts
        BY <2>4 DEF Serve
      <3>. QED
        BY <1>1, <2>0, <2>4, <3>1 DEF Serve, Types
    <2>. QED
      BY <2>1, <2>2, <2>3, <2>4
  <1>4. ASSUME NEW h \in Threads, UserCode(h)
        PROVE  Types'
    <2>. PICK t \in Tasks :
           \/ Yield(h, t) \/ Sleep(h, t) \/ Park(h, t)
           \/ \E u \in Tasks \ {t} : Await(h, t, u) \/ Sync(h, t, u) \/ Wake(h, t, u)
           \/ \E u \in Tasks \ {t}, e \in Executors : Post(h, t, u, e)
      BY <1>4 DEF UserCode
    <2>0. g[h] \in Contexts /\ home[t] \in Contexts /\ stale[t] \in Contexts \cup {None}
      BY DEF Types
    <2>1. CASE Yield(h, t)
      BY <2>0, <2>1 DEF Yield, Reschedule, Types
    <2>2. CASE Sleep(h, t)
      BY <2>0, <2>2 DEF Sleep, Reschedule, Types
    <2>3. CASE Park(h, t)
      BY <2>3 DEF Park, Types
    <2>4. ASSUME NEW u \in Tasks \ {t}, Await(h, t, u) PROVE Types'
      <3>1. Create(u, g[h], home[t], t, stale[t])
        BY <2>4 DEF Await
      <3>. QED
        BY <1>1, <2>0, <2>4, <3>1 DEF Await, Types
    <2>5. ASSUME NEW u \in Tasks \ {t}, Sync(h, t, u) PROVE Types'
      <3>1. Create(u, g[h], home[t], t, stale[t])
        BY <2>5 DEF Sync
      <3>. QED
        BY <1>1, <2>0, <2>5, <3>1 DEF Sync, Types
    <2>6. ASSUME NEW u \in Tasks \ {t}, Wake(h, t, u) PROVE Types'
      BY <2>6 DEF Wake, Types
    <2>7. ASSUME NEW u \in Tasks \ {t}, NEW e \in Executors, Post(h, t, u, e) PROVE Types'
      <3>1. Create(u, Ctx(g[h].ctx, e), Ctx(home[t].ctx, e), None, None)
        BY <2>7 DEF Post
      <3>2. Ctx(g[h].ctx, e) \in Contexts /\ Ctx(home[t].ctx, e) \in Contexts
        BY <2>0
      <3>. QED
        BY <1>1, <2>7, <3>1, <3>2 DEF Post, Types
    <2>. QED
      BY <2>1, <2>2, <2>3, <2>4, <2>5, <2>6, <2>7
  <1>5. ASSUME NEW h \in Threads, Finish(h)
        PROVE  Types'
    <2>. PICK t \in Tasks : End(h, t) \/ EndInline(h, t) \/ EndAwaited(h, t) \/ EndSynced(h, t)
      BY <1>5 DEF Finish
    <2>0. Forget(t)
      BY DEF End, EndInline, EndAwaited, EndSynced
    <2>1. g' \in [Threads -> Contexts]
      <3>1. CASE End(h, t)
        <4>1. stale[t] \in Contexts \cup {None}
          BY DEF Types
        <4>. QED
          BY <3>1, <4>1 DEF End, Types
      <3>2. CASE EndInline(h, t)
        BY <3>2 DEF EndInline, Types
      <3>3. CASE EndAwaited(h, t)
        BY <3>3 DEF EndAwaited, Types
      <3>4. CASE EndSynced(h, t)
        BY <3>4 DEF EndSynced, Types
      <3>. QED
        BY <3>1, <3>2, <3>3, <3>4
    <2>2. synchronized' \in [Threads -> BOOLEAN]
      BY DEF End, EndInline, EndAwaited, EndSynced, Types
    <2>. QED
      BY <1>2, <2>0, <2>1, <2>2 DEF Types
  <1>6. ASSUME NEW x \in Workers, NEW t \in Tasks, Run(x, t)
        PROVE  Types'
    BY <1>6 DEF Run, Types
  <1>. QED
    BY <1>3, <1>4, <1>5, <1>6 DEF Next

\* The running coroutine t hands its spot over to u.
LEMMA AwaitKeeps ==
  ASSUME StackInv, NEW h \in Threads, NEW t \in Tasks, NEW u \in Tasks \ {t}, Await(h, t, u)
  PROVE  Spots' /\ Families' /\ Callers' /\ place' \in [Tasks -> Places]
         /\ stack' \in [Threads -> Seq(Tasks)]
  <1>1. /\ Types /\ Spots /\ Families /\ Callers /\ None \notin Tasks
        /\ Runs(h, t) /\ place[t] = "running" /\ stack[h] # <<>>
        /\ place[u] = "none" /\ parent' = [parent EXCEPT ![u] = t]
        /\ stack' = [stack EXCEPT ![h] = Append(Front(@), u)]
        /\ place' = [place EXCEPT ![t] = "awaiting", ![u] = "running"]
    BY NoneIsNobody DEF StackInv, Await, Runs, Create
  <1>2. /\ place'[t] = "awaiting" /\ place'[u] = "running"
        /\ \A r \in Tasks \ {t, u} : place'[r] = place[r]
        /\ \A r \in Tasks : parent'[r] = IF r = u THEN t ELSE parent[r]
        /\ place' \in [Tasks -> Places]
    BY <1>1 DEF Types, Places
  <1>3. stack' \in [Threads -> Seq(Tasks)]
    BY <1>1, ReplaceTop
  <1>4. Spots'
    <2>1. place[u] \notin OnStack /\ place'[u] \in OnStack /\ place'[t] \notin OnStack
      BY <1>1, <1>2 DEF OnStack
    <2>. QED
      BY <1>1, <1>2, <2>1, SpotsReplace
  <1>5. Families'
    BY <1>1, <1>2, FamiliesChild
  <1>6. \A r \in Tasks : parent[r] # t /\ parent[r] # u
    BY <1>1 DEF Families
  <1>7. parent[u] = None
    BY <1>1 DEF Families
  <1>8. /\ Up \in [Tasks -> Tasks \cup {None}] /\ Up' \in [Tasks -> Tasks \cup {None}]
        /\ Up'[u] = t /\ \A r \in Tasks \ {u} : Up'[r] = Up[r]
    <2>1. \A r \in Tasks \ {u} : parent[r] \in Tasks => parent[r] \in Tasks \ {t, u}
      BY <1>6
    <2>2. \A r \in Tasks : Up'[r] = IF r = u THEN t ELSE Up[r]
      BY <1>2, <2>1 DEF Up
    <2>3. Up \in [Tasks -> Tasks \cup {None}]
      BY <1>1, UpIsPartial
    <2>4. Up' = [r \in Tasks |-> Up'[r]]
      BY DEF Up
    <2>. QED
      BY <2>2, <2>3, <2>4
  <1>9. ASSUME NEW r \in Tasks, place[r] # "none"
        PROVE  Family(Up, r) \subseteq Family(Up', r)
    <2>1. ASSUME NEW q \in Family(Up, r) PROVE q # u /\ q \in Tasks
      BY <1>1, <1>9, <2>1, FamilyAwaits
    <2>. QED
      BY <1>8, <2>1, FamilyKept
  <1>10. Family(Up, t) \subseteq Family(Up', u)
    <2>1. Family(Up', u) \in SUBSET Tasks /\ u \in Family(Up', u) /\ Closed(Up', Family(Up', u))
      BY <1>8, FamilyIsClosed
    <2>2. t \in Family(Up', u)
      BY <1>1, <1>8, <2>1 DEF Closed
    <2>3. Family(Up', t) \subseteq Family(Up', u)
      BY <1>8, <2>1, <2>2, FamilyIsLeast
    <2>. QED
      BY <1>1, <1>9, <2>3
  <1>11. Callers'
    <2>1. \A r \in Tasks : r # t /\ place[r] \in OnStack => place'[r] = place[r]
      BY <1>1, <1>2 DEF OnStack
    <2>2. \A r, q \in Tasks : place[q] = "syncing" /\ parent'[r] = q
            => parent[r] = q /\ (r \in Family(Up, t) => r \in Family(Up', u))
      BY <1>1, <1>2, <1>10
    <2>3. ASSUME NEW k \in Threads, NEW i \in 1..Len(stack[k])
          PROVE  Family(Up, stack[k][i]) \subseteq Family(Up', stack[k][i])
      <3>1. stack[k][i] \in Tasks /\ place[stack[k][i]] # "none"
        BY <1>1, StackOfTasks DEF Spots, OnStack
      <3>. QED
        BY <1>9, <3>1
    <2>4. /\ Types /\ Spots /\ Callers /\ Runs(h, t)
          /\ stack' = [stack EXCEPT ![h] = Append(Front(@), u)]
      BY <1>1
    <2>. QED
      BY <2>1, <2>2, <2>3, <2>4, CallersReplace, ZenonT(60)
  <1>. QED
    BY <1>2, <1>3, <1>4, <1>5, <1>11

LEMMA EndAwaitedKeeps ==
  ASSUME StackInv, NEW h \in Threads, NEW t \in Tasks, EndAwaited(h, t)
  PROVE  Spots' /\ Families' /\ Callers' /\ place' \in [Tasks -> Places]
         /\ stack' \in [Threads -> Seq(Tasks)]
  <1>. DEFINE p == parent[t]
  <1>1. /\ Types /\ Spots /\ Families /\ Callers /\ None \notin Tasks
        /\ Runs(h, t) /\ place[t] = "running" /\ stack[h] # <<>>
        /\ p \in Tasks \ {t} /\ place[p] = "awaiting" /\ parent' = [parent EXCEPT ![t] = None]
        /\ stack' = [stack EXCEPT ![h] = Append(Front(@), p)]
        /\ place' = [place EXCEPT ![t] = "none", ![p] = "running"]
    BY NoneIsNobody DEF StackInv, EndAwaited, Runs, Forget
  <1>2. /\ place'[t] = "none" /\ place'[p] = "running"
        /\ \A r \in Tasks \ {t, p} : place'[r] = place[r]
        /\ \A r \in Tasks : parent'[r] = IF r = t THEN None ELSE parent[r]
        /\ place' \in [Tasks -> Places]
    BY <1>1 DEF Types, Places
  <1>3. stack' \in [Threads -> Seq(Tasks)]
    BY <1>1, ReplaceTop
  <1>4. Spots'
    <2>1. place[p] \notin OnStack /\ place'[p] \in OnStack /\ place'[t] \notin OnStack
      BY <1>1, <1>2 DEF OnStack
    <2>. QED
      BY <1>1, <1>2, <2>1, SpotsReplace
  <1>5. Families'
    BY <1>1, <1>2, FamiliesEnd
  <1>6. \A r \in Tasks : parent[r] # t /\ (parent[r] = p => r = t)
    BY <1>1 DEF Families
  <1>8. /\ Up \in [Tasks -> Tasks \cup {None}] /\ Up' \in [Tasks -> Tasks \cup {None}]
        /\ Up[t] = p /\ \A r \in Tasks \ {t} : Up'[r] = Up[r]
    <2>1. \A r \in Tasks \ {t} : parent[r] \in Tasks => parent[r] \in Tasks \ {t, p}
      BY <1>6
    <2>2. \A r \in Tasks : Up'[r] = IF r = t THEN None ELSE Up[r]
      BY <1>1, <1>2, <2>1 DEF Up
    <2>3. Up \in [Tasks -> Tasks \cup {None}] /\ Up[t] = p
      BY <1>1, UpIsPartial DEF Up
    <2>4. Up' = [r \in Tasks |-> Up'[r]]
      BY DEF Up
    <2>. QED
      BY <2>2, <2>3, <2>4
  <1>9. ASSUME NEW r \in Tasks \ {t}
        PROVE  Family(Up, r) \subseteq Family(Up', r)
    <2>1. ASSUME NEW q \in Family(Up, r) PROVE q # t /\ q \in Tasks
      BY <1>1, <1>9, <2>1, FamilyAwaits
    <2>. QED
      BY <1>8, <2>1, FamilyKept
  <1>10. Family(Up, t) \subseteq {t} \cup Family(Up', p)
    <2>1. Family(Up, p) \in SUBSET Tasks /\ p \in Family(Up, p) /\ Closed(Up, Family(Up, p))
      BY <1>1, <1>8, FamilyIsClosed
    <2>2. Closed(Up, {t} \cup Family(Up, p))
      BY <1>8, <2>1 DEF Closed
    <2>3. Family(Up, t) \subseteq {t} \cup Family(Up, p)
      BY <2>1, <2>2, FamilyIsLeast
    <2>. QED
      BY <1>1, <1>9, <2>3
  <1>11. Callers'
    <2>1. \A r \in Tasks : r # t /\ place[r] \in OnStack => place'[r] = place[r]
      BY <1>1, <1>2 DEF OnStack
    <2>2. \A r, q \in Tasks : place[q] = "syncing" /\ parent'[r] = q
            => parent[r] = q /\ (r \in Family(Up, t) => r \in Family(Up', p))
      BY <1>1, <1>2, <1>10
    <2>3. ASSUME NEW k \in Threads, NEW i \in 1..Len(stack[k]), stack[k][i] # t
          PROVE  Family(Up, stack[k][i]) \subseteq Family(Up', stack[k][i])
      BY <1>1, <1>9, <2>3, StackOfTasks
    <2>4. /\ Types /\ Spots /\ Callers /\ Runs(h, t)
          /\ stack' = [stack EXCEPT ![h] = Append(Front(@), p)] /\ p \in Tasks
      BY <1>1
    <2>. HIDE DEF p
    <2>. QED
      BY <2>1, <2>2, <2>3, <2>4, CallersReplace, ZenonT(60)
  <1>. QED
    BY <1>2, <1>3, <1>4, <1>5, <1>11

\* A new top.
LEMMA SyncKeeps ==
  ASSUME StackInv, NEW h \in Threads, NEW t \in Tasks, NEW u \in Tasks \ {t}, Sync(h, t, u)
  PROVE  Spots' /\ Families' /\ Callers' /\ place' \in [Tasks -> Places]
         /\ stack' \in [Threads -> Seq(Tasks)]
  <1>1. /\ Types /\ Spots /\ Families /\ Callers /\ None \notin Tasks
        /\ Runs(h, t) /\ place[t] = "running"
        /\ place[u] = "none" /\ parent' = [parent EXCEPT ![u] = t]
        /\ stack' = [stack EXCEPT ![h] = Append(@, u)]
        /\ place' = [place EXCEPT ![t] = "syncing", ![u] = "running"]
    BY NoneIsNobody DEF StackInv, Sync, Runs, Create
  <1>2. /\ place'[t] = "syncing" /\ place'[u] = "running"
        /\ \A r \in Tasks \ {t, u} : place'[r] = place[r]
        /\ \A r \in Tasks : parent'[r] = IF r = u THEN t ELSE parent[r]
        /\ place' \in [Tasks -> Places]
    BY <1>1 DEF Types, Places
  <1>3. stack' \in [Threads -> Seq(Tasks)]
    BY <1>1, PushStack
  <1>4. Spots'
    <2>1. /\ place[u] \notin OnStack /\ place'[u] \in OnStack
          /\ \A r \in Tasks \ {u} : place'[r] \in OnStack <=> place[r] \in OnStack
      BY <1>1, <1>2 DEF OnStack
    <2>. QED
      BY <1>1, <2>1, SpotsPush
  <1>5. Families'
    BY <1>1, <1>2, FamiliesChild
  <1>6. (\A r \in Tasks : parent[r] # t) /\ parent[u] = None
    BY <1>1 DEF Families
  <1>7. Up' = Up
    <2>1. \A q \in Tasks : place'[q] = "awaiting" <=> place[q] = "awaiting"
      BY <1>1, <1>2
    <2>. QED
      BY <1>1, <1>2, <1>6, <2>1, UpKept
  <1>8. Callers'
    <2>1. \A r \in Tasks : r # t /\ place[r] \in OnStack => place'[r] = place[r]
      BY <1>1, <1>2 DEF OnStack
    <2>2. OnlyNew(t, u)
      BY <1>2 DEF OnlyNew
    <2>4. Types /\ Spots /\ Callers /\ Runs(h, t) /\ stack' = [stack EXCEPT ![h] = Append(@, u)]
      BY <1>1
    <2>5. place'[t] \in {"syncing", "waking"}
      BY <1>2
    <2>. QED
      BY <1>6, <1>7, <2>1, <2>2, <2>4, <2>5, CallersPush, ZenonT(60)
  <1>. QED
    BY <1>2, <1>3, <1>4, <1>5, <1>8

LEMMA WakeKeeps ==
  ASSUME StackInv, NEW h \in Threads, NEW t \in Tasks, NEW u \in Tasks \ {t}, Wake(h, t, u)
  PROVE  Spots' /\ Families' /\ Callers' /\ place' \in [Tasks -> Places]
         /\ stack' \in [Threads -> Seq(Tasks)]
  <1>1. /\ Types /\ Spots /\ Families /\ Callers
        /\ Runs(h, t) /\ place[t] = "running" /\ place[u] = "parked" /\ parent' = parent
        /\ stack' = [stack EXCEPT ![h] = Append(@, u)]
        /\ place' = [place EXCEPT ![t] = "waking", ![u] = "running"]
    BY DEF StackInv, Wake, Runs
  <1>2. /\ place'[t] = "waking" /\ place'[u] = "running"
        /\ \A r \in Tasks \ {t, u} : place'[r] = place[r]
        /\ place' \in [Tasks -> Places]
    BY <1>1 DEF Types, Places
  <1>3. stack' \in [Threads -> Seq(Tasks)]
    BY <1>1, PushStack
  <1>4. Spots'
    <2>1. /\ place[u] \notin OnStack /\ place'[u] \in OnStack
          /\ \A r \in Tasks \ {u} : place'[r] \in OnStack <=> place[r] \in OnStack
      BY <1>1, <1>2 DEF OnStack
    <2>. QED
      BY <1>1, <2>1, SpotsPush
  <1>5. \A r \in Tasks : /\ place'[r] = "none" <=> place[r] = "none"
                         /\ place'[r] = "awaiting" <=> place[r] = "awaiting"
                         /\ place'[r] = "syncing" <=> place[r] = "syncing"
    BY <1>1, <1>2
  <1>6. Families'
    BY <1>1, <1>5, FamiliesKept
  <1>7. Up' = Up
    BY <1>1, <1>5, UpKept
  <1>8. Callers'
    <2>1. \A r \in Tasks : r # t /\ place[r] \in OnStack => place'[r] = place[r]
      BY <1>1, <1>2 DEF OnStack
    <2>2. (\A r \in Tasks : parent[r] # t) /\ OnlyNew(t, u)
      BY <1>1 DEF Families, OnlyNew
    <2>. QED
      BY <1>1, <1>2, <1>7, <2>1, <2>2, CallersPush
  <1>. QED
    BY <1>2, <1>3, <1>4, <1>6, <1>8

\* A worker takes a coroutine of its queue.
LEMMA RunKeeps ==
  ASSUME StackInv, NEW x \in Workers, NEW t \in Tasks, Run(x, t)
  PROVE  Spots' /\ Families' /\ Callers' /\ place' \in [Tasks -> Places]
         /\ stack' \in [Threads -> Seq(Tasks)]
  <1>1. /\ Types /\ Spots /\ Families /\ Callers /\ x \in Threads
        /\ stack[x] = <<>> /\ place[t] = "queued" /\ parent' = parent
        /\ stack' = [stack EXCEPT ![x] = <<t>>]
        /\ place' = [place EXCEPT ![t] = "running"]
    BY DEF StackInv, Run, Threads
  <1>2. /\ place'[t] = "running"
        /\ \A r \in Tasks \ {t} : place'[r] = place[r]
        /\ place' \in [Tasks -> Places]
    BY <1>1 DEF Types, Places
  <1>3. stack' \in [Threads -> Seq(Tasks)]
    BY <1>1, NewStack
  <1>4. Spots'
    <2>1. /\ place[t] \notin OnStack /\ place'[t] \in OnStack
          /\ \A r \in Tasks \ {t} : place'[r] \in OnStack <=> place[r] \in OnStack
      BY <1>1, <1>2 DEF OnStack
    <2>. QED
      BY <1>1, <2>1, SpotsPush
  <1>5. \A r \in Tasks : /\ place'[r] = "none" <=> place[r] = "none"
                         /\ place'[r] = "awaiting" <=> place[r] = "awaiting"
                         /\ place'[r] = "syncing" <=> place[r] = "syncing"
    BY <1>1, <1>2
  <1>6. Families'
    BY <1>1, <1>5, FamiliesKept
  <1>7. Up' = Up
    BY <1>1, <1>5, UpKept
  <1>8. Callers'
    <2>1. \A r \in Tasks : place[r] \in OnStack => place'[r] = place[r]
      BY <1>1, <1>2 DEF OnStack
    <2>. QED
      BY <1>1, <1>7, <2>1, CallersNewStack
  <1>. QED
    BY <1>2, <1>3, <1>4, <1>6, <1>8

LEMMA StackInvInit == Init => StackInv
  <1>. SUFFICES ASSUME Init PROVE StackInv
    OBVIOUS
  <1>1. Types
    <2>1. NoCtx \in Contexts /\ <<>> \in Seq(Tasks)
      BY DEF NoCtx, Ctx, Contexts
    <2>. QED
      BY <2>1 DEF Init, Types, Places
  <1>2. \A h \in Threads : stack[h] = <<>> /\ Len(stack[h]) = 0
    BY DEF Init
  <1>3. \A t \in Tasks : place[t] = "none" /\ parent[t] = None /\ parent[t] \notin Tasks
    BY NoneIsNobody DEF Init
  <1>4. Spots
    BY <1>2, <1>3 DEF Spots, OnStack
  <1>5. Families
    BY <1>3 DEF Families
  <1>6. Callers
    BY <1>2 DEF Callers
  <1>. QED
    BY <1>1, <1>4, <1>5, <1>6 DEF StackInv

\* What each action does to the stacks.
Kept == /\ Spots' /\ Families' /\ Callers'
        /\ place' \in [Tasks -> Places] /\ stack' \in [Threads -> Seq(Tasks)]

LEMMA CallbackKeeps ==
  ASSUME StackInv, NEW h \in Comms, Callback(h)
  PROVE  Kept
  <1>1. PICK t \in Tasks, m \in Modules :
          \/ DeliverInline(h, t, m) \/ ServeInline(h, t, m)
          \/ \E e \in Executors : Deliver(h, t, m, e) \/ Serve(h, t, m, e)
    BY DEF Callback
  <1>2. PICK by \in Comms \cup {None} :
          /\ place[t] = "none" /\ parent' = [parent EXCEPT ![t] = by]
          /\ \/ place' = [place EXCEPT ![t] = "queued"] /\ stack' = stack
             \/ /\ place' = [place EXCEPT ![t] = "running"]
                /\ stack[h] = <<>> /\ stack' = [stack EXCEPT ![h] = <<t>>]
    <2>1. CASE DeliverInline(h, t, m)
      BY <2>1 DEF DeliverInline, Create, Idle
    <2>2. CASE ServeInline(h, t, m)
      BY <2>2 DEF ServeInline, Create, Idle
    <2>3. ASSUME NEW e \in Executors, Deliver(h, t, m, e) \/ Serve(h, t, m, e)
          PROVE  /\ place[t] = "none" /\ parent' = [parent EXCEPT ![t] = None]
                 /\ place' = [place EXCEPT ![t] = "queued"] /\ stack' = stack
      BY <2>3 DEF Deliver, Serve, Create
    <2>. QED
      BY <1>1, <2>1, <2>2, <2>3
  <1>3. h \in Threads /\ Types
    BY DEF Threads, StackInv
  <1>4. place' \in [Tasks -> Places]
    BY <1>2, <1>3 DEF Types, Places
  <1>5. stack' \in [Threads -> Seq(Tasks)]
    BY <1>2, <1>3, NewStack DEF Types
  <1>6. Spots' /\ Families' /\ Callers'
    <2>1. CASE place' = [place EXCEPT ![t] = "queued"] /\ stack' = stack
      BY <1>2, <2>1, NewCoroutine
    <2>2. CASE /\ place' = [place EXCEPT ![t] = "running"]
               /\ stack[h] = <<>> /\ stack' = [stack EXCEPT ![h] = <<t>>]
      <3>1. \E k \in Threads : stack[k] = <<>> /\ stack' = [stack EXCEPT ![k] = <<t>>]
        BY <1>3, <2>2
      <3>. QED
        BY <1>2, <2>2, <3>1, NewCoroutine
    <2>. QED
      BY <1>2, <2>1, <2>2
  <1>. QED
    BY <1>4, <1>5, <1>6 DEF Kept

LEMMA LeavingKeeps ==
  ASSUME StackInv, NEW h \in Threads, NEW t \in Tasks,
         \/ Yield(h, t) \/ Sleep(h, t) \/ Park(h, t)
         \/ End(h, t) \/ EndInline(h, t) \/ EndSynced(h, t)
  PROVE  Kept
  <1>1. Runs(h, t) /\ stack' = [stack EXCEPT ![h] = Front(@)] /\ stack[h] # <<>> /\ Types
    BY DEF Yield, Sleep, Park, Reschedule, End, EndInline, EndSynced, Runs, StackInv
  <1>2. stack' \in [Threads -> Seq(Tasks)]
    BY <1>1, PopStack
  <1>3. None \notin Tasks /\ \A q \in Comms : q \notin Tasks
    BY NoneIsNobody
  <1>4. Spots' /\ Families' /\ Callers' /\ place' \in [Tasks -> Places]
    <2>1. CASE Yield(h, t) \/ Sleep(h, t)
      <3>1. place' = LeftBy(h, [place EXCEPT ![t] = "queued"]) /\ parent' = parent
        BY <2>1 DEF Yield, Sleep, Reschedule
      <3>. QED
        BY <1>1, <3>1, LeavesStack
    <2>2. CASE Park(h, t)
      <3>1. place' = LeftBy(h, [place EXCEPT ![t] = "parked"]) /\ parent' = parent
        BY <2>2 DEF Park
      <3>. QED
        BY <1>1, <3>1, LeavesStack
    <2>3. CASE End(h, t) \/ EndInline(h, t)
      <3>1. /\ place' = LeftBy(h, [place EXCEPT ![t] = "none"])
            /\ parent' = [parent EXCEPT ![t] = None] /\ parent[t] \notin Tasks
        BY <1>3, <2>3 DEF End, EndInline, Forget
      <3>. QED
        BY <1>1, <3>1, LeavesStack
    <2>4. CASE EndSynced(h, t)
      <3>1. /\ place' = [LeftBy(h, [place EXCEPT ![t] = "none"]) EXCEPT ![parent[t]] = "running"]
            /\ parent' = [parent EXCEPT ![t] = None] /\ parent[t] \in Tasks
            /\ place[parent[t]] = "syncing"
        BY <2>4 DEF EndSynced, Forget
      <3>. QED
        BY <1>1, <3>1, LeavesStack
    <2>. QED
      BY <2>1, <2>2, <2>3, <2>4
  <1>. QED
    BY <1>2, <1>4 DEF Kept

LEMMA StackInvNext == StackInv /\ [Next]_vars => StackInv'
  <1>. SUFFICES ASSUME StackInv, [Next]_vars PROVE StackInv'
    OBVIOUS
  <1>1. CASE Next
    <2>1. ASSUME NEW h \in Comms, Callback(h) PROVE Kept
      BY <2>1, CallbackKeeps
    <2>2. ASSUME NEW h \in Threads, UserCode(h) PROVE Kept
      <3>. PICK t \in Tasks :
             \/ Yield(h, t) \/ Sleep(h, t) \/ Park(h, t)
             \/ \E u \in Tasks \ {t} : Await(h, t, u) \/ Sync(h, t, u) \/ Wake(h, t, u)
             \/ \E u \in Tasks \ {t}, e \in Executors : Post(h, t, u, e)
        BY <2>2 DEF UserCode
      <3>1. CASE Yield(h, t) \/ Sleep(h, t) \/ Park(h, t)
        BY <3>1, LeavingKeeps
      <3>2. ASSUME NEW u \in Tasks \ {t}, Await(h, t, u) \/ Sync(h, t, u) \/ Wake(h, t, u)
            PROVE  Kept
        BY <3>2, AwaitKeeps, SyncKeeps, WakeKeeps DEF Kept
      <3>3. ASSUME NEW u \in Tasks \ {t}, NEW e \in Executors, Post(h, t, u, e) PROVE Kept
        <4>1. /\ place[u] = "none" /\ parent' = [parent EXCEPT ![u] = None]
              /\ place' = [place EXCEPT ![u] = "queued"] /\ stack' = stack
          BY <3>3 DEF Post, Create
        <4>2. place' \in [Tasks -> Places] /\ stack' \in [Threads -> Seq(Tasks)]
          BY <4>1 DEF StackInv, Types, Places
        <4>3. Spots' /\ Families' /\ Callers'
          BY <4>1, NewCoroutine
        <4>. QED
          BY <4>2, <4>3 DEF Kept
      <3>. QED
        BY <3>1, <3>2, <3>3
    <2>3. ASSUME NEW h \in Threads, Finish(h) PROVE Kept
      <3>. PICK t \in Tasks : End(h, t) \/ EndInline(h, t) \/ EndAwaited(h, t) \/ EndSynced(h, t)
        BY <2>3 DEF Finish
      <3>. QED
        BY LeavingKeeps, EndAwaitedKeeps DEF Kept
    <2>4. ASSUME NEW x \in Workers, NEW t \in Tasks, Run(x, t) PROVE Kept
      BY <2>4, RunKeeps DEF Kept
    <2>5. Kept
      BY <1>1, <2>1, <2>2, <2>3, <2>4 DEF Next
    <2>6. Types'
      BY <1>1, <2>5, TypesNext DEF Kept, StackInv
    <2>. QED
      BY <2>5, <2>6 DEF Kept, StackInv
  <1>2. CASE UNCHANGED vars
    <2>1. Types' /\ Spots' /\ Families'
      BY <1>2 DEF StackInv, Types, Spots, Families, vars
    <2>2. Callers'
      <3>1. Up' = Up
        BY <1>2 DEF Up, vars
      <3>. QED
        BY <1>2, <3>1 DEF StackInv, Callers, vars
    <2>. QED
      BY <2>1, <2>2 DEF StackInv
  <1>. QED
    BY <1>1, <1>2

\* How stacks and families fit together, whatever user code does.
THEOREM StackInvariant == Spec => []StackInv
  BY StackInvInit, StackInvNext, PTL DEF Spec

\* Types; and each coroutine is on one stack, once, exactly if it runs or has
\* called something that runs another one in place: a thread never goes on
\* with a coroutine that another thread runs, or that is queued.
THEOREM ContextTypes == Spec => []TypeOK
  <1>1. ASSUME StackInv PROVE TypeOK
    <2>1. /\ Types /\ Spots
          /\ \A h \in Threads : stack[h] \in Seq(Tasks)
      BY <1>1 DEF StackInv, Types
    <2>2. ASSUME NEW h \in Threads
          PROVE  /\ DOMAIN stack[h] = 1..Len(stack[h])
                 /\ \A t : t \in Range(stack[h]) <=> \E i \in 1..Len(stack[h]) : stack[h][i] = t
      <3>1. DOMAIN stack[h] = 1..Len(stack[h])
        BY <2>1
      <3>. QED
        BY <3>1 DEF Range
    <2>3. \A h \in Threads : IsInjective(stack[h])
      BY <2>1, <2>2 DEF Spots, IsInjective
    <2>4. ASSUME NEW t \in Tasks
          PROVE  Cardinality({h \in Threads : t \in Range(stack[h])})
                   = IF place[t] \in {"running", "syncing", "waking"} THEN 1 ELSE 0
      <3>. DEFINE H == {h \in Threads : t \in Range(stack[h])}
      <3>1. CASE place[t] \in OnStack
        <4>1. PICK h \in Threads : \E i \in 1..Len(stack[h]) : stack[h][i] = t
          BY <2>1, <3>1 DEF Spots
        <4>2. \A k \in Threads : \A i \in 1..Len(stack[k]) : stack[k][i] = t => k = h
          BY <2>1, <4>1 DEF Spots
        <4>3. t \in Range(stack[h]) /\ \A k \in Threads : t \in Range(stack[k]) => k = h
          BY <2>2, <4>1, <4>2, ZenonT(60)
        <4>4. H = {h}
          BY <4>3
        <4>. QED
          BY <3>1, <4>4, FS_Singleton DEF OnStack
      <3>2. CASE place[t] \notin OnStack
        <4>1. \A k \in Threads : \A i \in 1..Len(stack[k]) : stack[k][i] # t
          BY <2>1, <3>2 DEF Spots
        <4>2. \A k \in Threads : t \notin Range(stack[k])
          BY <2>2, <4>1
        <4>3. H = {}
          BY <4>2
        <4>. QED
          BY <3>2, <4>3, FS_EmptySet DEF OnStack
      <3>. QED
        BY <3>1, <3>2
    <2>. QED
      BY <2>1, <2>3, <2>4 DEF TypeOK, Types
  <1>. QED
    BY <1>1, StackInvariant, PTL

-----------------------------------------------------------------------------
(* Where things are on the stacks after a step.                            *)

LEMMA AfterPop ==
  ASSUME Types, Spots, NEW h \in Threads, NEW t, Runs(h, t),
         stack' = [stack EXCEPT ![h] = Front(@)]
  PROVE  \A k \in Threads :
           /\ Len(stack'[k]) \in Nat
           /\ \A i \in 1..Len(stack'[k]) :
                /\ i \in 1..Len(stack[k]) /\ stack'[k][i] = stack[k][i]
                /\ stack[k][i] \in Tasks /\ stack[k][i] # t
           /\ \A i \in 1..(Len(stack'[k]) - 1) : i \in 1..(Len(stack[k]) - 1)
  <1>. SUFFICES ASSUME NEW k \in Threads
                PROVE  /\ Len(stack'[k]) \in Nat
                       /\ \A i \in 1..Len(stack'[k]) :
                            /\ i \in 1..Len(stack[k]) /\ stack'[k][i] = stack[k][i]
                            /\ stack[k][i] \in Tasks /\ stack[k][i] # t
                       /\ \A i \in 1..(Len(stack'[k]) - 1) : i \in 1..(Len(stack[k]) - 1)
    OBVIOUS
  <1>1. /\ stack[h][Len(stack[h])] = t /\ Len(stack[h]) \in 1..Len(stack[h])
        /\ Len(stack[h]) \in Nat /\ Len(stack[k]) \in Nat
    BY Running, StackOps DEF Types
  <1>2. /\ k # h => stack'[k] = stack[k]
        /\ Len(stack'[h]) = Len(stack[h]) - 1
        /\ \A i \in 1..Len(stack'[h]) : i \in 1..(Len(stack[h]) - 1) /\ stack'[h][i] = stack[h][i]
    BY Running, PopStack
  <1>3. ASSUME NEW i \in 1..Len(stack'[k])
        PROVE  /\ i \in 1..Len(stack[k]) /\ stack'[k][i] = stack[k][i]
               /\ ~(k = h /\ i = Len(stack[h]))
    BY <1>1, <1>2
  <1>4. ASSUME NEW i \in 1..Len(stack'[k])
        PROVE  stack[k][i] \in Tasks /\ stack[k][i] # t
    <2>1. i \in 1..Len(stack[k]) /\ ~(k = h /\ i = Len(stack[h]))
      BY <1>3
    <2>. QED
      BY <1>1, <2>1, StackOfTasks DEF Spots
  <1>5. Len(stack'[k]) \in Nat /\ \A i \in 1..(Len(stack'[k]) - 1) : i \in 1..(Len(stack[k]) - 1)
    BY <1>1, <1>2
  <1>. QED
    BY <1>3, <1>4, <1>5

\* The spot of t at the top of h has become that of u.
Replaced(h, t, u) ==
  \A k \in Threads :
    /\ Len(stack'[k]) = Len(stack[k]) /\ Len(stack[k]) \in Nat
    /\ \A i \in 1..Len(stack[k]) :
         /\ stack[k][i] \in Tasks
         /\ k = h /\ i = Len(stack[h]) => stack'[k][i] = u /\ stack[k][i] = t
         /\ k # h \/ i # Len(stack[h]) => stack'[k][i] = stack[k][i] /\ stack[k][i] # t

LEMMA AfterReplace ==
  ASSUME Types, Spots, NEW h \in Threads, NEW t, Runs(h, t), NEW u \in Tasks,
         stack' = [stack EXCEPT ![h] = Append(Front(@), u)]
  PROVE  Replaced(h, t, u)
  <1>. SUFFICES ASSUME NEW k \in Threads
                PROVE  /\ Len(stack'[k]) = Len(stack[k]) /\ Len(stack[k]) \in Nat
                       /\ \A i \in 1..Len(stack[k]) :
                            /\ stack[k][i] \in Tasks
                            /\ k = h /\ i = Len(stack[h]) => stack'[k][i] = u /\ stack[k][i] = t
                            /\ k # h \/ i # Len(stack[h]) => stack'[k][i] = stack[k][i] /\ stack[k][i] # t
    BY DEF Replaced
  <1>1. /\ stack[h][Len(stack[h])] = t /\ Len(stack[h]) \in 1..Len(stack[h])
        /\ Len(stack[h]) \in Nat /\ Len(stack[k]) \in Nat
    BY Running, StackOps DEF Types
  <1>2. /\ k # h => stack'[k] = stack[k]
        /\ Len(stack'[h]) = Len(stack[h])
        /\ stack'[h][Len(stack[h])] = u
        /\ \A i \in 1..(Len(stack[h]) - 1) : stack'[h][i] = stack[h][i]
    BY Running, ReplaceTop
  <1>3. ASSUME NEW i \in 1..Len(stack[k]), ~(k = h /\ i = Len(stack[h]))
        PROVE  stack'[k][i] = stack[k][i] /\ stack[k][i] # t
    <2>1. stack[k][i] # t
      BY <1>1, <1>3 DEF Spots
    <2>2. k = h => i \in 1..(Len(stack[h]) - 1)
      BY <1>1, <1>3
    <2>. QED
      BY <1>2, <2>1, <2>2
  <1>4. \A i \in 1..Len(stack[k]) : stack[k][i] \in Tasks
    BY StackOfTasks
  <1>. QED
    BY <1>1, <1>2, <1>3, <1>4

LEMMA AfterPush ==
  ASSUME Types, Spots, NEW h \in Threads, NEW t, Runs(h, t), NEW u \in Tasks,
         stack' = [stack EXCEPT ![h] = Append(@, u)]
  PROVE  \A k \in Threads :
           /\ Len(stack'[k]) = IF k = h THEN Len(stack[k]) + 1 ELSE Len(stack[k])
           /\ Len(stack[k]) \in Nat
           /\ \A i \in 1..Len(stack[k]) :
                /\ stack'[k][i] = stack[k][i] /\ stack[k][i] \in Tasks
                /\ stack[k][i] = t => k = h /\ i = Len(stack[h])
           /\ stack'[h][Len(stack[h]) + 1] = u
           /\ stack[h][Len(stack[h])] = t /\ Len(stack[h]) \in 1..Len(stack[h])
  <1>. SUFFICES ASSUME NEW k \in Threads
                PROVE  /\ Len(stack'[k]) = IF k = h THEN Len(stack[k]) + 1 ELSE Len(stack[k])
                       /\ Len(stack[k]) \in Nat
                       /\ \A i \in 1..Len(stack[k]) :
                            /\ stack'[k][i] = stack[k][i] /\ stack[k][i] \in Tasks
                            /\ stack[k][i] = t => k = h /\ i = Len(stack[h])
                       /\ stack'[h][Len(stack[h]) + 1] = u
                       /\ stack[h][Len(stack[h])] = t /\ Len(stack[h]) \in 1..Len(stack[h])
    OBVIOUS
  <1>1. /\ stack[h][Len(stack[h])] = t /\ Len(stack[h]) \in 1..Len(stack[h])
        /\ Len(stack[h]) \in Nat /\ Len(stack[k]) \in Nat
    BY Running, StackOps DEF Types
  <1>2. /\ k # h => stack'[k] = stack[k]
        /\ Len(stack'[h]) = Len(stack[h]) + 1
        /\ stack'[h][Len(stack[h]) + 1] = u
        /\ \A i \in 1..Len(stack[h]) : stack'[h][i] = stack[h][i]
    BY PushStack
  <1>3. \A i \in 1..Len(stack[k]) : stack[k][i] = t => k = h /\ i = Len(stack[h])
    BY <1>1 DEF Spots
  <1>4. \A i \in 1..Len(stack[k]) : stack[k][i] \in Tasks
    BY StackOfTasks
  <1>. QED
    BY <1>1, <1>2, <1>3, <1>4

LEMMA AfterNew ==
  ASSUME Types, NEW h \in Threads, stack[h] = <<>>, NEW u \in Tasks,
         stack' = [stack EXCEPT ![h] = <<u>>]
  PROVE  /\ \A k \in Threads : \A i \in 1..Len(stack'[k]) :
              \/ k = h /\ i = 1 /\ stack'[k][i] = u
              \/ k # h /\ i \in 1..Len(stack[k]) /\ stack'[k][i] = stack[k][i] /\ stack[k][i] \in Tasks
         /\ \A k \in Threads : k # h => stack'[k] = stack[k]
         /\ Len(stack'[h]) = 1
  <1>1. /\ \A k \in Threads : k # h => stack'[k] = stack[k]
        /\ Len(stack'[h]) = 1 /\ stack'[h][1] = u
    BY NewStack
  <1>2. \A k \in Threads : \A i \in 1..Len(stack[k]) : stack[k][i] \in Tasks
    BY StackOfTasks
  <1>3. \A i \in 1..1 : i = 1
    OBVIOUS
  <1>. QED
    BY <1>1, <1>2, <1>3

\* Where coroutines are once t has left its stack.
LEMMA PlacesLeft ==
  ASSUME StackInv, NEW h \in Threads, NEW t, Runs(h, t), NEW to \in {"queued", "parked", "none"},
         \/ place' = LeftBy(h, [place EXCEPT ![t] = to])
         \/ /\ parent[t] \in Tasks /\ place[parent[t]] = "syncing"
            /\ place' = [LeftBy(h, [place EXCEPT ![t] = to]) EXCEPT ![parent[t]] = "running"]
  PROVE  /\ place'[t] = to
         /\ \A r \in Tasks \ {t} : place'[r] = place[r] \/ place'[r] = "running"
  <1>1. Types /\ Families /\ t \in Tasks /\ place[t] = "running"
    BY Running DEF StackInv
  <1>2. [place EXCEPT ![t] = to] \in [Tasks -> Places]
    BY <1>1 DEF Types, Places
  <1>3. PICK places \in [Tasks -> Places] : places = [place EXCEPT ![t] = to]
    BY <1>2
  <1>4. places[t] = to /\ \A r \in Tasks \ {t} : places[r] = place[r]
    BY <1>1, <1>3 DEF Types
  <1>5. /\ LeftBy(h, places) \in [Tasks -> Places]
        /\ \A r \in Tasks : \/ LeftBy(h, places)[r] = places[r]
                            \/ places[r] = "waking" /\ LeftBy(h, places)[r] = "running"
    BY <1>1, Left
  <1>6. LeftBy(h, places)[t] = to
    BY <1>1, <1>4, <1>5
  <1>7. CASE place' = LeftBy(h, places)
    BY <1>4, <1>5, <1>6, <1>7
  <1>8. CASE /\ parent[t] \in Tasks /\ place[parent[t]] = "syncing"
             /\ place' = [LeftBy(h, places) EXCEPT ![parent[t]] = "running"]
    BY <1>1, <1>4, <1>5, <1>6, <1>8
  <1>. QED
    BY <1>3, <1>7, <1>8

-----------------------------------------------------------------------------
(* Modules.                                                                *)

\* A new coroutine t is bound to the module that has created it.
LEMMA BoundNew ==
  ASSUME StackInv, Bound, NEW t \in Tasks, NEW c, NEW b, NEW by \in Tasks \cup Comms \cup {None},
         NEW served,
         Create(t, c, b, by, served), c.ctx = b.ctx,
         by \in Tasks => home[by].ctx = b.ctx /\ stale[by] = served /\ place[by] = "running",
         place'[t] # "parked", \A r \in Tasks \ {t} : place'[r] = "parked" => place[r] = "parked"
  PROVE  Bound'
  <1>1. Types /\ Families /\ None \notin Tasks /\ Tasks \cap Comms = {}
    BY NoneIsNobody DEF StackInv
  <1>2. /\ place[t] = "none"
        /\ own'[t] = c /\ home'[t] = b /\ parent'[t] = by /\ stale'[t] = served
        /\ \A r \in Tasks \ {t} : /\ own'[r] = own[r] /\ home'[r] = home[r]
                                  /\ parent'[r] = parent[r] /\ stale'[r] = stale[r]
    BY <1>1 DEF Create, Types
  <1>3. \A r \in Tasks : parent[r] # t
    BY <1>1, <1>2 DEF Families
  <1>4. by # t
    BY <1>2
  <1>5. \A r \in Tasks : own'[r].ctx = home'[r].ctx
    BY <1>2 DEF Bound
  <1>6. ASSUME NEW r \in Tasks, parent'[r] \in Tasks
        PROVE  home'[r].ctx = home'[parent'[r]].ctx /\ stale'[r] = stale'[parent'[r]]
    BY <1>2, <1>3, <1>4, <1>6 DEF Bound
  <1>7. \A r \in Tasks : place'[r] = "parked" => stale'[r] = None
    BY <1>2 DEF Bound
  <1>. QED
    BY <1>5, <1>6, <1>7 DEF Bound

\* The end of t.
LEMMA BoundEnd ==
  ASSUME StackInv, Bound, NEW t \in Tasks, place[t] = "running", Forget(t),
         \A r \in Tasks : place'[r] = "parked" => place[r] = "parked"
  PROVE  Bound'
  <1>1. Types /\ Families /\ None \notin Tasks
    BY NoneIsNobody DEF StackInv
  <1>2. /\ own'[t] = NoCtx /\ home'[t] = NoCtx /\ parent'[t] = None /\ stale'[t] = None
        /\ \A r \in Tasks \ {t} : /\ own'[r] = own[r] /\ home'[r] = home[r]
                                  /\ parent'[r] = parent[r] /\ stale'[r] = stale[r]
    BY <1>1 DEF Forget, Types
  <1>3. \A r \in Tasks : parent[r] # t
    BY <1>1 DEF Families
  <1>4. \A r \in Tasks : own'[r].ctx = home'[r].ctx
    BY <1>2 DEF Bound
  <1>5. ASSUME NEW r \in Tasks, parent'[r] \in Tasks
        PROVE  home'[r].ctx = home'[parent'[r]].ctx /\ stale'[r] = stale'[parent'[r]]
    BY <1>1, <1>2, <1>3, <1>5 DEF Bound
  <1>6. \A r \in Tasks : place'[r] = "parked" => stale'[r] = None
    BY <1>2 DEF Bound
  <1>. QED
    BY <1>4, <1>5, <1>6 DEF Bound

\* Nothing changes but where coroutines are.
LEMMA BoundSame ==
  ASSUME StackInv, Bound, UNCHANGED <<own, home, parent, stale>>,
         \A r \in Tasks : place'[r] = "parked" => stale[r] = None
  PROVE  Bound'
  BY DEF Bound

\* The handler that ends with a stale context to restore is alone on its stack.
LEMMA HandlerIsAlone ==
  ASSUME StackInv, ModuleInv, NEW h \in Threads, NEW t \in Tasks, Runs(h, t),
         parent[t] = None, stale[t] # None
  PROVE  Len(stack[h]) = 1
  <1>1. /\ Types /\ Spots /\ Families /\ Callers /\ None \notin Tasks
        /\ stack[h][Len(stack[h])] = t /\ Len(stack[h]) \in Nat /\ Len(stack[h]) > 0
    BY Running, NoneIsNobody DEF StackInv
  <1>. SUFFICES ASSUME Len(stack[h]) # 1 PROVE FALSE
    OBVIOUS
  <1>. DEFINE i == Len(stack[h]) - 1
  <1>2. i \in 1..(Len(stack[h]) - 1) /\ i \in 1..Len(stack[h]) /\ stack[h][i + 1] = t
    <2>1. \A n \in Nat : n > 0 /\ n # 1 => n - 1 \in 1..(n - 1) /\ n - 1 \in 1..n /\ (n - 1) + 1 = n
      OBVIOUS
    <2>. QED
      BY <1>1, <2>1
  <1>3. stack[h][i] \in Tasks
    BY <1>1, <1>2, StackOfTasks
  <1>4. CASE place[stack[h][i]] = "waking"
    BY <1>2, <1>4 DEF ModuleInv, WokenPlain
  <1>5. CASE place[stack[h][i]] = "syncing"
    <2>1. PICK c \in Tasks : parent[c] = stack[h][i]
      BY <1>1, <1>3, <1>5 DEF Families
    <2>2. c \in Family(Up, t)
      BY <1>1, <1>2, <1>5, <2>1 DEF Callers
    <2>3. Up[t] = None
      BY <1>1 DEF Up
    <2>4. t \in Tasks /\ Closed(Up, {t})
      BY <1>1, <2>3, Running DEF Closed
    <2>5. c \in {t}
      BY <2>2, <2>4, FamilyIsLeast
    <2>. QED
      BY <1>1, <1>3, <2>1, <2>5
  <1>. QED
    BY <1>1, <1>2, <1>4, <1>5 DEF Callers

\* The running coroutine t leaves its stack for place `to`, in one of three ways.
Leaves(h, t, to) ==
  /\ Runs(h, t)
  /\ stack' = [stack EXCEPT ![h] = Front(@)]
  /\ \/ place' = LeftBy(h, [place EXCEPT ![t] = to])
     \/ /\ parent[t] \in Tasks /\ place[parent[t]] = "syncing"
        /\ place' = [LeftBy(h, [place EXCEPT ![t] = to]) EXCEPT ![parent[t]] = "running"]
  /\ to = "none" => Forget(t)
  /\ to # "none" => UNCHANGED <<own, home, parent, stale>>
  /\ to = "queued" => g[h].exe # None /\ at' = [at EXCEPT ![t] = g[h].exe]
  /\ to # "queued" => at' = at
  /\ to = "parked" => (stale[t] # None => "handlers_wait" \in Liberties)
  /\ \/ g' = g
     \/ to = "none" /\ parent[t] = None /\ stale[t] # None /\ g' = [g EXCEPT ![h] = stale[t]]

LEMMA WaysToLeave ==
  ASSUME NEW h \in Threads, NEW t \in Tasks,
         \/ Yield(h, t) \/ Sleep(h, t) \/ Park(h, t)
         \/ End(h, t) \/ EndInline(h, t) \/ EndSynced(h, t)
  PROVE  \E to \in {"queued", "parked", "none"} : Leaves(h, t, to)
  <1>1. CASE Yield(h, t)
    <2>1. Leaves(h, t, "queued")
      BY <1>1 DEF Yield, Reschedule, Leaves
    <2>. QED
      BY <2>1
  <1>2. CASE Sleep(h, t)
    <2>1. Leaves(h, t, "queued")
      BY <1>2 DEF Sleep, Reschedule, Leaves
    <2>. QED
      BY <2>1
  <1>3. CASE Park(h, t)
    <2>1. Leaves(h, t, "parked")
      BY <1>3 DEF Park, Leaves
    <2>. QED
      BY <2>1
  <1>4. CASE End(h, t)
    <2>1. Leaves(h, t, "none")
      BY <1>4 DEF End, Leaves, Forget
    <2>. QED
      BY <2>1
  <1>5. CASE EndInline(h, t)
    <2>1. Leaves(h, t, "none")
      BY <1>5 DEF EndInline, Leaves, Forget
    <2>. QED
      BY <2>1
  <1>6. CASE EndSynced(h, t)
    <2>1. Leaves(h, t, "none")
      BY <1>6 DEF EndSynced, Leaves, Forget
    <2>. QED
      BY <2>1
  <1>. QED
    BY <1>1, <1>2, <1>3, <1>4, <1>5, <1>6

LEMMA ModuleLeaving ==
  ASSUME StackInv, ModuleInv, "handlers_wait" \notin Liberties,
         NEW h \in Threads, NEW t \in Tasks,
         \/ Yield(h, t) \/ Sleep(h, t) \/ Park(h, t)
         \/ End(h, t) \/ EndInline(h, t) \/ EndSynced(h, t)
  PROVE  ModuleInv'
  <1>1. /\ Types /\ Spots /\ Bound /\ OneModule /\ WokenPlain
    BY DEF StackInv, ModuleInv
  <1>0. PICK to \in {"queued", "parked", "none"} : Leaves(h, t, to)
    BY WaysToLeave
  <1>2. /\ Runs(h, t) /\ place[t] = "running" /\ stack[h] # <<>>
        /\ stack' = [stack EXCEPT ![h] = Front(@)]
    BY <1>0 DEF Leaves, Runs
  <1>3. /\ place'[t] = to
        /\ \A r \in Tasks \ {t} : place'[r] = place[r] \/ place'[r] = "running"
    <2>1. \/ place' = LeftBy(h, [place EXCEPT ![t] = to])
          \/ /\ parent[t] \in Tasks /\ place[parent[t]] = "syncing"
             /\ place' = [LeftBy(h, [place EXCEPT ![t] = to]) EXCEPT ![parent[t]] = "running"]
      BY <1>0 DEF Leaves
    <2>. QED
      BY <1>2, <2>1, PlacesLeft, ZenonT(60)
  <1>4. \A r \in Tasks \ {t} : home'[r] = home[r] /\ stale'[r] = stale[r]
    <2>1. Forget(t) \/ UNCHANGED <<own, home, parent, stale>>
      BY <1>0 DEF Leaves
    <2>. QED
      BY <1>1, <2>1 DEF Types, Forget
  <1>5. Bound'
    <2>1. CASE to = "none"
      <3>1. Forget(t)
        BY <1>0, <2>1 DEF Leaves
      <3>2. \A r \in Tasks : place'[r] = "parked" => place[r] = "parked"
        BY <1>3, <2>1
      <3>. QED
        BY <1>1, <1>2, <3>1, <3>2, BoundEnd
    <2>2. CASE to # "none"
      <3>1. UNCHANGED <<own, home, parent, stale>>
        BY <1>0, <2>2 DEF Leaves
      <3>2. to = "parked" => stale[t] = None
        BY <1>0 DEF Leaves
      <3>3. \A r \in Tasks : place'[r] = "parked" => stale[r] = None
        BY <1>1, <1>3, <3>2 DEF Bound
      <3>. QED
        BY <1>1, <3>1, <3>3, BoundSame
    <2>. QED
      BY <2>1, <2>2
  <1>6. \A k \in Threads :
          /\ Len(stack'[k]) \in Nat
          /\ \A i \in 1..Len(stack'[k]) :
               /\ i \in 1..Len(stack[k]) /\ stack'[k][i] = stack[k][i]
               /\ stack[k][i] \in Tasks /\ stack[k][i] # t
          /\ \A i \in 1..(Len(stack'[k]) - 1) : i \in 1..(Len(stack[k]) - 1)
    BY <1>1, <1>2, AfterPop
  <1>7. ASSUME NEW k \in Threads, NEW i \in 1..Len(stack'[k])
        PROVE  g'[k] = g[k]
    <2>1. CASE g' = g
      BY <2>1
    <2>2. CASE parent[t] = None /\ stale[t] # None /\ g' = [g EXCEPT ![h] = stale[t]]
      <3>2. Len(stack[h]) = 1
        BY <1>1, <1>2, <2>2, HandlerIsAlone
      <3>3. Len(stack'[h]) = Len(stack[h]) - 1
        BY <1>1, <1>2, PopStack
      <3>4. k # h
        BY <1>7, <3>2, <3>3
      <3>. QED
        BY <1>1, <2>2, <3>4 DEF Types
    <2>. QED
      BY <1>0, <2>1, <2>2 DEF Leaves
  <1>8. OneModule'
    <2>1. ASSUME NEW k \in Threads, NEW i \in 1..Len(stack'[k])
          PROVE  home'[stack'[k][i]].ctx = g'[k].ctx
      <3>1. i \in 1..Len(stack[k]) /\ stack'[k][i] = stack[k][i] /\ stack[k][i] \in Tasks \ {t}
        BY <1>6
      <3>. QED
        BY <1>1, <1>4, <1>7, <3>1 DEF OneModule
    <2>. QED
      BY <2>1 DEF OneModule
  <1>9. WokenPlain'
    <2>1. ASSUME NEW k \in Threads, NEW i \in 1..(Len(stack'[k]) - 1), place'[stack'[k][i]] = "waking"
          PROVE  stale'[stack'[k][i + 1]] = None
      <3>1. i \in 1..Len(stack'[k]) /\ i + 1 \in 1..Len(stack'[k]) /\ i \in 1..(Len(stack[k]) - 1)
        BY <1>6
      <3>2. /\ stack'[k][i] = stack[k][i] /\ stack[k][i] \in Tasks \ {t}
            /\ stack'[k][i + 1] = stack[k][i + 1] /\ stack[k][i + 1] \in Tasks \ {t}
        BY <1>6, <3>1
      <3>3. place[stack[k][i]] = "waking"
        BY <1>3, <2>1, <3>2
      <3>. QED
        BY <1>1, <1>4, <3>1, <3>2, <3>3 DEF WokenPlain
    <2>. QED
      BY <2>1 DEF WokenPlain
  <1>. QED
    BY <1>5, <1>8, <1>9 DEF ModuleInv

\* The stacks and who calls whom on them stay; the thread h may change its
\* executor, and the coroutine u is new.
LEMMA ModuleQueued ==
  ASSUME StackInv, ModuleInv, NEW h \in Threads, NEW u \in Tasks, place[u] = "none", Bound',
         \A r \in Tasks \ {u} : home'[r] = home[r] /\ stale'[r] = stale[r],
         place' = [place EXCEPT ![u] = "queued"], stack' = stack,
         \A k \in Threads : g'[k].ctx = g[k].ctx \/ stack[k] = <<>>
  PROVE  ModuleInv'
  <1>1. /\ Types /\ Spots /\ OneModule /\ WokenPlain
        /\ place'[u] = "queued" /\ \A r \in Tasks \ {u} : place'[r] = place[r]
    BY DEF StackInv, ModuleInv, Types
  <1>2. ASSUME NEW k \in Threads, NEW i \in 1..Len(stack[k])
        PROVE  /\ stack[k][i] \in Tasks \ {u}
               /\ stack[k] # <<>>
    <2>1. stack[k][i] \in Tasks /\ place[stack[k][i]] \in OnStack
      BY <1>1, StackOfTasks DEF Spots
    <2>. QED
      BY <2>1 DEF OnStack
  <1>3. OneModule'
    BY <1>1, <1>2 DEF OneModule
  <1>4. WokenPlain'
    <2>1. ASSUME NEW k \in Threads, NEW i \in 1..(Len(stack[k]) - 1)
          PROVE  stack[k][i] \in Tasks \ {u} /\ stack[k][i + 1] \in Tasks \ {u}
      <3>1. i \in 1..Len(stack[k]) /\ i + 1 \in 1..Len(stack[k])
        BY <1>1, StackOps DEF Types
      <3>. QED
        BY <1>2, <3>1
    <2>. QED
      BY <1>1, <2>1 DEF WokenPlain
  <1>. QED
    BY <1>3, <1>4 DEF ModuleInv

\* A stack has got its first coroutine u.
LEMMA ModuleNewStack ==
  ASSUME StackInv, ModuleInv, NEW h \in Threads, NEW u \in Tasks, Bound',
         place[u] \notin OnStack,
         \A r \in Tasks \ {u} : home'[r] = home[r] /\ stale'[r] = stale[r] /\ place'[r] = place[r],
         stack[h] = <<>>, stack' = [stack EXCEPT ![h] = <<u>>],
         home'[u].ctx = g'[h].ctx, \A k \in Threads \ {h} : g'[k] = g[k]
  PROVE  ModuleInv'
  <1>1. Types /\ Spots /\ OneModule /\ WokenPlain
    BY DEF StackInv, ModuleInv
  <1>2. /\ \A k \in Threads : \A i \in 1..Len(stack'[k]) :
             \/ k = h /\ i = 1 /\ stack'[k][i] = u
             \/ k # h /\ i \in 1..Len(stack[k]) /\ stack'[k][i] = stack[k][i] /\ stack[k][i] \in Tasks
        /\ \A k \in Threads : k # h => stack'[k] = stack[k]
        /\ Len(stack'[h]) = 1
    BY <1>1, AfterNew
  <1>3. \A k \in Threads : \A i \in 1..Len(stack[k]) : stack[k][i] \in Tasks \ {u}
    BY <1>1, StackOfTasks DEF Spots
  <1>4. OneModule'
    <2>1. ASSUME NEW k \in Threads, NEW i \in 1..Len(stack'[k])
          PROVE  home'[stack'[k][i]].ctx = g'[k].ctx
      <3>1. CASE k = h
        BY <1>2, <3>1
      <3>2. CASE k # h
        BY <1>1, <1>2, <1>3, <3>2 DEF OneModule
      <3>. QED
        BY <3>1, <3>2
    <2>. QED
      BY <2>1 DEF OneModule
  <1>5. WokenPlain'
    <2>1. ASSUME NEW k \in Threads, NEW i \in 1..(Len(stack'[k]) - 1), place'[stack'[k][i]] = "waking"
          PROVE  stale'[stack'[k][i + 1]] = None
      <3>1. k # h /\ stack'[k] = stack[k] /\ Len(stack[k]) \in Nat
        BY <1>1, <1>2, StackOps DEF Types
      <3>2. i \in 1..Len(stack[k]) /\ i + 1 \in 1..Len(stack[k]) /\ i \in 1..(Len(stack[k]) - 1)
        BY <3>1
      <3>3. stack[k][i] \in Tasks \ {u} /\ stack[k][i + 1] \in Tasks \ {u}
        BY <1>3, <3>2
      <3>. QED
        BY <1>1, <2>1, <3>1, <3>2, <3>3 DEF WokenPlain
    <2>. QED
      BY <2>1 DEF WokenPlain
  <1>. QED
    BY <1>4, <1>5 DEF ModuleInv

\* The top t of a stack has made way for u, of the same module.
LEMMA ModuleReplace ==
  ASSUME StackInv, ModuleInv, NEW h \in Threads, NEW t \in Tasks, Runs(h, t), NEW u \in Tasks \ {t},
         Bound', place[u] \notin OnStack,
         \A r \in Tasks \ {t, u} : home'[r] = home[r] /\ stale'[r] = stale[r] /\ place'[r] = place[r],
         stack' = [stack EXCEPT ![h] = Append(Front(@), u)],
         home'[u].ctx = g'[h].ctx, g'[h].ctx = g[h].ctx, \A k \in Threads \ {h} : g'[k] = g[k],
         stale'[u] = stale[t], place'[u] # "waking"
  PROVE  ModuleInv'
  <1>1. Types /\ Spots /\ OneModule /\ WokenPlain
    BY DEF StackInv, ModuleInv
  <1>2. \A k \in Threads :
          /\ Len(stack'[k]) = Len(stack[k]) /\ Len(stack[k]) \in Nat
          /\ \A i \in 1..Len(stack[k]) :
               /\ stack[k][i] \in Tasks
               /\ k = h /\ i = Len(stack[h]) => stack'[k][i] = u /\ stack[k][i] = t
               /\ k # h \/ i # Len(stack[h]) => stack'[k][i] = stack[k][i] /\ stack[k][i] # t
    <2>1. Replaced(h, t, u)
      BY <1>1, AfterReplace
    <2>. QED
      BY <2>1 DEF Replaced
  <1>3. \A k \in Threads : \A i \in 1..Len(stack[k]) : stack[k][i] \in Tasks \ {u}
    BY <1>1, StackOfTasks DEF Spots
  <1>4. OneModule'
    <2>1. ASSUME NEW k \in Threads, NEW i \in 1..Len(stack'[k])
          PROVE  home'[stack'[k][i]].ctx = g'[k].ctx
      <3>1. i \in 1..Len(stack[k]) /\ stack[k][i] \in Tasks \ {u}
            /\ home[stack[k][i]].ctx = g[k].ctx
        BY <1>1, <1>2, <1>3 DEF OneModule
      <3>2. CASE k = h /\ stack'[k][i] = u
        BY <3>2
      <3>3. CASE stack'[k][i] = stack[k][i] /\ stack[k][i] # t
        BY <3>1, <3>3
      <3>. QED
        BY <1>2, <3>1, <3>2, <3>3
    <2>. QED
      BY <2>1 DEF OneModule
  <1>5. WokenPlain'
    <2>1. ASSUME NEW k \in Threads, NEW i \in 1..(Len(stack'[k]) - 1), place'[stack'[k][i]] = "waking"
          PROVE  stale'[stack'[k][i + 1]] = None
      <3>1. i \in 1..Len(stack[k]) /\ i + 1 \in 1..Len(stack[k]) /\ i \in 1..(Len(stack[k]) - 1)
        BY <1>2
      <3>2. stack'[k][i] = stack[k][i] /\ stack[k][i] \in Tasks \ {t, u}
        BY <1>2, <1>3, <2>1, <3>1
      <3>3. stale[stack[k][i + 1]] = None
        BY <1>1, <2>1, <3>1, <3>2 DEF WokenPlain
      <3>4. \/ stack'[k][i + 1] = u /\ stack[k][i + 1] = t
            \/ stack'[k][i + 1] = stack[k][i + 1] /\ stack[k][i + 1] \in Tasks \ {t, u}
        BY <1>2, <1>3, <3>1
      <3>. QED
        BY <3>3, <3>4
    <2>. QED
      BY <2>1 DEF WokenPlain
  <1>. QED
    BY <1>4, <1>5 DEF ModuleInv

\* A stack has got another top u, of the same module.
LEMMA ModulePush ==
  ASSUME StackInv, ModuleInv, NEW h \in Threads, NEW t \in Tasks, Runs(h, t), NEW u \in Tasks \ {t},
         Bound', place[u] \notin OnStack, home'[t] = home[t], stale'[t] = stale[t],
         \A r \in Tasks \ {t, u} : home'[r] = home[r] /\ stale'[r] = stale[r] /\ place'[r] = place[r],
         stack' = [stack EXCEPT ![h] = Append(@, u)],
         home'[u].ctx = g'[h].ctx, g'[h].ctx = g[h].ctx, \A k \in Threads \ {h} : g'[k] = g[k],
         place'[t] = "waking" => stale'[u] = None
  PROVE  ModuleInv'
  <1>1. Types /\ Spots /\ OneModule /\ WokenPlain
    BY DEF StackInv, ModuleInv
  <1>2. \A k \in Threads :
          /\ Len(stack'[k]) = IF k = h THEN Len(stack[k]) + 1 ELSE Len(stack[k])
          /\ Len(stack[k]) \in Nat
          /\ \A i \in 1..Len(stack[k]) :
               /\ stack'[k][i] = stack[k][i] /\ stack[k][i] \in Tasks
               /\ stack[k][i] = t => k = h /\ i = Len(stack[h])
          /\ stack'[h][Len(stack[h]) + 1] = u
          /\ stack[h][Len(stack[h])] = t /\ Len(stack[h]) \in 1..Len(stack[h])
    BY <1>1, AfterPush
  <1>3. \A k \in Threads : \A i \in 1..Len(stack[k]) : stack[k][i] \in Tasks \ {u}
    BY <1>1, StackOfTasks DEF Spots
  <1>4. OneModule'
    <2>1. ASSUME NEW k \in Threads, NEW i \in 1..Len(stack'[k])
          PROVE  home'[stack'[k][i]].ctx = g'[k].ctx
      <3>1. CASE k = h /\ i = Len(stack[h]) + 1
        BY <1>2, <3>1
      <3>2. CASE ~(k = h /\ i = Len(stack[h]) + 1)
        <4>1. i \in 1..Len(stack[k])
          BY <1>2, <3>2
        <4>2. /\ stack'[k][i] = stack[k][i] /\ stack[k][i] \in Tasks \ {u}
              /\ home[stack[k][i]].ctx = g[k].ctx
          BY <1>1, <1>2, <1>3, <4>1 DEF OneModule
        <4>. QED
          BY <4>2
      <3>. QED
        BY <3>1, <3>2
    <2>. QED
      BY <2>1 DEF OneModule
  <1>5. WokenPlain'
    <2>1. ASSUME NEW k \in Threads, NEW i \in 1..(Len(stack'[k]) - 1), place'[stack'[k][i]] = "waking"
          PROVE  stale'[stack'[k][i + 1]] = None
      <3>1. CASE k = h /\ i = Len(stack[h])
        <4>1. stack'[k][i] = t /\ stack'[k][i + 1] = u
          BY <1>2, <3>1
        <4>. QED
          BY <2>1, <4>1
      <3>2. CASE ~(k = h /\ i = Len(stack[h]))
        <4>1. i \in 1..Len(stack[k]) /\ i + 1 \in 1..Len(stack[k]) /\ i \in 1..(Len(stack[k]) - 1)
          BY <1>2, <3>2
        <4>2. /\ stack'[k][i] = stack[k][i] /\ stack[k][i] \in Tasks \ {t, u}
              /\ stack'[k][i + 1] = stack[k][i + 1] /\ stack[k][i + 1] \in Tasks \ {u}
          BY <1>2, <1>3, <3>2, <4>1
        <4>3. stale[stack[k][i + 1]] = None
          BY <1>1, <2>1, <4>1, <4>2 DEF WokenPlain
        <4>. QED
          BY <4>2, <4>3
      <3>. QED
        BY <3>1, <3>2
    <2>. QED
      BY <2>1 DEF WokenPlain
  <1>. QED
    BY <1>4, <1>5 DEF ModuleInv

LEMMA ModuleCallback ==
  ASSUME StackInv, ModuleInv, NEW h \in Comms, Callback(h)
  PROVE  ModuleInv'
  <1>1. PICK t \in Tasks, m \in Modules :
          \/ DeliverInline(h, t, m) \/ ServeInline(h, t, m)
          \/ \E e \in Executors : Deliver(h, t, m, e) \/ Serve(h, t, m, e)
    BY DEF Callback
  <1>2. h \in Threads /\ Types /\ Bound /\ None \notin Tasks /\ h \notin Tasks
    BY NoneIsNobody DEF Threads, StackInv, ModuleInv
  <1>3. CASE DeliverInline(h, t, m) \/ ServeInline(h, t, m)
    <2>1. PICK by, served :
            by \in Comms \cup {None} /\ Create(t, Ctx(m, None), Ctx(m, None), by, served)
      BY <1>3 DEF DeliverInline, ServeInline
    <2>2. /\ stack[h] = <<>> /\ stack' = [stack EXCEPT ![h] = <<t>>]
          /\ place' = [place EXCEPT ![t] = "running"] /\ g' = [g EXCEPT ![h] = Ctx(m, None)]
      BY <1>3 DEF DeliverInline, ServeInline, Idle
    <2>3. /\ place[t] = "none" /\ home'[t] = Ctx(m, None) /\ g'[h] = Ctx(m, None)
          /\ place'[t] = "running" /\ place[t] \notin OnStack
          /\ \A k \in Threads \ {h} : g'[k] = g[k]
          /\ \A r \in Tasks \ {t} : home'[r] = home[r] /\ stale'[r] = stale[r] /\ place'[r] = place[r]
      BY <1>2, <2>1, <2>2 DEF Create, Types, OnStack
    <2>4. by \notin Tasks
      BY <2>1, NoneIsNobody
    <2>5. Bound'
      BY <1>2, <2>1, <2>3, <2>4, BoundNew
    <2>. QED
      BY <1>2, <2>2, <2>3, <2>5, ModuleNewStack
  <1>4. ASSUME NEW e \in Executors, Deliver(h, t, m, e) \/ Serve(h, t, m, e)
        PROVE  ModuleInv'
    <2>1. PICK served : Create(t, Ctx(m, e), Ctx(m, e), None, served)
      BY <1>4 DEF Deliver, Serve
    <2>2. /\ stack[h] = <<>> /\ stack' = stack /\ place' = [place EXCEPT ![t] = "queued"]
          /\ g' = g \/ g' = [g EXCEPT ![h] = Ctx(m, e)]
      BY <1>4 DEF Deliver, Serve, Idle
    <2>3. /\ place[t] = "none" /\ place'[t] = "queued"
          /\ \A k \in Threads : g'[k].ctx = g[k].ctx \/ stack[k] = <<>>
          /\ \A r \in Tasks \ {t} : home'[r] = home[r] /\ stale'[r] = stale[r] /\ place'[r] = place[r]
      BY <1>2, <2>1, <2>2 DEF Create, Types
    <2>4. Bound'
      BY <1>2, <2>1, <2>3, BoundNew
    <2>. QED
      BY <1>2, <2>2, <2>3, <2>4, ModuleQueued
  <1>. QED
    BY <1>1, <1>3, <1>4

LEMMA ModulePost ==
  ASSUME StackInv, ModuleInv, NEW h \in Threads, NEW t \in Tasks, NEW u \in Tasks \ {t},
         NEW e \in Executors, Post(h, t, u, e)
  PROVE  ModuleInv'
  <1>1. /\ Types /\ Bound /\ OneModule /\ None \notin Tasks
        /\ Create(u, Ctx(g[h].ctx, e), Ctx(home[t].ctx, e), None, None)
        /\ stack' = stack /\ place' = [place EXCEPT ![u] = "queued"]
        /\ g' = [g EXCEPT ![h] = Ctx(g[h].ctx, e)] /\ Runs(h, t)
    BY NoneIsNobody DEF Post, StackInv, ModuleInv
  <1>2. home[t].ctx = g[h].ctx
    BY <1>1, Running DEF OneModule
  <1>3. /\ place[u] = "none" /\ place'[u] = "queued"
        /\ \A k \in Threads : g'[k].ctx = g[k].ctx
        /\ \A r \in Tasks \ {u} : home'[r] = home[r] /\ stale'[r] = stale[r] /\ place'[r] = place[r]
        /\ Ctx(g[h].ctx, e).ctx = Ctx(home[t].ctx, e).ctx
    BY <1>1, <1>2 DEF Create, Types, Ctx
  <1>4. Bound'
    BY <1>1, <1>3, BoundNew
  <1>. QED
    BY <1>1, <1>3, <1>4, ModuleQueued

\* A coroutine created by t, which waits for it, is of the module of t.
LEMMA BoundChild ==
  ASSUME StackInv, ModuleInv, NEW h \in Threads, NEW t \in Tasks, NEW u \in Tasks \ {t},
         Await(h, t, u) \/ Sync(h, t, u)
  PROVE  /\ Bound' /\ place[u] \notin OnStack /\ Runs(h, t)
         /\ g' = g /\ home'[u].ctx = g'[h].ctx /\ stale'[u] = stale[t]
         /\ home'[t] = home[t] /\ stale'[t] = stale[t]
         /\ \A r \in Tasks \ {t, u} : home'[r] = home[r] /\ stale'[r] = stale[r] /\ place'[r] = place[r]
         /\ place'[u] = "running" /\ place'[t] \in {"awaiting", "syncing"}
  <1>1. /\ Types /\ Bound /\ OneModule /\ Runs(h, t) /\ place[t] = "running"
        /\ Create(u, g[h], home[t], t, stale[t]) /\ g' = g
        /\ \/ place' = [place EXCEPT ![t] = "awaiting", ![u] = "running"]
           \/ place' = [place EXCEPT ![t] = "syncing", ![u] = "running"]
    BY DEF Await, Sync, StackInv, ModuleInv, Runs
  <1>2. home[t].ctx = g[h].ctx
    BY <1>1, Running DEF OneModule
  <1>3. /\ place[u] = "none" /\ home'[u] = home[t] /\ stale'[u] = stale[t]
        /\ \A r \in Tasks \ {u} : home'[r] = home[r] /\ stale'[r] = stale[r]
    BY <1>1 DEF Create, Types
  <1>4. /\ place'[u] = "running" /\ place'[t] \in {"awaiting", "syncing"}
        /\ \A r \in Tasks \ {t, u} : place'[r] = place[r]
    BY <1>1 DEF Types
  <1>5. Bound'
    <2>1. place'[u] # "parked" /\ \A r \in Tasks \ {u} : place'[r] = "parked" => place[r] = "parked"
      BY <1>4
    <2>. QED
      BY <1>1, <1>2, <2>1, BoundNew
  <1>. QED
    BY <1>1, <1>2, <1>3, <1>4, <1>5 DEF OnStack

LEMMA ModuleAwait ==
  ASSUME StackInv, ModuleInv, NEW h \in Threads, NEW t \in Tasks, NEW u \in Tasks \ {t},
         Await(h, t, u)
  PROVE  ModuleInv'
  <1>1. stack' = [stack EXCEPT ![h] = Append(Front(@), u)]
    BY DEF Await
  <1>2. /\ Bound' /\ place[u] \notin OnStack /\ Runs(h, t)
        /\ home'[u].ctx = g'[h].ctx /\ stale'[u] = stale[t] /\ place'[u] # "waking"
        /\ g'[h].ctx = g[h].ctx /\ \A k \in Threads \ {h} : g'[k] = g[k]
        /\ \A r \in Tasks \ {t, u} : home'[r] = home[r] /\ stale'[r] = stale[r] /\ place'[r] = place[r]
    BY BoundChild
  <1>. QED
    BY <1>1, <1>2, ModuleReplace

LEMMA ModuleSync ==
  ASSUME StackInv, ModuleInv, NEW h \in Threads, NEW t \in Tasks, NEW u \in Tasks \ {t},
         Sync(h, t, u)
  PROVE  ModuleInv'
  <1>1. stack' = [stack EXCEPT ![h] = Append(@, u)]
    BY DEF Sync
  <1>2. /\ Bound' /\ place[u] \notin OnStack /\ Runs(h, t)
        /\ home'[u].ctx = g'[h].ctx /\ home'[t] = home[t] /\ stale'[t] = stale[t]
        /\ g'[h].ctx = g[h].ctx /\ \A k \in Threads \ {h} : g'[k] = g[k]
        /\ \A r \in Tasks \ {t, u} : home'[r] = home[r] /\ stale'[r] = stale[r] /\ place'[r] = place[r]
        /\ place'[t] # "waking"
    BY BoundChild
  <1>. QED
    BY <1>1, <1>2, ModulePush

LEMMA ModuleWake ==
  ASSUME "modules_share" \notin Liberties, StackInv, ModuleInv, NEW h \in Threads, NEW t \in Tasks, NEW u \in Tasks \ {t},
         Wake(h, t, u)
  PROVE  ModuleInv'
  <1>1. /\ Types /\ Bound /\ OneModule /\ Runs(h, t) /\ place[t] = "running" /\ place[u] = "parked"
        /\ UNCHANGED <<own, home, parent, stale>> /\ home[u].ctx = home[t].ctx
        /\ stack' = [stack EXCEPT ![h] = Append(@, u)]
        /\ place' = [place EXCEPT ![t] = "waking", ![u] = "running"]
        /\ g' = [g EXCEPT ![h] = own[u]]
    BY DEF Wake, Share, StackInv, ModuleInv, Runs
  <1>2. /\ place'[t] = "waking" /\ place'[u] = "running" /\ g'[h] = own[u]
        /\ \A k \in Threads \ {h} : g'[k] = g[k]
        /\ \A r \in Tasks \ {t, u} : home'[r] = home[r] /\ stale'[r] = stale[r] /\ place'[r] = place[r]
    BY <1>1 DEF Types
  <1>3. home[t].ctx = g[h].ctx
    BY <1>1, Running DEF OneModule
  <1>4. own[u].ctx = home[u].ctx /\ stale[u] = None /\ place[u] \notin OnStack
    BY <1>1 DEF Bound, OnStack
  <1>5. Bound'
    <2>1. \A r \in Tasks : place'[r] = "parked" => stale[r] = None
      BY <1>1, <1>2 DEF Bound
    <2>. QED
      BY <1>1, <2>1, BoundSame
  <1>6. /\ home'[u].ctx = g'[h].ctx /\ g'[h].ctx = g[h].ctx /\ stale'[u] = None
        /\ home'[t] = home[t] /\ stale'[t] = stale[t]
    BY <1>1, <1>2, <1>3, <1>4
  <1>. QED
    BY <1>1, <1>2, <1>4, <1>5, <1>6, ModulePush

LEMMA ModuleEndAwaited ==
  ASSUME StackInv, ModuleInv, NEW h \in Threads, NEW t \in Tasks, EndAwaited(h, t)
  PROVE  ModuleInv'
  <1>. DEFINE p == parent[t]
  <1>1. /\ Types /\ Bound /\ OneModule /\ Runs(h, t) /\ place[t] = "running" /\ Forget(t)
        /\ p \in Tasks \ {t} /\ place[p] = "awaiting"
        /\ stack' = [stack EXCEPT ![h] = Append(Front(@), p)]
        /\ place' = [place EXCEPT ![t] = "none", ![p] = "running"]
        /\ g' = [g EXCEPT ![h] = own[p]]
    BY DEF EndAwaited, StackInv, ModuleInv, Runs
  <1>2. /\ place'[t] = "none" /\ place'[p] = "running" /\ g'[h] = own[p]
        /\ \A k \in Threads \ {h} : g'[k] = g[k]
        /\ \A r \in Tasks \ {t} : home'[r] = home[r] /\ stale'[r] = stale[r]
        /\ \A r \in Tasks \ {t, p} : place'[r] = place[r]
    BY <1>1 DEF Types, Forget
  <1>3. home[t].ctx = g[h].ctx
    BY <1>1, Running DEF OneModule
  <1>4. /\ own[p].ctx = home[p].ctx /\ home[t].ctx = home[p].ctx /\ stale[t] = stale[p]
        /\ place[p] \notin OnStack
    BY <1>1 DEF Bound, OnStack
  <1>5. Bound'
    <2>1. \A r \in Tasks : place'[r] = "parked" => place[r] = "parked"
      BY <1>1, <1>2
    <2>. QED
      BY <1>1, <2>1, BoundEnd
  <1>6. /\ home'[p].ctx = g'[h].ctx /\ g'[h].ctx = g[h].ctx /\ stale'[p] = stale[t]
        /\ place'[p] # "waking"
    BY <1>1, <1>2, <1>3, <1>4
  <1>7. \A r \in Tasks \ {t, p} : home'[r] = home[r] /\ stale'[r] = stale[r] /\ place'[r] = place[r]
    BY <1>2
  <1>. QED
    BY <1>1, <1>2, <1>4, <1>5, <1>6, <1>7, ModuleReplace

LEMMA ModuleRun ==
  ASSUME StackInv, ModuleInv, NEW x \in Workers, NEW t \in Tasks, Run(x, t)
  PROVE  ModuleInv'
  <1>1. /\ Types /\ Bound /\ x \in Threads /\ place[t] = "queued"
        /\ UNCHANGED <<own, home, parent, stale>>
        /\ stack[x] = <<>> /\ stack' = [stack EXCEPT ![x] = <<t>>]
        /\ place' = [place EXCEPT ![t] = "running"] /\ g' = [g EXCEPT ![x] = own[t]]
    BY DEF Run, StackInv, ModuleInv, Threads
  <1>2. /\ place'[t] = "running" /\ g'[x] = own[t] /\ place[t] \notin OnStack
        /\ \A k \in Threads \ {x} : g'[k] = g[k]
        /\ \A r \in Tasks \ {t} : home'[r] = home[r] /\ stale'[r] = stale[r] /\ place'[r] = place[r]
    BY <1>1 DEF Types, OnStack
  <1>3. home'[t].ctx = g'[x].ctx
    BY <1>1, <1>2 DEF Bound
  <1>4. Bound'
    <2>1. \A r \in Tasks : place'[r] = "parked" => stale[r] = None
      BY <1>1, <1>2 DEF Bound
    <2>. QED
      BY <1>1, <2>1, BoundSame
  <1>. QED
    BY <1>1, <1>2, <1>3, <1>4, ModuleNewStack

LEMMA ModuleInvInit == Init => ModuleInv
  <1>. SUFFICES ASSUME Init PROVE ModuleInv
    OBVIOUS
  <1>1. \A h \in Threads : stack[h] = <<>> /\ Len(stack[h]) = 0
    BY DEF Init
  <1>2. \A t \in Tasks : own[t] = home[t] /\ parent[t] \notin Tasks /\ stale[t] = None
    BY NoneIsNobody DEF Init
  <1>. QED
    BY <1>1, <1>2 DEF ModuleInv, Bound, OneModule, WokenPlain

LEMMA ModuleInvNext ==
  ASSUME "handlers_wait" \notin Liberties, "modules_share" \notin Liberties, StackInv, ModuleInv, [Next]_vars
  PROVE  ModuleInv'
  <1>1. ASSUME NEW h \in Threads, UserCode(h) PROVE ModuleInv'
    <2>. PICK t \in Tasks :
           \/ Yield(h, t) \/ Sleep(h, t) \/ Park(h, t)
           \/ \E u \in Tasks \ {t} : Await(h, t, u) \/ Sync(h, t, u) \/ Wake(h, t, u)
           \/ \E u \in Tasks \ {t}, e \in Executors : Post(h, t, u, e)
      BY <1>1 DEF UserCode
    <2>. QED
      BY ModuleLeaving, ModuleAwait, ModuleSync, ModuleWake, ModulePost
  <1>2. ASSUME NEW h \in Threads, Finish(h) PROVE ModuleInv'
    <2>. PICK t \in Tasks : End(h, t) \/ EndInline(h, t) \/ EndAwaited(h, t) \/ EndSynced(h, t)
      BY <1>2 DEF Finish
    <2>. QED
      BY ModuleLeaving, ModuleEndAwaited
  <1>3. ASSUME UNCHANGED vars PROVE ModuleInv'
    BY <1>3 DEF ModuleInv, Bound, OneModule, WokenPlain, vars
  <1>. QED
    BY <1>1, <1>2, <1>3, ModuleCallback, ModuleRun DEF Next

\* The user code of a module never acts on behalf of another module, whatever
\* co_await, Sync(), Post() and resume() do on a thread: it may post to any
\* executor and be resumed on any, as long as no service handler waits for a
\* mutex and modules have no mutex in common.
THEOREM ModulesAreIsolated ==
  ASSUME "handlers_wait" \notin Liberties, "modules_share" \notin Liberties
  PROVE  Spec => []ModuleIsolation
  <1>1. Init => ModuleInv
    BY ModuleInvInit
  <1>2. StackInv /\ ModuleInv /\ [Next]_vars => ModuleInv'
    BY ModuleInvNext
  <1>3. StackInv /\ ModuleInv => ModuleIsolation
    BY Running DEF StackInv, ModuleInv, OneModule, ModuleIsolation
  <1>. QED
    BY <1>1, <1>2, <1>3, StackInvariant, PTL DEF Spec

-----------------------------------------------------------------------------
(* Executors.                                                              *)

LEMMA ThereNew ==
  ASSUME StackInv, BoundThere, NEW t \in Tasks, NEW c, NEW b,
         NEW by \in Tasks \cup Comms \cup {None}, NEW served,
         Create(t, c, b, by, served), c.exe = b.exe,
         by \in Tasks => home[by].exe = b.exe /\ place[by] = "running",
         place'[t] = "queued" => at'[t] = b.exe,
         \A r \in Tasks \ {t} : place'[r] = "queued" => place[r] = "queued" /\ at'[r] = at[r]
  PROVE  BoundThere'
  <1>1. Types /\ Families /\ None \notin Tasks /\ Tasks \cap Comms = {}
    BY NoneIsNobody DEF StackInv
  <1>2. /\ place[t] = "none" /\ own'[t] = c /\ home'[t] = b /\ parent'[t] = by
        /\ \A r \in Tasks \ {t} : own'[r] = own[r] /\ home'[r] = home[r] /\ parent'[r] = parent[r]
    BY <1>1 DEF Create, Types
  <1>3. (\A r \in Tasks : parent[r] # t) /\ by # t
    BY <1>1, <1>2 DEF Families
  <1>4. \A r \in Tasks : own'[r].exe = home'[r].exe
    BY <1>2 DEF BoundThere
  <1>5. ASSUME NEW r \in Tasks, parent'[r] \in Tasks
        PROVE  home'[r].exe = home'[parent'[r]].exe
    BY <1>2, <1>3, <1>5 DEF BoundThere
  <1>6. \A r \in Tasks : place'[r] = "queued" => at'[r] = home'[r].exe
    BY <1>2 DEF BoundThere
  <1>. QED
    BY <1>4, <1>5, <1>6 DEF BoundThere

LEMMA ThereEnd ==
  ASSUME StackInv, BoundThere, NEW t \in Tasks, place[t] = "running", Forget(t),
         \A r \in Tasks : place'[r] = "queued" => place[r] = "queued"
  PROVE  BoundThere'
  <1>1. Types /\ Families /\ None \notin Tasks
    BY NoneIsNobody DEF StackInv
  <1>2. /\ own'[t] = NoCtx /\ home'[t] = NoCtx /\ parent'[t] = None /\ at' = at
        /\ \A r \in Tasks \ {t} : own'[r] = own[r] /\ home'[r] = home[r] /\ parent'[r] = parent[r]
    BY <1>1 DEF Forget, Types
  <1>3. \A r \in Tasks : parent[r] # t
    BY <1>1 DEF Families
  <1>4. \A r \in Tasks : own'[r].exe = home'[r].exe
    BY <1>2 DEF BoundThere
  <1>5. ASSUME NEW r \in Tasks, parent'[r] \in Tasks
        PROVE  home'[r].exe = home'[parent'[r]].exe
    BY <1>1, <1>2, <1>3, <1>5 DEF BoundThere
  <1>6. \A r \in Tasks : place'[r] = "queued" => at'[r] = home'[r].exe
    BY <1>2 DEF BoundThere
  <1>. QED
    BY <1>4, <1>5, <1>6 DEF BoundThere

LEMMA ThereSame ==
  ASSUME StackInv, BoundThere, UNCHANGED <<own, home, parent, stale>>,
         \A r \in Tasks : place'[r] = "queued" => at'[r] = home[r].exe
  PROVE  BoundThere'
  BY DEF BoundThere

\* What runs, and what the thread context of its thread says.
LEMMA RunsThere ==
  ASSUME StackInv, ExecutorInv, NEW h \in Threads, NEW t, Runs(h, t)
  PROVE  home[t].exe = g[h].exe /\ g[h].exe = ExecutorAt(h)
  BY Running DEF StackInv, ExecutorInv, OneExecutor, ContextThere

\* The stacks stay, and u, which is on none, is new.
LEMMA ExecutorQueued ==
  ASSUME StackInv, ExecutorInv, NEW u \in Tasks, place[u] = "none", BoundThere',
         \A r \in Tasks \ {u} : home'[r] = home[r], stack' = stack,
         \A k \in Threads : g'[k].exe = g[k].exe \/ stack[k] = <<>>
  PROVE  ExecutorInv'
  <1>1. Types /\ Spots /\ OneExecutor /\ ContextThere
    BY DEF StackInv, ExecutorInv
  <1>2. ASSUME NEW k \in Threads, NEW i \in 1..Len(stack[k])
        PROVE  stack[k][i] \in Tasks \ {u}
    <2>1. stack[k][i] \in Tasks /\ place[stack[k][i]] \in OnStack
      BY <1>1, StackOfTasks DEF Spots
    <2>. QED
      BY <2>1 DEF OnStack
  <1>3. OneExecutor'
    BY <1>1, <1>2 DEF OneExecutor, ExecutorAt
  <1>4. ContextThere'
    BY <1>1 DEF ContextThere, ExecutorAt
  <1>. QED
    BY <1>3, <1>4 DEF ExecutorInv

LEMMA ExecutorNewStack ==
  ASSUME StackInv, ExecutorInv, NEW h \in Threads, NEW u \in Tasks, BoundThere',
         place[u] \notin OnStack, \A r \in Tasks \ {u} : home'[r] = home[r],
         stack[h] = <<>>, stack' = [stack EXCEPT ![h] = <<u>>],
         home'[u].exe = ExecutorAt(h), g'[h].exe = ExecutorAt(h),
         \A k \in Threads \ {h} : g'[k] = g[k]
  PROVE  ExecutorInv'
  <1>1. Types /\ Spots /\ OneExecutor /\ ContextThere
    BY DEF StackInv, ExecutorInv
  <1>2. /\ \A k \in Threads : \A i \in 1..Len(stack'[k]) :
             \/ k = h /\ i = 1 /\ stack'[k][i] = u
             \/ k # h /\ i \in 1..Len(stack[k]) /\ stack'[k][i] = stack[k][i] /\ stack[k][i] \in Tasks
        /\ \A k \in Threads : k # h => stack'[k] = stack[k]
        /\ Len(stack'[h]) = 1
    BY <1>1, AfterNew
  <1>3. \A k \in Threads : \A i \in 1..Len(stack[k]) : stack[k][i] \in Tasks \ {u}
    BY <1>1, StackOfTasks DEF Spots
  <1>4. OneExecutor'
    <2>1. ASSUME NEW k \in Threads, NEW i \in 1..Len(stack'[k])
          PROVE  home'[stack'[k][i]].exe = ExecutorAt(k)
      <3>1. CASE k = h
        BY <1>2, <3>1
      <3>2. CASE k # h
        BY <1>1, <1>2, <1>3, <3>2 DEF OneExecutor
      <3>. QED
        BY <3>1, <3>2
    <2>. QED
      BY <2>1 DEF OneExecutor, ExecutorAt
  <1>5. ContextThere'
    BY <1>1, <1>2 DEF ContextThere, ExecutorAt
  <1>. QED
    BY <1>4, <1>5 DEF ExecutorInv

LEMMA ExecutorReplace ==
  ASSUME StackInv, ExecutorInv, NEW h \in Threads, NEW t \in Tasks, Runs(h, t), NEW u \in Tasks \ {t},
         BoundThere', place[u] \notin OnStack, \A r \in Tasks \ {t, u} : home'[r] = home[r],
         stack' = [stack EXCEPT ![h] = Append(Front(@), u)],
         home'[u].exe = ExecutorAt(h), g'[h].exe = ExecutorAt(h),
         \A k \in Threads \ {h} : g'[k] = g[k]
  PROVE  ExecutorInv'
  <1>1. Types /\ Spots /\ OneExecutor /\ ContextThere
    BY DEF StackInv, ExecutorInv
  <1>2. Replaced(h, t, u)
    BY <1>1, AfterReplace
  <1>3. \A k \in Threads : \A i \in 1..Len(stack[k]) : stack[k][i] \in Tasks \ {u}
    BY <1>1, StackOfTasks DEF Spots
  <1>4. OneExecutor'
    <2>1. ASSUME NEW k \in Threads, NEW i \in 1..Len(stack'[k])
          PROVE  home'[stack'[k][i]].exe = ExecutorAt(k)
      <3>1. i \in 1..Len(stack[k]) /\ stack[k][i] \in Tasks \ {u}
            /\ home[stack[k][i]].exe = ExecutorAt(k)
        BY <1>1, <1>2, <1>3 DEF OneExecutor, Replaced
      <3>2. CASE k = h /\ i = Len(stack[h])
        BY <1>2, <3>1, <3>2 DEF Replaced
      <3>3. CASE k # h \/ i # Len(stack[h])
        BY <1>2, <3>1, <3>3 DEF Replaced
      <3>. QED
        BY <3>2, <3>3
    <2>. QED
      BY <2>1 DEF OneExecutor, ExecutorAt
  <1>5. ContextThere'
    <2>1. \A k \in Threads : k # h => stack'[k] = stack[k]
      BY <1>1, Running, ReplaceTop
    <2>. QED
      BY <1>1, <2>1 DEF ContextThere, ExecutorAt
  <1>. QED
    BY <1>4, <1>5 DEF ExecutorInv

LEMMA ExecutorPush ==
  ASSUME StackInv, ExecutorInv, NEW h \in Threads, NEW t \in Tasks, Runs(h, t), NEW u \in Tasks \ {t},
         BoundThere', place[u] \notin OnStack, \A r \in Tasks \ {u} : home'[r] = home[r],
         stack' = [stack EXCEPT ![h] = Append(@, u)],
         home'[u].exe = ExecutorAt(h), g'[h].exe = ExecutorAt(h),
         \A k \in Threads \ {h} : g'[k] = g[k]
  PROVE  ExecutorInv'
  <1>1. Types /\ Spots /\ OneExecutor /\ ContextThere
    BY DEF StackInv, ExecutorInv
  <1>2. \A k \in Threads :
          /\ Len(stack'[k]) = IF k = h THEN Len(stack[k]) + 1 ELSE Len(stack[k])
          /\ Len(stack[k]) \in Nat
          /\ \A i \in 1..Len(stack[k]) :
               /\ stack'[k][i] = stack[k][i] /\ stack[k][i] \in Tasks
               /\ stack[k][i] = t => k = h /\ i = Len(stack[h])
          /\ stack'[h][Len(stack[h]) + 1] = u
          /\ stack[h][Len(stack[h])] = t /\ Len(stack[h]) \in 1..Len(stack[h])
    BY <1>1, AfterPush
  <1>3. \A k \in Threads : \A i \in 1..Len(stack[k]) : stack[k][i] \in Tasks \ {u}
    BY <1>1, StackOfTasks DEF Spots
  <1>4. OneExecutor'
    <2>1. ASSUME NEW k \in Threads, NEW i \in 1..Len(stack'[k])
          PROVE  home'[stack'[k][i]].exe = ExecutorAt(k)
      <3>1. CASE k = h /\ i = Len(stack[h]) + 1
        BY <1>2, <3>1
      <3>2. CASE ~(k = h /\ i = Len(stack[h]) + 1)
        <4>1. i \in 1..Len(stack[k])
          BY <1>2, <3>2
        <4>2. /\ stack'[k][i] = stack[k][i] /\ stack[k][i] \in Tasks \ {u}
              /\ home[stack[k][i]].exe = ExecutorAt(k)
          BY <1>1, <1>2, <1>3, <4>1 DEF OneExecutor
        <4>. QED
          BY <4>2
      <3>. QED
        BY <3>1, <3>2
    <2>. QED
      BY <2>1 DEF OneExecutor, ExecutorAt
  <1>5. ContextThere'
    <2>1. \A k \in Threads : k # h => stack'[k] = stack[k]
      BY <1>1, PushStack
    <2>. QED
      BY <1>1, <2>1 DEF ContextThere, ExecutorAt
  <1>. QED
    BY <1>4, <1>5 DEF ExecutorInv

LEMMA ExecutorLeaving ==
  ASSUME StackInv, ModuleInv, ExecutorInv, NEW h \in Threads, NEW t \in Tasks,
         \/ Yield(h, t) \/ Sleep(h, t) \/ Park(h, t)
         \/ End(h, t) \/ EndInline(h, t) \/ EndSynced(h, t)
  PROVE  ExecutorInv'
  <1>1. Types /\ Spots /\ BoundThere /\ OneExecutor /\ ContextThere
    BY DEF StackInv, ExecutorInv
  <1>2. PICK to \in {"queued", "parked", "none"} : Leaves(h, t, to)
    BY WaysToLeave
  <1>3. /\ Runs(h, t) /\ place[t] = "running" /\ stack[h] # <<>>
        /\ stack' = [stack EXCEPT ![h] = Front(@)]
    BY <1>2 DEF Leaves, Runs
  <1>4. /\ place'[t] = to
        /\ \A r \in Tasks \ {t} : place'[r] = place[r] \/ place'[r] = "running"
    <2>1. \/ place' = LeftBy(h, [place EXCEPT ![t] = to])
          \/ /\ parent[t] \in Tasks /\ place[parent[t]] = "syncing"
             /\ place' = [LeftBy(h, [place EXCEPT ![t] = to]) EXCEPT ![parent[t]] = "running"]
      BY <1>2 DEF Leaves
    <2>. QED
      BY <1>3, <2>1, PlacesLeft
  <1>5. \A r \in Tasks \ {t} : home'[r] = home[r]
    <2>1. Forget(t) \/ UNCHANGED <<own, home, parent, stale>>
      BY <1>2 DEF Leaves
    <2>. QED
      BY <1>1, <2>1 DEF Types, Forget
  <1>6. BoundThere'
    <2>1. CASE to = "none"
      <3>1. Forget(t)
        BY <1>2, <2>1 DEF Leaves
      <3>2. \A r \in Tasks : place'[r] = "queued" => place[r] = "queued"
        BY <1>4, <2>1
      <3>. QED
        BY <1>1, <1>3, <3>1, <3>2, ThereEnd
    <2>2. CASE to = "parked"
      <3>1. UNCHANGED <<own, home, parent, stale>> /\ at' = at
        BY <1>2, <2>2 DEF Leaves
      <3>2. \A r \in Tasks : place'[r] = "queued" => at'[r] = home[r].exe
        BY <1>1, <1>4, <2>2, <3>1 DEF BoundThere
      <3>. QED
        BY <1>1, <3>1, <3>2, ThereSame
    <2>3. CASE to = "queued"
      <3>1. UNCHANGED <<own, home, parent, stale>> /\ at' = [at EXCEPT ![t] = g[h].exe]
        BY <1>2, <2>3 DEF Leaves
      <3>2. home[t].exe = g[h].exe
        BY <1>3, RunsThere
      <3>3. at'[t] = g[h].exe /\ \A r \in Tasks \ {t} : at'[r] = at[r]
        BY <1>1, <3>1 DEF Types
      <3>4. \A r \in Tasks : place'[r] = "queued" => at'[r] = home[r].exe
        BY <1>1, <1>4, <3>2, <3>3 DEF BoundThere
      <3>. QED
        BY <1>1, <3>1, <3>4, ThereSame
    <2>. QED
      BY <2>1, <2>2, <2>3
  <1>7. \A k \in Threads :
          /\ Len(stack'[k]) \in Nat
          /\ \A i \in 1..Len(stack'[k]) :
               /\ i \in 1..Len(stack[k]) /\ stack'[k][i] = stack[k][i]
               /\ stack[k][i] \in Tasks /\ stack[k][i] # t
          /\ \A i \in 1..(Len(stack'[k]) - 1) : i \in 1..(Len(stack[k]) - 1)
    BY <1>1, <1>3, AfterPop
  <1>8. OneExecutor'
    <2>1. ASSUME NEW k \in Threads, NEW i \in 1..Len(stack'[k])
          PROVE  home'[stack'[k][i]].exe = ExecutorAt(k)
      <3>1. i \in 1..Len(stack[k]) /\ stack'[k][i] = stack[k][i] /\ stack[k][i] \in Tasks \ {t}
        BY <1>7
      <3>. QED
        BY <1>1, <1>5, <3>1 DEF OneExecutor
    <2>. QED
      BY <2>1 DEF OneExecutor, ExecutorAt
  <1>9. ContextThere'
    <2>1. ASSUME NEW k \in Threads, stack'[k] # <<>>
          PROVE  g'[k].exe = ExecutorAt(k)
      <3>1. stack[k] # <<>>
        <4>1. k # h => stack'[k] = stack[k]
          BY <1>1, <1>3, PopStack
        <4>. QED
          BY <1>3, <2>1, <4>1
      <3>2. g'[k] = g[k]
        <4>1. CASE g' = g
          BY <4>1
        <4>2. CASE parent[t] = None /\ stale[t] # None /\ g' = [g EXCEPT ![h] = stale[t]]
          <5>1. Len(stack[h]) = 1
            BY <1>1, <1>3, <4>2, HandlerIsAlone
          <5>2. stack'[h] \in Seq(Tasks) /\ Len(stack'[h]) = Len(stack[h]) - 1
            BY <1>1, <1>3, PopStack
          <5>3. k # h
            BY <2>1, <5>1, <5>2
          <5>. QED
            BY <1>1, <4>2, <5>3 DEF Types
        <4>. QED
          BY <1>2, <4>1, <4>2 DEF Leaves
      <3>. QED
        BY <1>1, <3>1, <3>2 DEF ContextThere
    <2>. QED
      BY <2>1 DEF ContextThere, ExecutorAt
  <1>. QED
    BY <1>6, <1>8, <1>9 DEF ExecutorInv

LEMMA ExecutorCallback ==
  ASSUME StackInv, ExecutorInv, NEW h \in Comms, Callback(h)
  PROVE  ExecutorInv'
  <1>1. PICK t \in Tasks, m \in Modules :
          \/ DeliverInline(h, t, m) \/ ServeInline(h, t, m)
          \/ \E e \in Executors : Deliver(h, t, m, e) \/ Serve(h, t, m, e)
    BY DEF Callback
  <1>2. /\ h \in Threads /\ Types /\ BoundThere /\ None \notin Tasks /\ h \notin Tasks
        /\ ExecutorAt(h) = None
    BY NoneIsNobody DEF Threads, StackInv, ExecutorInv, ExecutorAt
  <1>3. CASE DeliverInline(h, t, m) \/ ServeInline(h, t, m)
    <2>1. PICK by, served :
            by \in Comms \cup {None} /\ Create(t, Ctx(m, None), Ctx(m, None), by, served)
      BY <1>3 DEF DeliverInline, ServeInline
    <2>2. /\ stack[h] = <<>> /\ stack' = [stack EXCEPT ![h] = <<t>>]
          /\ place' = [place EXCEPT ![t] = "running"] /\ g' = [g EXCEPT ![h] = Ctx(m, None)]
          /\ at' = at
      BY <1>3 DEF DeliverInline, ServeInline, Idle
    <2>3. /\ place[t] = "none" /\ home'[t] = Ctx(m, None) /\ g'[h] = Ctx(m, None)
          /\ place'[t] = "running" /\ place[t] \notin OnStack
          /\ \A k \in Threads \ {h} : g'[k] = g[k]
          /\ \A r \in Tasks \ {t} : home'[r] = home[r] /\ place'[r] = place[r] /\ at'[r] = at[r]
      BY <1>2, <2>1, <2>2 DEF Create, Types, OnStack
    <2>4. by \notin Tasks
      BY <2>1, NoneIsNobody
    <2>5. BoundThere'
      BY <1>2, <2>1, <2>3, <2>4, ThereNew
    <2>6. home'[t].exe = ExecutorAt(h) /\ g'[h].exe = ExecutorAt(h)
      BY <1>2, <2>3 DEF Ctx
    <2>. QED
      BY <1>2, <2>2, <2>3, <2>5, <2>6, ExecutorNewStack
  <1>4. ASSUME NEW e \in Executors, Deliver(h, t, m, e) \/ Serve(h, t, m, e)
        PROVE  ExecutorInv'
    <2>1. PICK served : Create(t, Ctx(m, e), Ctx(m, e), None, served)
      BY <1>4 DEF Deliver, Serve
    <2>2. /\ stack[h] = <<>> /\ stack' = stack /\ place' = [place EXCEPT ![t] = "queued"]
          /\ g' = g \/ g' = [g EXCEPT ![h] = Ctx(m, e)]
          /\ at' = [at EXCEPT ![t] = e]
      BY <1>4 DEF Deliver, Serve, Idle
    <2>3. /\ place[t] = "none" /\ at'[t] = Ctx(m, e).exe
          /\ \A k \in Threads : g'[k].exe = g[k].exe \/ stack[k] = <<>>
          /\ \A r \in Tasks \ {t} : home'[r] = home[r] /\ place'[r] = place[r] /\ at'[r] = at[r]
      BY <1>2, <2>1, <2>2 DEF Create, Types, Ctx
    <2>4. BoundThere'
      BY <1>2, <2>1, <2>3, ThereNew
    <2>. QED
      BY <1>2, <2>2, <2>3, <2>4, ExecutorQueued
  <1>. QED
    BY <1>1, <1>3, <1>4

\* By default, one posts to the executor of the thread.
LEMMA ExecutorPost ==
  ASSUME "post_elsewhere" \notin Liberties, StackInv, ExecutorInv,
         NEW h \in Threads, NEW t \in Tasks, NEW u \in Tasks \ {t}, NEW e \in Executors,
         Post(h, t, u, e)
  PROVE  ExecutorInv'
  <1>1. /\ Types /\ BoundThere /\ None \notin Tasks
        /\ Create(u, Ctx(g[h].ctx, e), Ctx(home[t].ctx, e), None, None)
        /\ stack' = stack /\ place' = [place EXCEPT ![u] = "queued"]
        /\ g' = [g EXCEPT ![h] = Ctx(g[h].ctx, e)] /\ at' = [at EXCEPT ![u] = e]
        /\ e = g[h].exe
    BY NoneIsNobody DEF Post, StackInv, ExecutorInv, Named
  <1>2. /\ place[u] = "none" /\ at'[u] = e
        /\ \A k \in Threads : g'[k].exe = g[k].exe
        /\ \A r \in Tasks \ {u} : home'[r] = home[r] /\ place'[r] = place[r] /\ at'[r] = at[r]
        /\ Ctx(g[h].ctx, e).exe = e /\ Ctx(home[t].ctx, e).exe = e
    BY <1>1 DEF Create, Types, Ctx
  <1>3. BoundThere'
    BY <1>1, <1>2, ThereNew
  <1>. QED
    BY <1>1, <1>2, <1>3, ExecutorQueued

LEMMA ExecutorChild ==
  ASSUME StackInv, ExecutorInv, NEW h \in Threads, NEW t \in Tasks, NEW u \in Tasks \ {t},
         Await(h, t, u) \/ Sync(h, t, u)
  PROVE  ExecutorInv'
  <1>1. /\ Types /\ BoundThere /\ Runs(h, t) /\ place[t] = "running"
        /\ Create(u, g[h], home[t], t, stale[t]) /\ g' = g /\ at' = at
        /\ \/ place' = [place EXCEPT ![t] = "awaiting", ![u] = "running"]
           \/ place' = [place EXCEPT ![t] = "syncing", ![u] = "running"]
    BY DEF Await, Sync, StackInv, ExecutorInv, Runs
  <1>2. home[t].exe = g[h].exe /\ g[h].exe = ExecutorAt(h)
    BY <1>1, RunsThere
  <1>3. /\ place[u] = "none" /\ home'[u] = home[t] /\ place[u] \notin OnStack
        /\ \A r \in Tasks \ {u} : home'[r] = home[r]
    BY <1>1 DEF Create, Types, OnStack
  <1>4. /\ place'[u] # "queued"
        /\ \A r \in Tasks \ {u} : place'[r] = "queued" => place[r] = "queued" /\ at'[r] = at[r]
    BY <1>1 DEF Types
  <1>5. BoundThere'
    BY <1>1, <1>2, <1>4, ThereNew
  <1>6. home'[u].exe = ExecutorAt(h) /\ g'[h].exe = ExecutorAt(h) /\ \A k \in Threads \ {h} : g'[k] = g[k]
    BY <1>1, <1>2, <1>3
  <1>7. CASE Await(h, t, u)
    <2>1. stack' = [stack EXCEPT ![h] = Append(Front(@), u)]
      BY <1>7 DEF Await
    <2>. QED
      BY <1>1, <1>3, <1>5, <1>6, <2>1, ExecutorReplace
  <1>8. CASE Sync(h, t, u)
    <2>1. stack' = [stack EXCEPT ![h] = Append(@, u)]
      BY <1>8 DEF Sync
    <2>. QED
      BY <1>1, <1>3, <1>5, <1>6, <2>1, ExecutorPush
  <1>. QED
    BY <1>7, <1>8

LEMMA ExecutorWake ==
  ASSUME Liberties = {}, StackInv, ExecutorInv, NEW h \in Threads, NEW t \in Tasks, NEW u \in Tasks \ {t},
         Wake(h, t, u)
  PROVE  ExecutorInv'
  <1>1. /\ Types /\ BoundThere /\ Runs(h, t) /\ place[t] = "running" /\ place[u] = "parked"
        /\ UNCHANGED <<at, own, home, parent, stale>> /\ home[u] = home[t]
        /\ stack' = [stack EXCEPT ![h] = Append(@, u)]
        /\ place' = [place EXCEPT ![t] = "waking", ![u] = "running"]
        /\ g' = [g EXCEPT ![h] = own[u]]
    BY DEF Wake, Share, StackInv, ExecutorInv, Runs
  <1>2. home[t].exe = g[h].exe /\ g[h].exe = ExecutorAt(h)
    BY <1>1, RunsThere
  <1>3. own[u].exe = home[u].exe /\ place[u] \notin OnStack
    BY <1>1 DEF BoundThere, OnStack
  <1>4. /\ g'[h] = own[u] /\ \A k \in Threads \ {h} : g'[k] = g[k]
        /\ \A r \in Tasks : place'[r] = "queued" => place[r] = "queued"
    BY <1>1 DEF Types
  <1>5. BoundThere'
    <2>1. \A r \in Tasks : place'[r] = "queued" => at'[r] = home[r].exe
      BY <1>1, <1>4 DEF BoundThere
    <2>. QED
      BY <1>1, <2>1, ThereSame
  <1>6. home'[u].exe = ExecutorAt(h) /\ g'[h].exe = ExecutorAt(h)
    BY <1>1, <1>2, <1>3, <1>4
  <1>. QED
    BY <1>1, <1>3, <1>4, <1>5, <1>6, ExecutorPush

LEMMA ExecutorEndAwaited ==
  ASSUME StackInv, ExecutorInv, NEW h \in Threads, NEW t \in Tasks, EndAwaited(h, t)
  PROVE  ExecutorInv'
  <1>. DEFINE p == parent[t]
  <1>1. /\ Types /\ BoundThere /\ Runs(h, t) /\ place[t] = "running" /\ Forget(t)
        /\ p \in Tasks \ {t} /\ place[p] = "awaiting"
        /\ stack' = [stack EXCEPT ![h] = Append(Front(@), p)]
        /\ place' = [place EXCEPT ![t] = "none", ![p] = "running"]
        /\ g' = [g EXCEPT ![h] = own[p]]
    BY DEF EndAwaited, StackInv, ExecutorInv, Runs
  <1>2. home[t].exe = g[h].exe /\ g[h].exe = ExecutorAt(h)
    BY <1>1, RunsThere
  <1>3. own[p].exe = home[p].exe /\ home[t].exe = home[p].exe /\ place[p] \notin OnStack
    BY <1>1 DEF BoundThere, OnStack
  <1>4. /\ g'[h] = own[p] /\ \A k \in Threads \ {h} : g'[k] = g[k]
        /\ \A r \in Tasks \ {t} : home'[r] = home[r]
        /\ \A r \in Tasks : place'[r] = "queued" => place[r] = "queued"
    BY <1>1 DEF Types, Forget
  <1>5. BoundThere'
    BY <1>1, <1>4, ThereEnd
  <1>6. home'[p].exe = ExecutorAt(h) /\ g'[h].exe = ExecutorAt(h)
    BY <1>1, <1>2, <1>3, <1>4
  <1>. QED
    BY <1>1, <1>3, <1>4, <1>5, <1>6, ExecutorReplace

\* A worker takes from the queue of its executor.
LEMMA ExecutorRun ==
  ASSUME StackInv, ExecutorInv, NEW x \in Workers, NEW t \in Tasks, Run(x, t)
  PROVE  ExecutorInv'
  <1>1. /\ Types /\ BoundThere /\ x \in Threads /\ place[t] = "queued" /\ at[t] = ExecutorOf[x]
        /\ UNCHANGED <<own, home, parent, stale>>
        /\ stack[x] = <<>> /\ stack' = [stack EXCEPT ![x] = <<t>>]
        /\ place' = [place EXCEPT ![t] = "running"] /\ at' = [at EXCEPT ![t] = None]
        /\ g' = [g EXCEPT ![x] = own[t]] /\ ExecutorAt(x) = ExecutorOf[x]
    BY DEF Run, StackInv, ExecutorInv, Threads, ExecutorAt
  <1>2. /\ place'[t] = "running" /\ g'[x] = own[t] /\ place[t] \notin OnStack
        /\ \A k \in Threads \ {x} : g'[k] = g[k]
        /\ \A r \in Tasks \ {t} : place'[r] = place[r] /\ at'[r] = at[r]
    BY <1>1 DEF Types, OnStack
  <1>3. own[t].exe = home[t].exe /\ at[t] = home[t].exe
    BY <1>1 DEF BoundThere
  <1>4. BoundThere'
    <2>1. \A r \in Tasks : place'[r] = "queued" => at'[r] = home[r].exe
      BY <1>1, <1>2 DEF BoundThere
    <2>. QED
      BY <1>1, <2>1, ThereSame
  <1>5. home'[t].exe = ExecutorAt(x) /\ g'[x].exe = ExecutorAt(x)
    BY <1>1, <1>2, <1>3
  <1>. QED
    BY <1>1, <1>2, <1>4, <1>5, ExecutorNewStack

LEMMA ExecutorInvInit == Init => ExecutorInv
  <1>. SUFFICES ASSUME Init PROVE ExecutorInv
    OBVIOUS
  <1>1. \A h \in Threads : stack[h] = <<>> /\ Len(stack[h]) = 0
    BY DEF Init
  <1>2. \A t \in Tasks : own[t] = home[t] /\ parent[t] \notin Tasks /\ place[t] = "none"
    BY NoneIsNobody DEF Init
  <1>. QED
    BY <1>1, <1>2 DEF ExecutorInv, BoundThere, OneExecutor, ContextThere

LEMMA ExecutorInvNext ==
  ASSUME Liberties = {}, StackInv, ModuleInv, ExecutorInv, [Next]_vars
  PROVE  ExecutorInv'
  <1>1. ASSUME NEW h \in Threads, UserCode(h) PROVE ExecutorInv'
    <2>. PICK t \in Tasks :
           \/ Yield(h, t) \/ Sleep(h, t) \/ Park(h, t)
           \/ \E u \in Tasks \ {t} : Await(h, t, u) \/ Sync(h, t, u) \/ Wake(h, t, u)
           \/ \E u \in Tasks \ {t}, e \in Executors : Post(h, t, u, e)
      BY <1>1 DEF UserCode
    <2>. QED
      BY ExecutorLeaving, ExecutorChild, ExecutorWake, ExecutorPost
  <1>2. ASSUME NEW h \in Threads, Finish(h) PROVE ExecutorInv'
    <2>. PICK t \in Tasks : End(h, t) \/ EndInline(h, t) \/ EndAwaited(h, t) \/ EndSynced(h, t)
      BY <1>2 DEF Finish
    <2>. QED
      BY ExecutorLeaving, ExecutorEndAwaited
  <1>3. ASSUME UNCHANGED vars PROVE ExecutorInv'
    BY <1>3 DEF ExecutorInv, BoundThere, OneExecutor, ContextThere, ExecutorAt, vars
  <1>. QED
    BY <1>1, <1>2, <1>3, ExecutorCallback, ExecutorRun DEF Next

\* The executor of a thread is that of all it is in the middle of.
THEOREM ExecutorInvariant ==
  ASSUME Liberties = {}
  PROVE  Spec => [](StackInv /\ ExecutorInv)
  <1>1. Init => ModuleInv /\ ExecutorInv
    BY ModuleInvInit, ExecutorInvInit
  <1>2. StackInv /\ ModuleInv /\ ExecutorInv /\ [Next]_vars => ModuleInv' /\ ExecutorInv'
    BY ModuleInvNext, ExecutorInvNext
  <1>. QED
    BY <1>1, <1>2, StackInvariant, PTL DEF Spec

\* ctx::exe() without an argument is the executor of the worker, as long as
\* user code posts to no other executor, coroutines of different executors have
\* no mutex in common, and no service handler waits for one.
THEOREM DefaultIsCurrent ==
  ASSUME Liberties = {}
  PROVE  Spec => []DefaultExecutorIsCurrent
  <1>1. StackInv /\ ExecutorInv => DefaultExecutorIsCurrent
    BY RunsThere DEF DefaultExecutorIsCurrent, ExecutorAt, Threads
  <1>. QED
    BY <1>1, ExecutorInvariant, PTL
=============================================================================
