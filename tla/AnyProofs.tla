------------------------------ MODULE AnyProofs ------------------------------
(***************************************************************************)
(* Proofs about Any, for any number of tasks and of threads.               *)
(*                                                                         *)
(* All rests on who has won.  `used` lets one task through: until it has   *)
(* stored its result nobody holds a continuation, and from then on nobody  *)
(* can win any more.                                                       *)
(***************************************************************************)
EXTENDS Any, TLAPS, FiniteSetTheorems

\* One task at the most is between the exchange of `used` and its result.
OneWinner ==
  /\ \A i \in Tasks : task[i] = "won" => used /\ result = None
  /\ \A i, j \in Tasks : task[i] = "won" /\ task[j] = "won" => i = j
  /\ result # None => used

\* There is a continuation to resume, or one that has been, only with a result.
ResultComesFirst ==
  result = None => posted = 0 /\ ~inline_resume /\ coroutine = "awaits"

\* The one continuation is with the executor, with await_suspend(), or gone on.
HandedOutOnce ==
  coroutine = "resumed" => /\ posted = 0
                           /\ inline_resume => suspending = "returned"

AnyInv == /\ TypeOK
          /\ posted \in Nat
          /\ OneWinner
          /\ ResultComesFirst
          /\ HandedOutOnce

-----------------------------------------------------------------------------
(* AnyInv is inductive.                                                    *)

LEMMA TasksAreNaturals == Last \in Nat /\ Threads \in Nat /\ Tasks \subseteq Nat \ {None}
  BY AnyAssumption DEF Tasks, None

LEMMA InitAny == Init => AnyInv
  <1>. SUFFICES ASSUME Init
                PROVE  AnyInv
    OBVIOUS
  <1>1. TypeOK /\ posted \in Nat
    <2>1. next \in 1..(Last + 1)
      BY TasksAreNaturals DEF Init
    <2>2. posted \in Nat /\ posted + (IF inline_resume THEN 1 ELSE 0) <= 1
      BY DEF Init
    <2>3. task \in [Tasks -> {"new", "ready", "runs", "won", "over"}]
      BY DEF Init
    <2>. QED
      BY <2>1, <2>2, <2>3 DEF Init, TypeOK
  <1>2. OneWinner /\ ResultComesFirst /\ HandedOutOnce
    BY DEF Init, OneWinner, ResultComesFirst, HandedOutOnce
  <1>. QED
    BY <1>1, <1>2 DEF AnyInv

LEMMA NextAny == AnyInv /\ [Next]_vars => AnyInv'
  <1>. SUFFICES ASSUME AnyInv, [Next]_vars
                PROVE  AnyInv'
    OBVIOUS
  <1>. USE TasksAreNaturals
       DEF AnyInv, TypeOK, OneWinner, ResultComesFirst, HandedOutOnce
  <1>1. CASE SpawnNext
    BY <1>1 DEF SpawnNext, Read, setting, context, Tasks
  <1>2. CASE Return
    BY <1>2 DEF Return, Read, setting, context
  <1>3. CASE Resume
    BY <1>3 DEF Resume, setting
  <1>4. ASSUME NEW i \in Tasks, Start(i)
        PROVE  AnyInv'
    BY <1>4 DEF Start, setting, context
  <1>5. ASSUME NEW i \in Tasks, End(i)
        PROVE  AnyInv'
    BY <1>5 DEF End, setting
  <1>6. ASSUME NEW i \in Tasks, Store(i)
        PROVE  AnyInv'
    <2>1. CASE IsInline(i)
      BY <1>6, <2>1 DEF Store, setting
    <2>2. CASE ~IsInline(i)
      BY <1>6, <2>2 DEF Store, setting
    <2>. QED
      BY <2>1, <2>2
  <1>7. ASSUME NEW i \in Tasks, Stray(i)
        PROVE  AnyInv'
    BY <1>7 DEF Stray, setting, context
  <1>8. CASE UNCHANGED vars
    BY <1>8 DEF vars
  <1>. QED
    BY <1>1, <1>2, <1>3, <1>4, <1>5, <1>6, <1>7, <1>8 DEF Next, TaskStep, Finished

LEMMA AnyInvariant == Spec => []AnyInv
  BY InitAny, NextAny, PTL DEF Spec

-----------------------------------------------------------------------------
(* What follows for the coroutine.                                         *)

\* Every variable keeps its type, and the continuation is never both in the
\* queue of the executor and left to await_suspend().
THEOREM AnyTypes == Spec => []TypeOK
  <1>1. AnyInv => TypeOK
    BY DEF AnyInv
  <1>. QED
    BY <1>1, AnyInvariant, PTL

\* The first result stays, and the coroutine goes on with it, however many
\* tasks race and wherever they run.
THEOREM ResultOfTheFirst == Spec => FirstWins
  <1>. DEFINE Step == /\ result # None => result' = result
                      /\ coroutine # coroutine' => result # None
  <1>1. ASSUME AnyInv, [Next]_vars
        PROVE  [Step]_vars
    <2>. USE <1>1 DEF AnyInv, TypeOK, OneWinner, ResultComesFirst
    <2>1. ASSUME NEW i \in Tasks, TaskStep(i) \/ Stray(i)
          PROVE  Step
      BY <2>1 DEF TaskStep, Start, End, Store, Stray, context, setting
    <2>2. CASE SpawnNext \/ Return \/ Resume
      BY <2>2 DEF SpawnNext, Return, Resume, context, setting
    <2>. QED
      BY <2>1, <2>2 DEF Next, Finished
  <1>. QED
    BY <1>1, AnyInvariant, PTL DEF Spec, FirstWins

\* A step that lets the coroutine go on.
GoesOn == Resume \/ (Return /\ used /\ inline_resume)

\* It goes on at most once: whoever resumes it finds it awaiting.
ResumedOnce == [][GoesOn => coroutine = "awaits" /\ coroutine' = "resumed"]_vars

\* No interleaving of the tasks with await_suspend() resumes the coroutine
\* twice: not by the queue and in place, and not twice by either.
THEOREM NeverResumedTwice == Spec => ResumedOnce
  <1>1. AnyInv /\ [Next]_vars =>
          [GoesOn => coroutine = "awaits" /\ coroutine' = "resumed"]_vars
    BY DEF AnyInv, TypeOK, HandedOutOnce, GoesOn, Resume, Return
  <1>. QED
    BY <1>1, AnyInvariant, PTL DEF Spec, ResumedOnce

-----------------------------------------------------------------------------
(* The frame that await_suspend() reads.                                   *)

LEMMA ThreadFreeReturned ==
  ASSUME AnyInv, Threads = 1, ThreadFree, thread = "own"
  PROVE  suspending = "returned"
  <1>. DEFINE here == {i \in Tasks \ own : via = "here" /\ task[i] \in {"runs", "won"}}
  <1>1. IsFiniteSet(Tasks)
    BY TasksAreNaturals, FS_Interval DEF Tasks
  <1>2. IsFiniteSet(here)
    BY <1>1, FS_Subset
  <1>3. Cardinality(here) \in Nat
    BY <1>2, FS_CardinalityType
  <1>4. Cardinality(here) + (IF suspending = "spawning" THEN 1 ELSE 0) < Threads
    BY DEF ThreadFree
  <1>. HIDE DEF here
  <1>. QED
    BY <1>3, <1>4 DEF AnyInv, TypeOK

\* On a thread of the executor, the coroutine is there as long as
\* await_suspend() has not returned.
FrameInv ==
  thread = "own" => /\ ~stale
                    /\ suspending = "spawning" => coroutine = "awaits"

\* Run on the one thread of the executor, await_suspend() reads no member of an
\* `any` whose coroutine has gone on: the continuation, whoever posts it, waits
\* for that thread.  Both conditions are needed: with two threads, or with
\* await_suspend() on a thread that is not the executor's (OpExe::Inline), the
\* frame may be gone.
THEOREM SingleThreadReadsLiveFrame ==
  ASSUME Threads = 1
  PROVE  Spec => []ReadsLiveFrame
  <1>1. Init => FrameInv
    BY DEF Init, FrameInv
  <1>2. AnyInv /\ FrameInv /\ [Next]_vars => FrameInv'
    <2>. SUFFICES ASSUME AnyInv, FrameInv, [Next]_vars
                  PROVE  FrameInv'
      OBVIOUS
    <2>. USE DEF FrameInv
    <2>1. CASE SpawnNext \/ Return
      BY <2>1 DEF SpawnNext, Return, Read, setting
    <2>2. CASE Resume
      BY <2>2, ThreadFreeReturned DEF Resume, setting
    <2>3. ASSUME NEW i \in Tasks, TaskStep(i) \/ Stray(i)
          PROVE  FrameInv'
      BY <2>3 DEF TaskStep, Start, End, Store, Stray, setting, context
    <2>4. CASE UNCHANGED vars
      BY <2>4 DEF vars
    <2>. QED
      BY <2>1, <2>2, <2>3, <2>4 DEF Next, Finished
  <1>3. AnyInv /\ FrameInv => ReadsLiveFrame
    BY DEF AnyInv, TypeOK, FrameInv, ReadsLiveFrame
  <1>. QED
    BY <1>1, <1>2, <1>3, AnyInvariant, PTL DEF Spec

-----------------------------------------------------------------------------
(* The way to the result.  AnyResumes is a liveness property; what it rests   *)
(* on is that somebody can go on until the coroutine does.                    *)

\* await_suspend() spawns the tasks one after the other, and is done with all
\* that run in place when it returns.
SpawnedInOrder ==
  /\ \A i \in Tasks : task[i] = "new" <=> next <= i
  /\ suspending = "returned" => next = Last + 1
  /\ \A i \in Tasks : IsInline(i) /\ task[i] = "ready" => i \in strayed
  /\ suspending = "returned" => ~RunsInPlace

\* A task is over when one has won; that one stores its result, and then the
\* continuation is somewhere: in the queue, with await_suspend(), gone on, or
\* with a task that has come back too late to be heard.
ContinuationIsKept ==
  /\ \A i \in Tasks : task[i] = "over" => used
  /\ used /\ result = None => \E i \in Tasks : task[i] = "won"
  /\ result # None => posted > 0 \/ inline_resume \/ coroutine = "resumed"
  /\ inline_resume => result # None
  /\ inline_resume /\ suspending = "returned" => coroutine = "resumed" \/ result \in strayed

WayInv == SpawnedInOrder /\ ContinuationIsKept

\* When each of them can take a step: the guards of its actions.
SuspendCan == suspending = "spawning" /\ ~RunsInPlace
TaskCan(i) == \/ task[i] = "ready" /\ (i \notin own /\ via = "here" => ThreadFree)
              \/ task[i] \in {"runs", "won"}
ResumeCan  == posted > 0 /\ ThreadFree

\* The coroutine has not gone on and is not lost to a strayed winner.
StillAwaits == coroutine = "awaits" /\ result \notin strayed

NobodyStuck == StillAwaits => SuspendCan \/ ResumeCan \/ \E i \in Tasks : TaskCan(i)

LEMMA InitWay == Init => WayInv
  <1>. SUFFICES ASSUME Init
                PROVE  WayInv
    OBVIOUS
  <1>1. \A i \in Tasks : 1 <= i
    BY DEF Tasks
  <1>. QED
    BY <1>1 DEF Init, WayInv, SpawnedInOrder, ContinuationIsKept

LEMMA NextWay == AnyInv /\ WayInv /\ [Next]_vars => WayInv'
  <1>. SUFFICES ASSUME AnyInv, WayInv, [Next]_vars
                PROVE  WayInv'
    OBVIOUS
  <1>. USE TasksAreNaturals
       DEF AnyInv, TypeOK, OneWinner, ResultComesFirst, HandedOutOnce, WayInv,
           SpawnedInOrder, ContinuationIsKept, RunsInPlace, IsInline, setting, context
  <1>1. CASE SpawnNext
    BY <1>1 DEF SpawnNext, Tasks
  <1>2. CASE Return
    BY <1>2 DEF Return, Tasks
  <1>3. CASE Resume
    BY <1>3 DEF Resume
  <1>4. ASSUME NEW i \in Tasks, Start(i)
        PROVE  WayInv'
    BY <1>4 DEF Start
  <1>5. ASSUME NEW i \in Tasks, End(i)
        PROVE  WayInv'
    BY <1>5 DEF End
  <1>6. ASSUME NEW i \in Tasks, Store(i)
        PROVE  WayInv'
    <2>1. SpawnedInOrder'
      BY <1>6 DEF Store
    <2>2. ContinuationIsKept'
      BY <1>6 DEF Store
    <2>. QED
      BY <2>1, <2>2
  <1>7. ASSUME NEW i \in Tasks, Stray(i)
        PROVE  WayInv'
    BY <1>7 DEF Stray
  <1>8. CASE UNCHANGED vars
    BY <1>8 DEF vars
  <1>. QED
    BY <1>1, <1>2, <1>3, <1>4, <1>5, <1>6, <1>7, <1>8 DEF Next, TaskStep, Finished

\* A busy thread of the executor is busy with a task that can go on.
LEMMA BusyGoesOn ==
  ASSUME suspending = "returned", ~ThreadFree
  PROVE  \E i \in Tasks : TaskCan(i)
  <1>. DEFINE here == {i \in Tasks \ own : via = "here" /\ task[i] \in {"runs", "won"}}
  <1>1. ~ (Cardinality(here) + 0 < Threads)
    BY DEF ThreadFree
  <1>2. CASE here = {}
    BY <1>1, <1>2, FS_EmptySet, AnyAssumption
  <1>3. CASE here # {}
    BY <1>3 DEF TaskCan
  <1>. QED
    BY <1>2, <1>3

LEMMA SomebodyCan ==
  ASSUME AnyInv, WayInv, StillAwaits
  PROVE  SuspendCan \/ ResumeCan \/ \E i \in Tasks : TaskCan(i)
  <1>1. CASE suspending = "spawning"
    BY <1>1 DEF SuspendCan, TaskCan, RunsInPlace
  <1>2. CASE suspending = "returned" /\ result # None
    <2>1. posted > 0
      BY <1>2 DEF WayInv, ContinuationIsKept, StillAwaits
    <2>. QED
      BY <1>2, <2>1, BusyGoesOn DEF ResumeCan
  <1>3. CASE suspending = "returned" /\ result = None /\ used
    BY <1>3 DEF WayInv, ContinuationIsKept, TaskCan
  <1>4. CASE suspending = "returned" /\ ~used
    <2>1. 1 \in Tasks /\ ~ (next <= 1)
      BY <1>4, AnyAssumption DEF WayInv, SpawnedInOrder, Tasks
    <2>2. task[1] \in {"ready", "runs"}
      BY <1>4, <2>1 DEF AnyInv, TypeOK, OneWinner, WayInv, SpawnedInOrder, ContinuationIsKept
    <2>3. CASE ThreadFree
      BY <2>1, <2>2, <2>3 DEF TaskCan
    <2>4. CASE ~ThreadFree
      BY <1>4, <2>4, BusyGoesOn
    <2>. QED
      BY <2>3, <2>4
  <1>. QED
    BY <1>1, <1>2, <1>3, <1>4 DEF AnyInv, TypeOK

\* Until the coroutine goes on, await_suspend(), a task or the executor can take
\* a step, however few threads that has, unless a task that was to run in
\* place, has suspended and is the first has kept the continuation to itself:
\* the exception AnyResumes names is the only one.
THEOREM SomebodyCanGoOn == Spec => []NobodyStuck
  <1>1. AnyInv /\ WayInv => NobodyStuck
    BY SomebodyCan DEF NobodyStuck
  <1>. QED
    BY <1>1, InitWay, NextWay, AnyInvariant, PTL DEF Spec

\* How far task i has come; one that strays is started twice.
PlaceAt   == [new |-> 0, ready |-> 1, runs |-> 2, won |-> 3, over |-> 4]
TaskAt(i) == PlaceAt[task[i]] + (IF i \in strayed THEN 3 ELSE 0)

\* Nothing is undone.
Onwards == /\ \A i \in Tasks : TaskAt(i) <= TaskAt(i)'
           /\ suspending = "returned" => suspending' = "returned"
           /\ coroutine = "resumed" => coroutine' = "resumed"

\* Something has come further.
Further == \/ \E i \in Tasks : TaskAt(i) < TaskAt(i)'
           \/ suspending # suspending'
           \/ coroutine # coroutine'

\* Every step of await_suspend(), of the tasks and of the executor brings
\* something further and undoes nothing, so that there are only so many steps:
\* with SomebodyCanGoOn, nobody can go round for ever while the coroutine waits.
THEOREM EveryStepCounts == Spec => [][Onwards /\ Further]_vars
  <1>1. AnyInv /\ WayInv /\ [Next]_vars => [Onwards /\ Further]_vars
    <2>. SUFFICES ASSUME AnyInv, WayInv, Next, vars' # vars
                  PROVE  Onwards /\ Further
      OBVIOUS
    <2>. USE DEF AnyInv, TypeOK, Onwards, Further, TaskAt, PlaceAt, setting, context
    <2>1. CASE SpawnNext
      BY <2>1, TasksAreNaturals DEF SpawnNext, WayInv, SpawnedInOrder
    <2>2. CASE Return
      BY <2>2 DEF Return
    <2>3. CASE Resume
      BY <2>3 DEF Resume, HandedOutOnce
    <2>4. ASSUME NEW i \in Tasks, TaskStep(i)
          PROVE  Onwards /\ Further
      <3>1. CASE Start(i)
        BY <2>4, <3>1 DEF Start
      <3>2. CASE End(i)
        BY <2>4, <3>2 DEF End
      <3>3. CASE Store(i)
        BY <2>4, <3>3 DEF Store
      <3>. QED
        BY <2>4, <3>1, <3>2, <3>3 DEF TaskStep
    <2>5. ASSUME NEW i \in Tasks, Stray(i)
          PROVE  Onwards /\ Further
      BY <2>5 DEF Stray
    <2>. HIDE DEF AnyInv, Onwards, Further
    <2>. QED
      BY <2>1, <2>2, <2>3, <2>4, <2>5 DEF Next, Finished
  <1>. QED
    BY <1>1, InitWay, NextWay, AnyInvariant, PTL DEF Spec
=============================================================================
