---------------------------------- MODULE Any ----------------------------------
(***************************************************************************)
(* sync::any (src/src/sync/any.h): a coroutine awaits several tasks and    *)
(* goes on with the result of the first that ends; the others run on and   *)
(* their results are dropped.                                              *)
(*                                                                         *)
(* await_suspend() spawns the tasks one after the other.  A task runs on   *)
(* the executor it brings along, else on that of Via(), by default the one *)
(* the coroutine is on, else in place, on the stack of await_suspend().    *)
(* All the while await_suspend() reads members of the object any, which is *)
(* in the frame of the coroutine: it is gone when the coroutine goes on.   *)
(* That coroutine need not run on a thread of its executor: OpExe::Inline  *)
(* runs it on that of the caller, and whoever unlocks a mutex resumes it   *)
(* where he is.                                                            *)
(***************************************************************************)
EXTENDS Naturals, FiniteSets

CONSTANTS Last,     \* the tasks are 1..Last, in the order of the arguments
          Threads   \* of the executor the coroutine is on

ASSUME AnyAssumption == {Last, Threads} \subseteq Nat \ {0}

VARIABLES thread,        \* await_suspend() runs on the executor's or another
          via,           \* where Via() sends the tasks
          own,           \* the tasks that bring an executor along
          suspending,    \* where await_suspend() is
          next,          \* the task it is to spawn next
          coroutine,     \* whether the coroutine still awaits
          task,          \* where each task is
          strayed,       \* tasks run in place that have suspended
          used, result, inline_resume,  \* the members of any::Context
          posted,        \* continuations in the queue of the executor
          stale          \* await_suspend() has read what was gone

vars == <<thread, via, own, suspending, next, coroutine, task, strayed, used, result,
          inline_resume, posted, stale>>

context == <<used, result, inline_resume, posted>>
setting == <<thread, via, own>>

Tasks == 1..Last
None  == 0

\* Awaited on an executor: the constructor panics elsewhere.
Init == /\ thread \in {"own", "other"}
        /\ via \in {"here", "there", "inline"}
        /\ own \in SUBSET Tasks
        /\ suspending = "spawning"
        /\ next = 1
        /\ coroutine = "awaits"
        /\ task = [i \in Tasks |-> "new"]
        /\ strayed = {}
        /\ used = FALSE
        /\ result = None
        /\ inline_resume = FALSE
        /\ posted = 0
        /\ stale = FALSE

\* is_inline of DoSuspend().
IsInline(i) == i \notin own /\ via = "inline"

\* The executor of the coroutine has a thread that does nothing: those that
\* do something run tasks, and one of them may be in await_suspend().
ThreadFree ==
  LET here == {i \in Tasks \ own : via = "here" /\ task[i] \in {"runs", "won"}}
      awaits == thread = "own" /\ suspending = "spawning"
  IN  Cardinality(here) + (IF awaits THEN 1 ELSE 0) < Threads

-----------------------------------------------------------------------------
(* await_suspend()                                                         *)

\* The last task spawned has not left the stack of await_suspend() yet.
RunsInPlace ==
  \E i \in Tasks \ strayed : IsInline(i) /\ task[i] \in {"runs", "won"}

\* A member of any is read.
Read == stale' = (stale \/ coroutine # "awaits")

\* DoSuspend<I>() and Spawn() of the next task.
SpawnNext ==
  /\ suspending = "spawning"
  /\ next \in Tasks
  /\ ~RunsInPlace
  /\ task' = [task EXCEPT ![next] = IF IsInline(next) THEN "runs" ELSE "ready"]
  /\ next' = next + 1
  /\ Read
  /\ UNCHANGED <<setting, suspending, coroutine, strayed, context>>

\* Mutant: await_suspend() returns true whatever has happened in place.
ReturnTrue ==
  /\ suspending = "spawning"
  /\ next \notin Tasks
  /\ ~RunsInPlace
  /\ suspending' = "returned"
  /\ Read
  /\ UNCHANGED <<setting, next, coroutine, task, strayed, context>>

\* All are spawned.  False is returned, and the coroutine goes on at once, if
\* a task that has ended in place has won.
Return ==
  /\ suspending = "spawning"
  /\ next \notin Tasks
  /\ ~RunsInPlace
  /\ suspending' = "returned"
  /\ coroutine' = IF used /\ inline_resume THEN "resumed" ELSE coroutine
  /\ Read
  /\ UNCHANGED <<setting, next, task, strayed, context>>

-----------------------------------------------------------------------------
(* The tasks                                                               *)

\* An executor takes up task i; on that of the coroutine a thread is needed.
Start(i) ==
  /\ task[i] = "ready"
  /\ i \notin own /\ via = "here" => ThreadFree
  /\ task' = [task EXCEPT ![i] = "runs"]
  /\ UNCHANGED <<setting, suspending, next, coroutine, strayed, context, stale>>

\* A task that runs in place awaits something, and leaves await_suspend() to
\* the next one.  It goes on elsewhere.
Stray(i) ==
  /\ task[i] = "runs"
  /\ IsInline(i)
  /\ i \notin strayed
  /\ strayed' = strayed \cup {i}
  /\ task' = [task EXCEPT ![i] = "ready"]
  /\ UNCHANGED <<setting, suspending, next, coroutine, context, stale>>

\* Mutant: `used` is set, and not exchanged.
EndAndWin(i) ==
  /\ task[i] = "runs"
  /\ used' = TRUE
  /\ task' = [task EXCEPT ![i] = "won"]
  /\ UNCHANGED <<setting, suspending, next, coroutine, strayed, result,
                 inline_resume, posted, stale>>

\* The task has ended: TryResume(), the first wins.
End(i) ==
  /\ task[i] = "runs"
  /\ used' = TRUE
  /\ task' = [task EXCEPT ![i] = IF used THEN "over" ELSE "won"]
  /\ UNCHANGED <<setting, suspending, next, coroutine, strayed, result,
                 inline_resume, posted, stale>>

\* Mutant: the continuation is resumed where the task has ended.
StoreAndResume(i) ==
  /\ task[i] = "won"
  /\ task' = [task EXCEPT ![i] = "over"]
  /\ result' = i
  /\ IF IsInline(i) THEN inline_resume' = TRUE /\ UNCHANGED coroutine
     ELSE coroutine' = "resumed" /\ UNCHANGED inline_resume
  /\ UNCHANGED <<setting, suspending, next, strayed, used, posted, stale>>

\* SetResultAndResume(): the continuation is posted to the executor of the
\* coroutine, or left to await_suspend().
Store(i) ==
  /\ task[i] = "won"
  /\ task' = [task EXCEPT ![i] = "over"]
  /\ result' = i
  /\ IF IsInline(i) THEN inline_resume' = TRUE /\ UNCHANGED posted
     ELSE posted' = posted + 1 /\ UNCHANGED inline_resume
  /\ UNCHANGED <<setting, suspending, next, coroutine, strayed, used, stale>>

\* Mutant: the continuation is resumed before the result is stored.
ResumeEarly ==
  /\ used
  /\ coroutine = "awaits"
  /\ ThreadFree
  /\ coroutine' = "resumed"
  /\ UNCHANGED <<setting, suspending, next, task, strayed, context, stale>>

\* The executor of the coroutine resumes the continuation.
Resume ==
  /\ posted > 0
  /\ ThreadFree
  /\ posted' = posted - 1
  /\ coroutine' = "resumed"
  /\ UNCHANGED <<setting, suspending, next, task, strayed, used, result,
                 inline_resume, stale>>

TaskStep(i) == Start(i) \/ End(i) \/ Store(i)

\* All is over: the coroutine has gone on, or nobody will resume it.
Finished ==
  /\ suspending = "returned"
  /\ posted = 0
  /\ \A i \in Tasks : task[i] = "over"
  /\ UNCHANGED vars

Next == \/ SpawnNext \/ Return \/ Resume
        \/ \E i \in Tasks : TaskStep(i) \/ Stray(i)
        \/ Finished

\* The thread that awaits runs, and executors run what they are given; the
\* tasks end.
Fairness == /\ WF_vars(SpawnNext \/ Return)
            /\ WF_vars(Resume)
            /\ \A i \in Tasks : WF_vars(TaskStep(i))

Spec == Init /\ [][Next]_vars /\ Fairness

-----------------------------------------------------------------------------
(* Properties                                                              *)

\* Types; the continuation is handed out once: to the executor, or to
\* await_suspend(), never to both and never twice.
TypeOK ==
  /\ thread \in {"own", "other"}
  /\ via \in {"here", "there", "inline"}
  /\ own \subseteq Tasks
  /\ suspending \in {"spawning", "returned"}
  /\ next \in 1..(Last + 1)
  /\ coroutine \in {"awaits", "resumed"}
  /\ task \in [Tasks -> {"new", "ready", "runs", "won", "over"}]
  /\ strayed \subseteq Tasks
  /\ {used, inline_resume, stale} \subseteq BOOLEAN
  /\ result \in Tasks \cup {None}
  /\ posted + (IF inline_resume THEN 1 ELSE 0) <= 1

\* await_suspend() reads nothing of the frame of a coroutine that has gone on,
\* if it runs on the one thread of the executor: the continuation waits for
\* that thread in the queue, whatever thread posts it.  On another thread, or
\* with a second one, it does not wait (any.h:160).
ReadsLiveFrame == stale => thread = "other"

\* The coroutine goes on with a result, and it is never replaced by that of a
\* slower task.
FirstWins ==
  [][/\ result # None => result' = result
     /\ coroutine # coroutine' => result # None]_vars

\* The coroutine goes on.  The one exception is a task that was to run in
\* place, has suspended and is the first: it only sets inline_resume, which
\* nobody reads any more.
AnyResumes ==
  coroutine = "awaits" ~> (coroutine = "resumed" \/ result \in strayed)

\* The coroutine goes on, wherever the tasks run: one that is not given to an
\* executor "runs to its end here" (any.h:120), so that its victory is seen
\* when await_suspend() returns.
AlwaysResumes == coroutine = "awaits" ~> coroutine = "resumed"
=============================================================================
