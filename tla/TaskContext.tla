---------------------------- MODULE TaskContext ----------------------------
(***************************************************************************)
(* The thread context of core/ and ctx/: g_thread_ctx, a thread_local that *)
(* says on behalf of which module (Context), and on which executor, the    *)
(* code running on a thread runs.  ctx::exe(), Publish(), Call(), Sleep()  *)
(* and Yield() all act on it.  co::Task records it when a coroutine is     *)
(* created and puts it back whenever the coroutine is resumed;             *)
(* OpExe::Post(), the subscription and service callbacks set it for the    *)
(* coroutine they are about to create.                                     *)
(*                                                                         *)
(* A worker runs the coroutines queued at its executor, whichever module   *)
(* they belong to.  A stack holds the coroutines a thread is in the middle *)
(* of: the top one runs, those below have called something that runs       *)
(* another coroutine in place: Sync(), which blocks the thread until that  *)
(* coroutine has ended, or resume().  Executors, communication threads and *)
(* timers are AimRT's.  Coroutine identities are reused, so that nothing   *)
(* but Tasks bounds the model.                                             *)
(***************************************************************************)
EXTENDS Naturals, Sequences, FiniteSets, SequencesExt

CONSTANTS Modules,      \* each with a Context of its own
          Executors,    \* AimRT executors, shared by the modules
          Workers,      \* the threads of the executors
          ExecutorOf,   \* the executor each worker belongs to
          Comms,        \* AimRT threads that deliver messages and requests
          Tasks,        \* coroutines that may be alive at the same time
          None,
          Liberties     \* what user code may do, besides the plain things:
                        \* "post_elsewhere": to another executor than its own
                        \* "handlers_wait": for a mutex, in a service handler
                        \* "executors_share": a mutex, within a module
                        \* "modules_share": a mutex, among any coroutines

ASSUME TaskContextAssumption ==
  /\ ExecutorOf \in [Workers -> Executors]
  /\ None \notin Modules \cup Executors \cup Tasks \cup Comms
  /\ Workers \cap Comms = {}
  /\ Tasks \cap Comms = {}
  /\ IsFiniteSet(Workers)
  /\ Liberties \subseteq {"post_elsewhere", "handlers_wait", "executors_share",
                           "modules_share"}

VARIABLES g,             \* g_thread_ctx of each thread
          synchronized,  \* co::synchronized of each thread
          stack,         \* the coroutines each thread is in the middle of
          place,         \* where each coroutine is
          at,            \* the executor a queued coroutine is queued at
          own,           \* Promise::ctx_, recorded when it was created
          home,          \* the module and executor it was bound to
          parent,        \* who waits for its end: a coroutine, a thread, None
          stale          \* for the coroutines of a service handler, what the
                         \* end of the handler puts in g; else None

vars == <<g, synchronized, stack, place, at, own, home, parent, stale>>

Threads == Workers \cup Comms

\* A ThreadContext; a default-constructed one has neither.
Ctx(m, e) == [ctx |-> m, exe |-> e]
NoCtx == Ctx(None, None)
Contexts == [ctx : Modules \cup {None}, exe : Executors \cup {None}]

Init == /\ g = [h \in Threads |-> NoCtx]
        /\ synchronized = [h \in Threads |-> FALSE]
        /\ stack = [h \in Threads |-> <<>>]
        /\ place = [t \in Tasks |-> "none"]
        /\ at = [t \in Tasks |-> None]
        /\ own = [t \in Tasks |-> NoCtx]
        /\ home = [t \in Tasks |-> NoCtx]
        /\ parent = [t \in Tasks |-> None]
        /\ stale = [t \in Tasks |-> None]

-----------------------------------------------------------------------------
(* Coroutines and stacks                                                   *)

\* Coroutine t runs on thread h.
Runs(h, t) == /\ stack[h] # <<>>
              /\ Last(stack[h]) = t
              /\ place[t] = "running"

\* A communication thread that is not in a callback.
Idle(h) == stack[h] = <<>> /\ \A t \in Tasks : parent[t] # h

\* The Promise of a new coroutine t copies the context of the thread.
Create(t, context, bound, by, served) ==
  /\ place[t] = "none"
  /\ own' = [own EXCEPT ![t] = context]
  /\ home' = [home EXCEPT ![t] = bound]
  /\ parent' = [parent EXCEPT ![t] = by]
  /\ stale' = [stale EXCEPT ![t] = served]

\* The places once thread h has left the top of its stack: the coroutine
\* below, if it had called resume(), goes on.
LeftBy(h, places) ==
  LET below == Front(stack[h])
  IN  IF below # <<>> /\ places[Last(below)] = "waking"
      THEN [places EXCEPT ![Last(below)] = "running"]
      ELSE places

-----------------------------------------------------------------------------
(* Communication callbacks                                                 *)

\* Mutant: Post() spawns the coroutine first, and sets the context then.
DeliverSpawnFirst(h, t, m, e) ==
  /\ Idle(h)
  /\ Create(t, g[h], Ctx(m, e), None, None)
  /\ g' = [g EXCEPT ![h] = Ctx(m, e)]
  /\ place' = [place EXCEPT ![t] = "queued"]
  /\ at' = [at EXCEPT ![t] = e]
  /\ UNCHANGED <<synchronized, stack>>

\* RawSubscribe() on an executor: a message arrives and is posted.
Deliver(h, t, m, e) ==
  /\ Idle(h)
  /\ Create(t, Ctx(m, e), Ctx(m, e), None, None)
  /\ g' = [g EXCEPT ![h] = Ctx(m, e)]
  /\ place' = [place EXCEPT ![t] = "queued"]
  /\ at' = [at EXCEPT ![t] = e]
  /\ UNCHANGED <<synchronized, stack>>

\* RawSubscribe() inline: the thread runs the callback, and waits for it in
\* SyncInline(), which is not a Sync() of ours and leaves `synchronized` alone.
DeliverInline(h, t, m) ==
  /\ Idle(h)
  /\ Create(t, Ctx(m, None), Ctx(m, None), h, None)
  /\ g' = [g EXCEPT ![h] = Ctx(m, None)]
  /\ place' = [place EXCEPT ![t] = "running"]
  /\ stack' = [stack EXCEPT ![h] = <<t>>]
  /\ UNCHANGED <<synchronized, at>>

\* Mutant: the wrapper does not schedule itself on the executor.
ServeUnscheduled(h, t, m, e) ==
  /\ Idle(h)
  /\ Create(t, Ctx(m, e), Ctx(m, e), None, g[h])
  /\ g' = [g EXCEPT ![h] = Ctx(m, e)]
  /\ place' = [place EXCEPT ![t] = "running"]
  /\ stack' = [stack EXCEPT ![h] = <<t>>]
  /\ UNCHANGED <<synchronized, at>>

\* DoServe() on an executor: the wrapper coroutine is created with whatever
\* context the communication thread has, schedules itself, sets the context
\* and creates the user's handler, t.  At the end of t, the wrapper goes on,
\* with its own context.
Serve(h, t, m, e) ==
  /\ Idle(h)
  /\ Create(t, Ctx(m, e), Ctx(m, e), None, g[h])
  /\ place' = [place EXCEPT ![t] = "queued"]
  /\ at' = [at EXCEPT ![t] = e]
  /\ UNCHANGED <<g, synchronized, stack>>

\* DoServe() inline: the wrapper creates t at once, on the same thread.
ServeInline(h, t, m) ==
  /\ Idle(h)
  /\ Create(t, Ctx(m, None), Ctx(m, None), None, g[h])
  /\ g' = [g EXCEPT ![h] = Ctx(m, None)]
  /\ place' = [place EXCEPT ![t] = "running"]
  /\ stack' = [stack EXCEPT ![h] = <<t>>]
  /\ UNCHANGED <<synchronized, at>>

-----------------------------------------------------------------------------
(* Executors                                                               *)

\* Mutant: a resumed coroutine does not restore its context.
RunUnrestored(x, t) ==
  /\ stack[x] = <<>>
  /\ place[t] = "queued"
  /\ at[t] = ExecutorOf[x]
  /\ stack' = [stack EXCEPT ![x] = <<t>>]
  /\ place' = [place EXCEPT ![t] = "running"]
  /\ at' = [at EXCEPT ![t] = None]
  /\ UNCHANGED <<g, synchronized, own, home, parent, stale>>

\* A free worker resumes a coroutine of its queue, which restores its context.
Run(x, t) == /\ stack[x] = <<>>
             /\ place[t] = "queued"
             /\ at[t] = ExecutorOf[x]
             /\ stack' = [stack EXCEPT ![x] = <<t>>]
             /\ g' = [g EXCEPT ![x] = own[t]]
             /\ place' = [place EXCEPT ![t] = "running"]
             /\ at' = [at EXCEPT ![t] = None]
             /\ UNCHANGED <<synchronized, own, home, parent, stale>>

\* Mutant: the coroutine is queued before it has suspended.
RescheduleRunning(h, t, e) ==
  /\ place' = LeftBy(h, [place EXCEPT ![t] = "queued"])
  /\ at' = [at EXCEPT ![t] = e]
  /\ UNCHANGED <<g, synchronized, stack, own, home, parent, stale>>

\* Schedule(): the running coroutine goes to the queue of executor e.
Reschedule(h, t, e) ==
  /\ place' = LeftBy(h, [place EXCEPT ![t] = "queued"])
  /\ at' = [at EXCEPT ![t] = e]
  /\ stack' = [stack EXCEPT ![h] = Front(@)]
  /\ UNCHANGED <<g, synchronized, own, home, parent, stale>>

-----------------------------------------------------------------------------
(* What user code does                                                     *)

\* The executors user code on thread h names: by default that of its context.
Named(h) == IF "post_elsewhere" \in Liberties THEN Executors
            ELSE {g[h].exe} \ {None}

\* ctx::exe(e).Post(u): the context is set for u, on the caller's thread.
Post(h, t, u, e) ==
  /\ Runs(h, t)
  /\ e \in Named(h)
  /\ Create(u, Ctx(g[h].ctx, e), Ctx(home[t].ctx, e), None, None)
  /\ g' = [g EXCEPT ![h] = Ctx(g[h].ctx, e)]
  /\ place' = [place EXCEPT ![u] = "queued"]
  /\ at' = [at EXCEPT ![u] = e]
  /\ UNCHANGED <<synchronized, stack>>

\* co_await u(): u starts in the place of t, which waits for its end.
Await(h, t, u) ==
  /\ Runs(h, t)
  /\ Create(u, g[h], home[t], t, stale[t])
  /\ place' = [place EXCEPT ![t] = "awaiting", ![u] = "running"]
  /\ stack' = [stack EXCEPT ![h] = Append(Front(@), u)]
  /\ UNCHANGED <<g, synchronized, at>>

\* u().Sync(), or ctx::exe().Inline(u) on the current executor: the thread
\* runs u, and waits for its end.
Sync(h, t, u) ==
  /\ Runs(h, t)
  /\ Create(u, g[h], home[t], t, stale[t])
  /\ synchronized' = [synchronized EXCEPT ![h] = TRUE]
  /\ place' = [place EXCEPT ![t] = "syncing", ![u] = "running"]
  /\ stack' = [stack EXCEPT ![h] = Append(@, u)]
  /\ UNCHANGED <<g, at>>

\* co_await ctx::Yield(): rescheduled, unless the thread is in a Sync().
Yield(h, t) == /\ Runs(h, t)
               /\ ~synchronized[h]
               /\ g[h].exe # None
               /\ Reschedule(h, t, g[h].exe)

\* co_await ctx::Sleep(): rescheduled after a time.
Sleep(h, t) == /\ Runs(h, t)
               /\ g[h].exe # None
               /\ Reschedule(h, t, g[h].exe)

\* The coroutine suspends until another one resumes it: in a mutex, say.
Park(h, t) ==
  /\ Runs(h, t)
  /\ home[t].exe # None
  /\ stale[t] # None => "handlers_wait" \in Liberties
  /\ place' = LeftBy(h, [place EXCEPT ![t] = "parked"])
  /\ stack' = [stack EXCEPT ![h] = Front(@)]
  /\ UNCHANGED <<g, synchronized, at, own, home, parent, stale>>

\* Coroutines t and u use the same mutex, or another thing to wait for.
Share(t, u) == \/ home[t] = home[u]
               \/ "executors_share" \in Liberties /\ home[t].ctx = home[u].ctx
               \/ "modules_share" \in Liberties

\* t resumes u in place, on its own stack and thread, whatever executor u is
\* bound to: Mutex::Unlock(), say, or ConditionVariable::NotifyOne().
Wake(h, t, u) ==
  /\ Runs(h, t)
  /\ place[u] = "parked"
  /\ Share(t, u)
  /\ place' = [place EXCEPT ![t] = "waking", ![u] = "running"]
  /\ stack' = [stack EXCEPT ![h] = Append(@, u)]
  /\ g' = [g EXCEPT ![h] = own[u]]
  /\ UNCHANGED <<synchronized, at, own, home, parent, stale>>

-----------------------------------------------------------------------------
(* The end of a coroutine                                                  *)

Forget(t) == /\ own' = [own EXCEPT ![t] = NoCtx]
             /\ home' = [home EXCEPT ![t] = NoCtx]
             /\ parent' = [parent EXCEPT ![t] = None]
             /\ stale' = [stale EXCEPT ![t] = None]
             /\ UNCHANGED at

\* Nobody waits for t; if it was a handler, its wrapper restores its context.
End(h, t) == /\ Runs(h, t)
             /\ parent[t] = None
             /\ g' = IF stale[t] = None THEN g ELSE [g EXCEPT ![h] = stale[t]]
             /\ place' = LeftBy(h, [place EXCEPT ![t] = "none"])
             /\ stack' = [stack EXCEPT ![h] = Front(@)]
             /\ Forget(t)
             /\ UNCHANGED synchronized

\* final_suspend() resumes the coroutine that awaits t, with its own context,
\* on the thread on which t has ended.
EndAwaited(h, t) ==
  LET p == parent[t]
  IN  /\ Runs(h, t)
      /\ p \in Tasks
      /\ place[p] = "awaiting"
      /\ g' = [g EXCEPT ![h] = own[p]]
      /\ place' = [place EXCEPT ![t] = "none", ![p] = "running"]
      /\ stack' = [stack EXCEPT ![h] = Append(Front(@), p)]
      /\ Forget(t)
      /\ UNCHANGED synchronized

\* Sync() returns in the thread of the coroutine that called it.
EndSynced(h, t) ==
  LET p == parent[t]
      caller == CHOOSE c \in Threads : p \in Range(stack[c])
  IN  /\ Runs(h, t)
      /\ p \in Tasks
      /\ place[p] = "syncing"
      /\ synchronized' = [synchronized EXCEPT ![caller] = FALSE]
      /\ place' = [LeftBy(h, [place EXCEPT ![t] = "none"]) EXCEPT ![p] = "running"]
      /\ stack' = [stack EXCEPT ![h] = Front(@)]
      /\ Forget(t)
      /\ UNCHANGED g

\* The communication thread goes on after the callback it has run.
EndInline(h, t) ==
  /\ Runs(h, t)
  /\ parent[t] \in Comms
  /\ place' = LeftBy(h, [place EXCEPT ![t] = "none"])
  /\ stack' = [stack EXCEPT ![h] = Front(@)]
  /\ Forget(t)
  /\ UNCHANGED <<g, synchronized>>

-----------------------------------------------------------------------------

Callback(h) ==
  \E t \in Tasks, m \in Modules :
    \/ DeliverInline(h, t, m) \/ ServeInline(h, t, m)
    \/ \E e \in Executors : Deliver(h, t, m, e) \/ Serve(h, t, m, e)

UserCode(h) ==
  \E t \in Tasks :
    \/ Yield(h, t) \/ Sleep(h, t) \/ Park(h, t)
    \/ \E u \in Tasks \ {t} : Await(h, t, u) \/ Sync(h, t, u) \/ Wake(h, t, u)
    \/ \E u \in Tasks \ {t}, e \in Executors : Post(h, t, u, e)

Finish(h) == \E t \in Tasks : \/ End(h, t) \/ EndInline(h, t)
                             \/ EndAwaited(h, t) \/ EndSynced(h, t)

Next == \/ \E h \in Comms : Callback(h)
        \/ \E h \in Threads : UserCode(h) \/ Finish(h)
        \/ \E x \in Workers, t \in Tasks : Run(x, t)

Spec == Init /\ [][Next]_vars

-----------------------------------------------------------------------------
(* Properties                                                              *)

Places == {"none", "queued", "running", "awaiting", "syncing", "waking", "parked"}

\* Types; and each coroutine is on one stack, once, exactly if it is running
\* or has called something that runs another one in place.
TypeOK ==
  /\ g \in [Threads -> Contexts]
  /\ synchronized \in [Threads -> BOOLEAN]
  /\ stack \in [Threads -> Seq(Tasks)]
  /\ place \in [Tasks -> Places]
  /\ at \in [Tasks -> Executors \cup {None}]
  /\ own \in [Tasks -> Contexts]
  /\ home \in [Tasks -> Contexts]
  /\ parent \in [Tasks -> Tasks \cup Comms \cup {None}]
  /\ stale \in [Tasks -> Contexts \cup {None}]
  /\ \A h \in Threads : IsInjective(stack[h])
  /\ \A t \in Tasks :
       Cardinality({h \in Threads : t \in Range(stack[h])})
         = IF place[t] \in {"running", "syncing", "waking"} THEN 1 ELSE 0

\* The user code of a module never acts on behalf of another module, although
\* workers switch between coroutines of all of them at every co_await.
ModuleIsolation ==
  \A h \in Threads, t \in Tasks : Runs(h, t) => g[h].ctx = home[t].ctx

\* ctx::exe() without an argument "defaults to the executor it currently is
\* on": the executor of the thread context is that of the worker.
DefaultExecutorIsCurrent ==
  \A x \in Workers, t \in Tasks : Runs(x, t) => g[x].exe = ExecutorOf[x]

\* Code that runs in a coroutine finds the executor of that coroutine: "the
\* context that the code in the coroutine will use" (coroutine.h:119).
OwnExecutorByDefault ==
  \A x \in Workers, t \in Tasks : Runs(x, t) => g[x].exe = home[t].exe
=============================================================================
