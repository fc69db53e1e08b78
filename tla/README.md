# A TLA+ model of AimRTe

AimRTe is a C++20 layer over the AimRT robotics runtime.  A program is a set of
modules; each module gets a *context* through which it uses executors, channels
(publish and subscribe), services (call and serve), logging and configuration.
User code is written as coroutines (`co::Task`) that executors run, and
synchronizes with coroutine mutexes and condition variables.

This directory holds specifications of the parts whose correctness depends on
interleavings, on stacks of resumed coroutines, on state that is read later than
it was right, on failures and crashes between steps, and on long sequences of
edits, with TLC runs that check them on small instances and proofs
of the most important results.

* [Inventory](#inventory)
* [The modules and the code](#the-modules-and-the-code)
* [Runs](#runs)
* [Proofs](#proofs)
* [What is assumed](#what-is-assumed)
* [Where the code and its documents disagree](#where-the-code-and-its-documents-disagree)
* [Plan](#plan)
* [Not modelled](#not-modelled)

Paths are relative to the repository's `src/` unless they say otherwise.

## Inventory

| part | state it keeps | operations | hard about it | what makes it correct |
|---|---|---|---|---|
| `sync::Mutex` (`sync/mutex.*`) | `state_`: unlocked, locked, or the top of a stack of awaiters; `awaiter_`: the holder's FIFO list | `Lock`, `ScopedLock`, `TryLock`, `Unlock` | lock-free pushes race with the exchange and the last compare-and-exchange of `Unlock()`; the next holder runs inside `Unlock()` | one holder, no awaiter lost, first come first served, handed over |
| `sync::ConditionVariable` (`sync/condition_variable.h`) | `awaiter_`: a stack of awaiters that live in coroutine frames | `Wait`, `Wait(pred)`, `NotifyOne`, `NotifyAll` | awaiters are published before the mutex is unlocked; links are read in frames that may be gone | a notification wakes exactly whom it should; conditions are tested under the mutex |
| `co::Task` and the thread context (`core/coroutine.h`, `core/details/thread_context.h`, `core/context/op_exe.*`, `ctx/run.*`) | thread-local: module, executor, rpc context, `synchronized`; per coroutine: a copy of it | creation, resumption, `Sync`, `Post`, `Inline`, `Yield`, `Sleep`, callbacks | every thread runs coroutines of every module; coroutines move between threads and run on each other's stacks | code runs on behalf of its module, and on its executor |
| `ctx::Loop` (`ctx/loop.*`) | period, time point | `Ok` | arithmetic on clocks with late wake-ups | the rate |
| `core::Context` (`core/context*`) | id, vectors of executors, channels, services; async scope; `is_ok_` | `Init*`, `LetMe`, `RequireToShutdown`, the `Op*` objects | registration against callbacks; destruction against running coroutines | identifiers lead to what they were made for; no callback after the end |
| `sync::SpinMutex` | `locked_` | `Lock`, `Unlock` | spins on the thread the holder may need | exclusion, progress |
| `sync::Condition`, `sync::Barrier` | value, failed, behind a `std::mutex`; count | `Wait`, `Satisfy`, `Fail`, `Init` | re-initialisation against slow waiters | satisfied waiters return |
| `sync::any` (`sync/any.h`) | `used`, the result, `inline_resume`, shared by the tasks and the coroutine that awaits them | `Via`, `In`, await | tasks end, in place or on threads, while `await_suspend()` still reads the frame of the coroutine | the first wins, the coroutine goes on once, and in the end |
| `sync::AtomData` | a value with a time | `Set`, `Get`, `GetAndClear` | check and act in two steps | one consumer per value |
| `module_test_controller` (`test/`) | stage, two threads, six conditions | `LetInit` ... `LetEnd` | handshakes among three threads | the module is stopped where the stage says |
| module life cycle, program (`module/module_base.*`, `program/`, `runtime/`) | `g_core_ptr`, the AimRT core, the contexts, `global_logger` | `Run`, signals, shutdown timer | a signal or the timer during exit; an exception half way | whoever uses the core finds it; contexts go first; the program ends |
| configuration (`module/cfg*`) | YAML documents | composition, defaults, patches, dump | five sources in a row edit lists by name, by tags that combine | precedence of sources; a patch changes what it names |
| database (`database/`) | a wrapped key file, a database, an encrypted copy; a SQLite handle | encrypt, decrypt; SQL operations | a failure or a crash between file operations, and another try | no row lost; the file can be opened |
| monitor plugin and example (`../plugin/`) | a wheel of workers; statistics of topics | add, run; feed, calculate | a priority queue with mutable keys; initialisation against feeders | workers run when due |
| trace, hds, sys, utils, prelude, convert, match, macro | none or little | values, formatting, system calls | little | unit tests reach it |

How they interact: a message or request arrives on a thread of AimRT; the
callback that `Context` has registered sets the thread context and creates the
user's coroutine, which it posts to an executor or runs at once.  Coroutines
call `ctx::exe()`, `Publish()`, `Call()`, which take the module and the executor
from the thread context, and wait for each other through `sync::`.
`resume()` is an ordinary call, so that whoever unlocks or notifies runs the
other coroutine on its own stack.

## The modules and the code

**`Mutex`** is `sync::v2::Mutex`, at the grain of its atomic operations:
`LoadToLock`, `LockCas`, `PushCas`, `LockCasFails` are the loop of
`LockAndSuspend()`, `HandOver` to `HandOverTaken` are `Unlock()`, including each
turn of the loop that reverses the stack.  `state_`, `awaiter_` and `next_` are
the fields of the same names; `seen`, `curr`, `rest` are locals.  A weak
compare-and-exchange may fail for no reason.  `host[u]` is the user in whose
`Unlock()` the coroutine `u` runs; that user goes on when `u` suspends or ends
(`Leave`, `PushCas`).  Users in `Blocking` lock with `lock()`, that is
`Lock().Sync()`: they are resumed on their own thread.

**`HandoverLock`** and **`FifoLock`** say what a mutex promises.  A `HandoverLock`
is given to one of the waiters and let go only when nobody waits; a `FifoLock`
serves waiters in the order in which they were queued.  `Mutex` implements both:
the queue is what the lists lead to, in the order of service (`WaitingOrder`), the
only order that fits the links of both lists.

**`ConditionVariable`** is `sync::ConditionVariable` with its users, over
`FifoLock` (which `Mutex` implements).  Waiters run
`lock = co_await m.ScopedLock(); co_await cv.Wait(lock, pred)`, notifiers raise
the flag and notify, with the mutex if `HoldLock`.  Awaiters are memory:
`frame[w]` is the frame of the `Wait()` that `w` is in, and a frame given back
can be given to a later `Wait()`; `next_` and `continuation_` belong to the
frame.  The awaiter itself is a temporary of line 80 and has ended when `Wait()`
comes to `Lock()` on line 81: with `SlotReused`, whatever that line keeps in the
frame may lie where the link was (`LinksAtLock`).  `Push` publishes the awaiter and `UnlockInSuspend` unlocks later, as
`await_suspend()` does: its `tail` outlives the suspension.

**`TaskContext`** is `g_thread_ctx` and everything that writes it.  `g[h]` is the
context of thread `h`; `own[t]` is `Promise::ctx_`, recorded by `Create`;
`home[t]` is no state of the code: it is the module and executor on whose behalf
the coroutine was created, against which the properties compare.  `stack[h]` is
what the thread is in the middle of.  The callbacks of `op_sub.inl` and
`op_srv.inl` are actions, with and without an executor; for a handler, `stale[t]`
is the context its wrapper coroutine has and restores at the end.  The actions
of user code are `Post`, `Await`, `Sync`, `Yield`, `Sleep`, and `Park` and `Wake`
for anything that suspends a coroutine until another resumes it.  `Wake` runs it
on the thread of the coroutine that resumes it, of whatever executor.
`Liberties` names what user code may do beyond the plain things: post to another
executor than its own, wait in a service handler, share a mutex among the
executors of a module, share one among modules.  `ModuleIsolation` survives the
first and the third (`ModulesAreIsolated`); `context_post`,
`MCTaskContextHandlers.cfg` and `MCTaskContextShared.cfg` show what does not
survive which.

**`Loop`** is `ctx::Loop::Ok()` in discrete time, relative to the present, so that
no clock grows.

**`Any`** is `await_suspend()` of `sync::any`, task by task, against the tasks it
has spawned.  `via` and `own` say where each task runs: with an executor of its
own, on that of the coroutine, elsewhere, or in place, in which case it holds up
`await_suspend()` until it ends or suspends (`Stray`).  `thread` says whether the
coroutine that awaits runs on a thread of its executor: `OpExe::Inline()` runs it
on that of its caller, and `Mutex::Unlock()` on that of whoever unlocks, so that
the executor is free to resume it meanwhile (`ThreadFree`).  `used`, `result` and
`inline_resume` are the members of `any::Context`; `End` is `TryResume()`, `Store`
is `SetResultAndResume()`, and other tasks may end between the two.  `stale` is
raised when `await_suspend()` reads the object after the coroutine has gone on.

**`Program`** is `aimrte::Run()` from the creation of the core on, with
`ModuleBase` and `~Context()`.  `main` is where `Run()` is; `handler` is
`SignalHandler()` on top of it, on the same thread; `timer` is the `jthread` of
`--shutdown_after_seconds`, whose test of `g_core_ptr` and use of it are two
steps.  `core` and `stopper` stand for AimRT.  A second signal comes after the
handler of the first has returned.  The coroutines of a module's
context are posted (`CoroutineStarts`) and end (`CoroutinesEnd`) at any moment
while the core is up.

**`ConfigProcessor`** is `DumpFile()`: `MergeListNode()`, which removes items from
the list it walks over, the reflection of the result into the structures of the
program, which refuses unknown types (`Reflect`), `InjectDefaultCfg()`, then the
patches before, of, and after the external file.  Which defaults a list gets, and
how, is the constant `Defaults`, a sequence of steps: `|=` looks first
(`AddIfAbsent`), `=` and `+=` append without a look (`AddAtBack`: the monitor
backend), `insert()` puts in front (`AddAtFront`: topics), `Visit()` changes the
first item of a type (`VisitFirst`); each can be switched off in the
configuration of the system.  `Pushed` are the names of which the second and the
third way can make another item.  An item is a name and fields, and the value of a
field is the rank of the source that set it, which is what precedence is about.
A tag is the set of its words; `Modes` and `BadTag` are `AnalyzePatchMode()`, and
the patch actions are the branches of `PatchListNode()` in the order of the code.

**`DatabaseSecurity`** is `encrypt_db()`, one action per effect on the three files
involved, and `decrypt_db()`.  `SELECT 1` (`"probe"`) may fail on any database, for
any reason, and is then taken for the sign of an encrypted one
(`NoticeEncrypted`); it may also succeed on any (`NoticeNothing`).  Every other
call of the system may fail (`Fail`), and the process or the machine may stop
between any two effects (`Crash`), after which the application tries again.  Ciphers are abstract: a file opens under its key.

A `...Proofs` module holds the theorems about a module.  An `MC` module holds what
TLC needs beside model values.  Definitions whose
comment starts with "Mutant" are not part of the specification: each is the form
a definition takes with a plausible mistake, and the property it is meant for
fails with it, which shows that the property depends on that line of the code.

## Runs

| run | instance | checks |
|---|---|---|
| `mutex` | 4 users, one of them blocking | `TypeOK`, `MutualExclusion`, `UnlockAsserts`, `NoLostWaiter`; `FirstComeFirstServed` and `NoForgottenWaiter` (the refinements) |
| `mutex_live` | 3 users, no symmetry | `QueuedGetsLock`, `SomebodyGetsLock` |
| `condvar` | 2 waiters, 2 notifiers with the mutex, 2 frames | `TypeOK`, `TestsUnderLock`, `NotifyAllWakesAll`, `NotifyOneWakesOne`, `ReadsLiveFrames`, `NoLostWaiter`, `TakenTestsAgain` |
| `condvar_unlocked` | the same, without the mutex | `NotifyAllWakesAll` fails |
| `context` | 2 modules, a single-threaded executor and a worker of a pool, a communication thread, 3 coroutines | `TypeOK`, `ModuleIsolation`, `DefaultExecutorIsCurrent` |
| `context_post` | the same, posting to other executors | `DefaultExecutorIsCurrent` fails |
| `loop` | period 6, work up to 8, late by up to 3 | `TypeOK`, `NeverSlow` |
| `any` | 3 tasks, an executor with one thread, awaited on it or on another | `TypeOK`, `ReadsLiveFrame`, `FirstWins`, `AnyResumes` |
| `program` | 2 modules, 2 signals, with and without the timer | `TypeOK`, `CallsFindCore`, `ContextsCloseInOrder`, `LoggerIsLive`, `ShutsDown` |
| `config` | 3 names, one of them unknown to the program, 4 defaults, one of each way, 1 field, 16 tags, 2 patch items | `TypeOK`, `UniqueNames`, `ExternalDecides`, `PatchIsLocal`, `LaterSourceWins` |
| `database` | 2 rows, 2 sources of the fingerprint, 3 encryptions, 2 crashes | `TypeOK`, `NoRowLost`, `CarefulEncryptIsReadable`, `RemovedWhenCopied` |
| `database_again` | 1 row, 1 source, 2 encryptions, no crash | `EncryptedIsReadable` fails |

More instances are here to be run by hand, with the module that the name begins
with (`MC...` where there is one).  Each shows one thing that the runs leave out,
by a theorem's condition or by an exception that a property makes; the numbers
are those of the list [below](#where-the-code-and-its-documents-disagree).

| instance | what is different | checks |
|---|---|---|
| `MCConditionVariableSlot.cfg` | with the mutex, and the memory of ended awaiters used | `NotifyAllWakesAll` fails (2) |
| `MCConditionVariableFree.cfg` | without the mutex, that memory used, 1 notifier | `TestsUnderLock` holds |
| `MCTaskContextElsewhere.cfg` | 2 coroutines that post to other executors and share mutexes across them | `ModuleIsolation` holds |
| `MCTaskContextShared.cfg` | mutexes shared across executors | `OwnExecutorByDefault` fails (4) |
| `MCTaskContextHandlers.cfg` | service handlers that wait | `ModuleIsolation` fails (5) |
| `MCAnyInline.cfg` | 2 tasks | `AlwaysResumes` fails (6) |
| `MCConfigProcessorTwice.cfg` | the defaults of `channel.backends` only, 1 patch item | `DeletedIsGone` fails (7) |
| `MCDatabaseSecurityProbe.cfg` | 1 row, 1 encryption, no crash | `NoticedIsEncrypted` fails (9) |
| `MCLoopRate.cfg` | an executor that is never late | `NeverFast` fails (10) |

Why the bounds are enough to meet the interesting cases:

* Mutex: with four users the holder can have two awaiters in its FIFO list while
  another is pushed on the stack, and a user can load a head that is taken and
  pushed again before its exchange.
* Condition variable: two waiters make a list with a link; two frames are as
  many as can be in use at once, so that a frame given back is the next one
  taken, in either order.
* Thread context: with three coroutines one can wait for a second while a third
  is resumed on top of it, by either module; two executors are what it takes to
  be on the wrong one.  The second worker stands for a pool: which of its threads
  runs a coroutine makes no difference to the thread context.
* Loop: the work of a cycle may take nothing, less than the period, or more.
* Any: with three tasks two can end between the victory of one and its result,
  and one can have won before the next is spawned.  All combinations of places
  are initial states.
* Program: two modules are initialized and shut down in turn, so that one can be
  down and the other not; a second signal meets a shutdown under way.
* Configuration: lists of all lengths up to three in every order; one name is pushed
  in front and at the back, one is added if absent and visited, one is refused; a
  patch item can meet what an earlier one, of the same or an earlier source, has left.
* Database: a third call meets what a second has made of the remains of a first;
  with two crashes each of two calls can be cut short.

Deadlock is not checked in `program`, where a process ends, nor in `config`, where
a configuration is done or refused, nor in the `context` runs, where user code can wait for ever:
coroutines may wait for nobody, and `Sleep().Sync()` on a single-threaded
executor blocks its only thread.  All other passing runs check it.

**Fairness.**  `mutex_live` and `condvar` assume weak fairness of each user's
steps once it has asked for the lock: its executor runs it, and critical sections
end.  Nobody is obliged to start.  For the mutex, the compare-and-exchange of
`Unlock()` that is possible again and again succeeds some time, and if locking a
free mutex is possible again and again somebody's succeeds (strong fairness of
`UnlockCas`, and of `LockCas` of all users together): a weak compare-and-exchange
may fail spuriously, but not for ever.  A user that has not been queued has no guarantee of its own: it can be
overtaken for ever by newcomers, which is why `QueuedGetsLock` is about those in
the queue and `SomebodyGetsLock` about everybody.

`any` assumes weak fairness of `await_suspend()`, of the executor of the coroutine
and of each task, which is that executors run what they are given and that the
tasks end.  `program` assumes it of the main thread, of the core's shutdown, of the timer
(seconds pass) and of the handler: threads are scheduled.  No signal need come,
nothing need fail, and a coroutine may wait for ever: `ShutsDown` names that case.

## Proofs

Every safety invariant and action property that a passing run checks is also a
theorem, for every value of the constants, and so are the two refinements of
`Mutex`.  Each `...Proofs` module extends the module it is about, names the
inductive invariant and its parts, proves that every action keeps it, and draws
the theorems from it.

| module | theorem | property | under |
|---|---|---|---|
| `MutexProofs` | `Invariance`, `WaitersAreOrdered` | the inductive invariants | |
| | `TypeCorrect`, `Exclusion`, `AssertsHold` | `TypeOK`, `MutualExclusion`, `UnlockAsserts` | |
| | `NobodyIsLost` | `NoLostWaiter` | |
| | `ImplementsFifoLock`, `ImplementsHandoverLock` | `FirstComeFirstServed`, `NoForgottenWaiter` | |
| | `SomebodyHolds`, `PlacesMoveUp` | who waits, waits for a holder; each handover brings every waiter one place nearer | |
| `ConditionVariableProofs` | `CVInvariant` | the inductive invariant | `HoldLock`, `~SlotReused` |
| | `ResumesSuspendedOnly`, `LinksReadInLiveFrames` | `TypeOK`, `ReadsLiveFrames` | `HoldLock`, `~SlotReused` |
| | `AllAreWoken`, `OneIsWoken`, `NobodyIsLost` | `NotifyAllWakesAll`, `NotifyOneWakesOne`, `NoLostWaiter` | `HoldLock`, `~SlotReused` |
| | `PredicateUnderLock` | `TestsUnderLock` | |
| | `SomebodyCanGoOn` | as long as anybody waits for the mutex or to be resumed, somebody can take a step | `HoldLock`, `~SlotReused` |
| `TaskContextProofs` | `StackInvariant`, `ContextTypes` | the invariant of stacks, `TypeOK` | |
| | `ModulesAreIsolated` | `ModuleIsolation` | no service handler waits, and modules share nothing to wait for |
| | `ExecutorInvariant`, `DefaultIsCurrent` | the invariant of executors, `DefaultExecutorIsCurrent` | no liberties |
| `AnyProofs` | `AnyTypes`, `ResultOfTheFirst`, `NeverResumedTwice` | `TypeOK`, `FirstWins`, and that the coroutine goes on once | |
| | `SomebodyCanGoOn`, `EveryStepCounts` | until the coroutine goes on, some step is possible and each brings something further, but for the failure `AnyResumes` names | |
| | `SingleThreadReadsLiveFrame` | `ReadsLiveFrame` | `Threads = 1` |
| `ProgramProofs` | `ProgramInvariant`, `ProgramTypes` | the inductive invariant, `TypeOK` | |
| | `CoreOutlivesCalls`, `ContextsBeforeCore`, `LoggerBeforeCore` | `CallsFindCore`, `ContextsCloseInOrder`, `LoggerIsLive` | |
| | `NoOtherCrash` | the two ways in which the process can die of its own | |
| | `NothingIsUndone`, `EveryStepCounts` | the life of Run(), timer, core and modules goes one way, and each step of a thread brings it further | |
| | `SomebodyCanGoOn` | the threads never all wait for each other, but for the failures `ShutsDown` names | |
| `ConfigProcessorProofs` | `ConfigInvariant`, `TypeCorrect`, `NamesStayUnique` | the inductive invariant, `TypeOK`, `UniqueNames` | |
| | `ExternalFileDecides`, `PatchesAreLocal`, `LaterSourcesWin` | `ExternalDecides`, `PatchIsLocal`, `LaterSourceWins` | |
| `DatabaseSecurityProofs` | `SecurityInvariant`, `SecurityTypes`, `RowsSurvive` | the inductive invariant, `TypeOK`, `NoRowLost` | |
| | `TrueIsReadable`, `RemovalIsSafe` | `CarefulEncryptIsReadable`, `RemovedWhenCopied` | |
| `LoopProofs` | `LoopTypes`, `NoSleepOnTopOfWork` | `TypeOK`, `NeverSlow` | |

The conditions in the last column are those of the runs, and TLC shows that they
are needed: without `HoldLock`, `condvar_unlocked`; with `SlotReused`,
`MCConditionVariableSlot.cfg`; with liberties, `context_post` and
`MCTaskContextHandlers.cfg`, as it is and with `"modules_share"` instead; with two
threads, `MCAny.cfg` with `Threads = 2`.  Three properties name their conditions
themselves: `ReadsLiveFrame` is about the executor's own thread, `UniqueNames` and
`LaterSourceWins` are about names that no default pushes.

### How the arguments go

**`Mutex`.**  Exclusion alone is not inductive: that a handover reaches a suspended
awaiter depends on the lists.  `MutexInv` adds that each pointer of the structure
(`state_`, `awaiter_`, the links of queued awaiters, the locals of the reversal)
leads to a queued user or nowhere (`PointsToQueued`), that no two of them lead to
the same one (`NoSharing`), that every queued awaiter is led to by one
(`Reached`), that the holder's list is empty where `Unlock()` has found it so
(`ListEmpty`), and how hosts relate to places (`HostsWait`).

`Reached` allows a cycle of awaiters that lead to each other and that no list
leads to.  What excludes it is the second invariant, `InOrder`: there is a
sequence of the queued users, each once, that one gets by following the holder's
list forwards and the stack backwards (`IsWaitingOrder`; during the reversal, the
part that is reversed and the part that is not).  Such a sequence is unique
(`OneOrder`): two readings of a pointer agree position by position, and end
together.  Hence `WaitingOrder`, which the refinement mapping chooses, is that
sequence (`TheOrder`), and each action does to it what it does to the queue of a
`FifoLock`: a successful push appends (`PushCasOrder`), a handover removes the
first (`ResumeOrder`), and taking the stack and reversing it do nothing
(`TakeStackOrder`, `ReverseOneOrder`).  `ConditionVariable` uses the mutex as a
`FifoLock`; that it may, for any number of users, is `ImplementsFifoLock`.

`QueuedGetsLock` rests on two facts that need no fairness.  A waiter always has a
holder to wait for (`SomebodyHolds`): each step is one of the abstract lock, and
none of those empties the holder's place while the queue is not empty.  And
nobody is put before a waiter (`PlacesMoveUp`): `WaitingOrder` changes at its ends
only, and at the front only as the mutex is handed over.

**`ConditionVariable`.**  With the mutex held over `Notify()`, and the memory of
awaiters left alone until it is held again, nothing the loop reads can change
between its steps.  `CVInv` says who owns the mutex where
(`LockedWhileInside`), who is in its queue (`QueueOfLocking`), that a caller of
`resume()` has one guest (`OneGuest`), and that a frame belongs to one `Wait()`
(`FramesOwned`); that the published list and those which notifiers have taken
(`Pending`) have suspended coroutines only, no cycle, and nothing in common
(`Lists`), and together everybody who is suspended (`Covered`); and where
`Notify()` is with what it has loaded (`Walk`, `Counts`).  The list at a frame is
the least set that holds it and is closed under links (`Chain`), so that what a
step does to a list follows from which links it writes (`ChainKept`,
`ChainUnfolds`), without induction.

Without one of the two, links change under a `Notify()` and the list may be
anything, up to a notifier that resumes a coroutine which is not suspended there
and goes no further (`"undefined"`).  `PredicateUnderLock` holds all the same, by a
second invariant that does not speak of frames and links: `CallsInv` says who owns
the mutex (`OwnersInside`), who is in its queue (`GoodQueue`), and that a caller of
`resume()` waits for one guest (`Calls`).

`SomebodyCanGoOn` is what `TakenTestsAgain` rests on.  Whoever owns the mutex is on
the way to its `Unlock()` (`OwnerInv`): a waiter that tests or pushes, one whose
lambda has returned, or a notifier inside `Notify()`.  A notifier that is inside
can go on itself or is in `resume()`, and then the waiter it has resumed can: it is
about to lock, queues and gives the stack back.
The next `Wait()` needs memory for its frame; without, the theorem says nothing.

**`TaskContext`.**  In three layers.  `StackInv` holds whatever user code does: each
coroutine that runs has one spot on one stack, it waits for exactly one other, and
what lies above a `Sync()` is of the family that this waits for.  `ModuleInv`
follows from it where no service handler waits and coroutines that wait for each
other are of one module, on whatever executors: the module of a thread is that of
everything the thread is in the middle of.  `ExecutorInv` says the same of
executors, if user code neither posts to another one nor shares with it.

**`Any`.**  Who has won decides: `used` lets one task through, until it has
stored its result nobody holds a continuation, and from then on nobody can win
(`OneWinner`, `ResultComesFirst`, `HandedOutOnce`).

What `AnyResumes` rests on: tasks are spawned in order (`SpawnedInOrder`), so that
the first exists once spawning is over, and the continuation is kept until
somebody has handed it out (`ContinuationIsKept`).  A thread of the executor that is
not free runs a task that can go on.  `EveryStepCounts` bounds the steps: a task
that strays starts a second time, but only once.

**`Program`.**  Whoever performs `Shutdown()` is in a call that `Run()` cannot
overtake (`StopperIsBusy`): the handler is on top of it, the timer is joined, and
`Run()` itself waits.  `EndInOrder` and `CoreGoesLast` carry this to the end.

`ShutsDown` itself stays with TLC, but what it rests on is proved.
`SomebodyCanGoOn` is freedom from deadlock: from the moment somebody is told to
shut the program down until `Run()` has returned, one of the guards holds of the
main thread (`MainCan`), the core's shutdown (`CoreCan`), the timer (`TimerCan`) or
the handler (`HandlerCan`), unless the process has died, a signal came after
`g_core_ptr` was cleared (`LateSignal`), or a coroutine was left in the scope of its
context (`LeftInScope`).  No other failure need be named, for any number of modules.
It needs that asking is heard (`AskingIsHeard`) and that the modules start in step,
so that there is a first that has not (`FirstModule`).  By `NothingIsUndone` and
`EveryStepCounts` the threads can take only so many steps between two signals.  What
is left to TLC is that weak fairness makes the thread that can go on do so.

**`ConfigProcessor`.**  Each operation on a list is described by what is where
afterwards (`RemoveAtIs`, `PushFrontIs`) and then as a change of the item of one
name, all others being moved in their order (`Moved`, `Changed`), a relation that
composes (`ChangedTwice`).  Each action is one such change (`OneItemChanges`), and
the properties follow from that.  `ConfigInv` adds how far merging and pruning
have come (`Merging`, `Pruning`) and the last source that can have set a field
(`FieldsUpTo`).  What the properties say of an item is said of names that are not
in `Pushed`: only those have one item by which to find them.

**`DatabaseSecurity`.**  `SecurityInv` says what is in the three files at each place
of `encrypt_db()`.  As a call may stop anywhere, it says so for every place a next
call can start from.  What the code gets wrong is in the variable `careless`,
which is raised by a call on a database whose key is in use; `InGoodHands`
is about all others.

**`Loop`.**  Where the time since `tp_` has gone (`Account`): what was left when the
sleep began, and what has been slept.

### What the proofs take from the constants

Each module states its assumptions by name; TLC evaluates them in the runs.  They
keep the values that stand for nothing (`Null`, `None`, `NoFile`, `Unlocked`) apart
from users, tasks and files, and make bounds natural numbers.  `Waiters` and
`Notifiers` are different users, workers and communication threads different
threads.  Sets may be infinite, except `Workers` (threads of a process) and `Names`
(the items of a file); numbers of calls, crashes, signals and patch items have any
bound.

### What is model-checked only

Liveness, which is beyond the prover: `QueuedGetsLock`, `SomebodyGetsLock`,
`TakenTestsAgain`, `AnyResumes` and `ShutsDown`.  What they rest on is proved, as
theorems about guards and steps (`SomebodyHolds`, `PlacesMoveUp`, three times
`SomebodyCanGoOn`, `EveryStepCounts`); the guards are written out, since `ENABLED` is
beyond the prover as well.  That fairness turns these into progress is left to
TLC.  So is the disagreement that each run with an expected violation shows.

## What is assumed

* `std::coroutine_handle::resume()` runs the coroutine in place until it suspends
  or ends, and a coroutine awaiting one of AimRTe's awaiters is resumed where
  `resume()` is called: the underlying task type adds no rescheduling.
* Atomics are sequentially consistent.  The code orders the accesses that matter
  with acquire and release; the model does not show that these suffice.
* A frame of `Wait()` stays readable until it is reused, and an ended awaiter
  keeps its link unless `SlotReused`.  Where the code reads what has ended these
  assumptions are in its favour.  A link overwritten is a link to any frame or to
  none, where the hardware could fault.
* Executors run what is queued, in any order; a single-threaded executor runs one
  coroutine at a time.  Messages are delivered on threads of AimRT, not within
  `Publish()`.
* In `context`, coroutines that wait for each other belong to one module and one
  executor.  Across executors the waiter runs on the thread of whoever resumes
  it, beside the coroutines of its own executor: nothing in the code says that it
  should not, so no property does.
* Callbacks without an executor do not wait for other coroutines.
* AimRT initializes and starts modules one after the other.  `Start()` returns
  when `Shutdown()` has been called; the first caller performs the shutdown, once
  no module is being started, and any other returns at once.
* A signal is delivered on the main thread; a signal raised within its handler is
  delivered when that returns.
* SQLite commits are durable, and the file system keeps the order of a removal
  and a renaming.  `SELECT 1` may fail or not, on any database.
* The executor that resumes `sync::any` has one thread in `any`.  With two
  (`MCAny.cfg` with `Threads = 2`), `ReadsLiveFrame` is violated, and so it would be
  for one thread without the exception it makes: the continuation can run, and
  end, while `await_suspend()` is still spawning on another thread
  (`sync/any.h:160`).

## Where the code and its documents disagree

1. `NotifyAll()` "tries to wake all waiters" (`sync/condition_variable.h:48`), but
   `Notify()` reads `head->next_` after having resumed `head`.  Without the mutex,
   as in the tests, the waiter can be through `Wait()` by then; its frame is gone,
   and another `Wait()` in the same memory holds another link.  The rest of the
   list is forgotten (`condvar_unlocked`).
2. With the mutex, the resumed waiter is stopped at `Lock()` and the frame stays,
   but the awaiter in it has ended with line 80.  If line 81 uses its memory, the
   rest of the list is forgotten too (`MCConditionVariableSlot.cfg`); if not, all
   properties hold.
3. `ctx::exe()` "defaults to the executor it is currently on" (`ctx/run.h:80`), but
   `OpExe::Post()` (`core/context/op_exe.inl:35`) leaves the thread context of the
   caller on the executor it has posted to (`context_post`).
4. The code in a coroutine is to find the context of that coroutine
   (`core/coroutine.h:119`).  It is restored for the coroutine that is resumed, not
   for the one that resumes it: after an `Unlock()` (`sync/mutex.cpp:72`) of a mutex
   shared with another executor, the caller goes on with the executor of the
   waiter (`MCTaskContextShared.cfg`).
5. For the same reason, and because the wrapper of a service handler leaves a
   context that belongs to a communication thread
   (`core/context/op_srv.inl:270`), a coroutine whose `Unlock()` has run the end of
   a handler goes on with no context, or with that of another module
   (`MCTaskContextHandlers.cfg`).
6. A task of `any` that is not scheduled "runs to its end here" (`sync/any.h:120`).
   One that suspends and then wins only sets `inline_resume` (line 207), and the
   coroutine is never resumed (`MCAnyInline.cfg`).
7. Patch mode `delete` "removes the field of that name that exists"
   (`module/cfg_processor.h:192`).  A file that names the monitor backend gets a
   second one from `AddMonitorCfg()` (`module/cfg_processor.cpp:172`), and patches
   find the first (`MCConfigProcessorTwice.cfg`).
8. `encrypt_db()` checks "whether it is an encrypted database already"
   (`database/security.cpp:561`) and reports success if so, but it has replaced
   the wrapped key by then: the database can no longer be opened
   (`database_again`).  For the same reason a second try after a crash between the
   removal of the database and the renaming of its copy loses the copy; a try
   after a failed export, on the other hand, loses nothing but always fails, until
   somebody removes the `.enc` file.
9. That check is `SELECT 1`, and any error of it is taken for encryption (line 562):
   a database in clear stays so while the caller is told that it is encrypted
   (`MCDatabaseSecurityProbe.cfg`).
10. `Loop::Ok()` advances its time point by what was left of the period
    (`ctx/loop.cpp:33`), so that the time the work has taken shortens the next
    cycle; the comment above it expects an error only when the executor is late
    (`MCLoopRate.cfg`).
11. The patch mode `merge` "adds" an item that does not exist
    (`module/cfg_processor.h:202`); the code refuses it with a panic
    (`module/cfg_processor.cpp:1120`), as `PatchRefused` has it.

The runs of 1, 3 and 8 are in the first table of [Runs](#runs), the instances of
the others, up to 10, in the second.

What the properties of `Program` and `Any` name as exceptions is what the code
does, though no document contradicts it: a signal after `g_core_ptr` is cleared is
raised for ever (`program/app_mode/app_mode.cpp:52`); the timer reads `g_core_ptr`
again after its test (line 153); after an exception a signal can find the core
destroyed (line 169); `~Context()` waits for ever for a coroutine that the core
has left behind (`core/context.cpp:19`); `await_suspend()` of `any` reads a frame
that is gone when it runs on another thread than that of the executor
(`sync/any.h:160`).

## Plan

Done: `FifoLock`, `HandoverLock`, `Mutex`; `ConditionVariable` over `FifoLock`;
`TaskContext`; `Loop`; `Any`; `Program`; `ConfigProcessor`; `DatabaseSecurity`; and
the proofs of all their safety properties.

What is left to prove:

1. `ConditionVariable` without `HoldLock` or with `SlotReused`: what can still be
   said of the lists.
2. `TaskContext` with the liberties: which part of `ModuleIsolation` survives
   handlers that wait, and mutexes that modules share.

## Not modelled

* `sync::Condition`, two flags behind a `std::mutex` and a
  `std::condition_variable`, and `Barrier`, a counter and a `Condition`: they block
  threads; `SpinMutex`, a flag and `Yield()`, which is modelled; `AtomData`, a value
  behind a shared mutex.  Their hazards are listed with the project.
* The registration of resources of `core::Context`, its mock paths,
  `active_rpc_context` (the third field of the thread context), and `Inline()` on
  an executor other than the current one.
* The test controller and the mocks of `test/`.
* The SQL layer and the cryptography of `database/`; of the configuration, the
  reflection of structures into YAML and what each default contains; the command
  line and the package mode of `program/`.
* `trace`, `hds`, `prelude`, `convert`, `match`, `container`: sequential or compile
  time, within reach of unit tests.  `sys`, `utils`, `minidump`, `panic`,
  `dynamic_lib`: system calls.  `v1::Mutex`, a wrapper of another library.
* `macro/invoke.h` and `macro/argument.h`, generated tables of preprocessor macros,
  and `private/backward/`, a vendored stack tracer, are half of the lines of the
  repository and hold no state of the system; protocols, plugins, examples and
  tools are beside it.
