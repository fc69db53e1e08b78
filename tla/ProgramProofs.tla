----------------------------- MODULE ProgramProofs -----------------------------
(***************************************************************************)
(* Proofs about Program, for any number of modules and signals.            *)
(*                                                                         *)
(* The end of Run() is safe because of what its thread has to get past:    *)
(* whoever performs Shutdown() is in a call that Run() cannot overtake.    *)
(* The handler is on top of it, the timer is joined, and Run() itself      *)
(* waits.                                                                  *)
(***************************************************************************)
EXTENDS Program, TLAPS, WellFoundedInduction

\* Run() has not come to its end.
Early == {"initialize", "start"}
Late  == {"join", "contexts", "library", "returned"}

\* The timer is made after the modules, and the handler is registered by the
\* hook that ends the start.
StartedFirst == /\ main = "initialize" => timer = "off"
                /\ main \in Early => ~installed /\ handler = "no" /\ core = "up"

\* While Shutdown() is under way, whoever has called it first is in it.
StopperIsBusy ==
  stopper # Nobody /\ core = "up" =>
    \/ stopper = "timer" /\ timer = "calls"
    \/ stopper = "handler" /\ handler = "calls"
    \/ stopper = "main" /\ main = "clear"

\* Run() gets to its end with Shutdown() called and g_core_ptr cleared, or
\* with an exception; it gets past the timer when that is over.
EndInOrder ==
  /\ main \in {"clear"} \cup Late => stopper # Nobody \/ failed
  /\ main \in Late => ~g_core_ptr \/ failed
  /\ main \in Late \ {"join"} => timer \in {"off", "over"}
  /\ main \in Late \ {"join"} => core # "up" \/ failed
  /\ main \notin Late => ~failed

\* The core goes last, when the modules are gone.
CoreGoesLast ==
  /\ core = "destroyed" <=> main = "returned"
  /\ \A m \in Modules : module[m] = "destroyed" =>
       m \notin running /\ main \in {"contexts", "library", "returned"}
  /\ main \in {"library", "returned"} => \A m \in Modules : module[m] = "destroyed"

\* global_logger belongs to a module that is to be shut down.
LoggerOfAlive == /\ logger # NoLogger => Alive(logger) \/ failed
                 /\ core # "up" => logger = NoLogger \/ failed

ProgramInv == /\ TypeOK
              /\ StartedFirst
              /\ StopperIsBusy
              /\ EndInOrder
              /\ CoreGoesLast
              /\ CallsFindCore
              /\ LoggerOfAlive

\* The process dies of its own in two ways only: Run() has failed, or the timer
\* has found g_core_ptr cleared between its test and its call.
CrashesKnown == crashed => failed \/ timer = "tested"

-----------------------------------------------------------------------------
(* ProgramInv is inductive.                                                *)

LEMMA ModulesAreNotNone == Modules \subseteq Nat \ {NoLogger}
  BY ProgramAssumption DEF Modules, NoLogger

LEMMA InitProgram == Init => ProgramInv
  <1>. SUFFICES ASSUME Init
                PROVE  ProgramInv
    OBVIOUS
  <1>1. TypeOK
    <2>1. signals \in 0..MaxSignals
      BY ProgramAssumption DEF Init
    <2>. QED
      BY <2>1 DEF Init, TypeOK, Nobody
  <1>2. StartedFirst /\ StopperIsBusy /\ EndInOrder /\ CallsFindCore
    BY DEF Init, StartedFirst, StopperIsBusy, EndInOrder, CallsFindCore, Early, Late
  <1>3. CoreGoesLast /\ LoggerOfAlive
    BY DEF Init, CoreGoesLast, LoggerOfAlive
  <1>. QED
    BY <1>1, <1>2, <1>3 DEF ProgramInv

LEMMA NextProgram == ProgramInv /\ [Next]_vars => ProgramInv'
  <1>. SUFFICES ASSUME ProgramInv, [Next]_vars
                PROVE  ProgramInv'
    OBVIOUS
  <1>. USE ModulesAreNotNone
       DEF timers, handling, cores, Main, Nobody, Alive, Early, Late, ProgramInv, TypeOK,
           StartedFirst, StopperIsBusy, EndInOrder, CoreGoesLast, CallsFindCore,
           LoggerOfAlive
  <1>1. ASSUME NEW m \in Modules, InitializeModule(m)
        PROVE  ProgramInv'
    BY <1>1 DEF InitializeModule
  <1>2. CASE Initialized
    BY <1>2 DEF Initialized
  <1>3. ASSUME NEW m \in Modules, StartModule(m)
        PROVE  ProgramInv'
    BY <1>3 DEF StartModule
  <1>4. CASE InstallHandler
    BY <1>4 DEF InstallHandler
  <1>5. CASE Throw
    BY <1>5 DEF Throw
  <1>6. ASSUME NEW m \in Modules, CoroutineStarts(m)
        PROVE  ProgramInv'
    BY <1>6 DEF CoroutineStarts
  <1>7. ASSUME NEW m \in Modules, CoroutinesEnd(m)
        PROVE  ProgramInv'
    BY <1>7 DEF CoroutinesEnd
  <1>8. ASSUME NEW m \in Modules, ShutdownModule(m)
        PROVE  ProgramInv'
    BY <1>8 DEF ShutdownModule, Stopping
  <1>9. ASSUME NEW m \in Modules, ShutdownLostModule(m)
        PROVE  ProgramInv'
    BY <1>9 DEF ShutdownLostModule
  <1>10. CASE CoreDown
    BY <1>10 DEF CoreDown, Stopping
  <1>11. CASE StartReturns
    BY <1>11 DEF StartReturns
  <1>12. CASE MainShutdown
    BY <1>12 DEF MainShutdown, Stop
  <1>13. CASE ClearCorePtr
    BY <1>13 DEF ClearCorePtr, Stopped
  <1>14. CASE JoinTimer
    BY <1>14 DEF JoinTimer
  <1>15. ASSUME NEW m \in Modules, DestroyModule(m)
         PROVE  ProgramInv'
    BY <1>15 DEF DestroyModule
  <1>16. CASE ModulesDestroyed
    BY <1>16 DEF ModulesDestroyed
  <1>17. CASE Return
    BY <1>17 DEF Return
  <1>18. CASE TimerTests
    BY <1>18 DEF TimerTests
  <1>19. CASE TimerCalls
    <2>1. CASE g_core_ptr
      BY <1>19, <2>1 DEF TimerCalls, Stop
    <2>2. CASE ~g_core_ptr
      BY <1>19, <2>2 DEF TimerCalls
    <2>. QED
      BY <2>1, <2>2
  <1>20. CASE TimerReturns
    BY <1>20 DEF TimerReturns, Stopped
  <1>21. CASE Signal
    <2>1. signals' \in 0..MaxSignals
      BY <1>21, ProgramAssumption DEF Signal
    <2>2. main \notin Early
      BY <1>21 DEF Signal
    <2>. QED
      BY <1>21, <2>1, <2>2 DEF Signal
  <1>22. CASE HandlerCalls
    <2>1. CASE core = "destroyed"
      BY <1>22, <2>1 DEF HandlerCalls
    <2>2. CASE core # "destroyed"
      BY <1>22, <2>2 DEF HandlerCalls, Stop
    <2>. QED
      BY <2>1, <2>2
  <1>23. CASE HandlerReturns
    BY <1>23 DEF HandlerReturns, Stopped
  <1>24. CASE HandlerRaises
    BY <1>24 DEF HandlerRaises
  <1>25. CASE SignalAgain
    BY <1>25 DEF SignalAgain
  <1>26. CASE UNCHANGED vars
    BY <1>26 DEF vars
  <1>. HIDE DEF ProgramInv
  <1>. QED
    BY <1>1, <1>2, <1>3, <1>4, <1>5, <1>6, <1>7, <1>8, <1>9, <1>10, <1>11, <1>12, <1>13,
       <1>14, <1>15, <1>16, <1>17, <1>18, <1>19, <1>20, <1>21, <1>22, <1>23, <1>24, <1>25,
       <1>26
    DEF Next, MainStep, CoreStep, TimerStep, HandlerStep

\* The invariant that all results below are read off.
THEOREM ProgramInvariant == Spec => []ProgramInv
  BY InitProgram, NextProgram, PTL DEF Spec

-----------------------------------------------------------------------------
(* What follows.                                                           *)

\* Every variable keeps its type, and no signal is handled before every module
\* has started.
THEOREM ProgramTypes == Spec => []TypeOK
  <1>1. ProgramInv => TypeOK
    BY DEF ProgramInv
  <1>. QED
    BY <1>1, ProgramInvariant, PTL

\* A call of Shutdown() from the timer or the handler is over before Run()
\* destroys the core, unless Run() has failed.
THEOREM CoreOutlivesCalls == Spec => []CallsFindCore
  <1>1. ProgramInv => CallsFindCore
    BY DEF ProgramInv
  <1>. QED
    BY <1>1, ProgramInvariant, PTL

\* Contexts are closed when their coroutines have ended and the core is down,
\* and the core is destroyed after all of them.
THEOREM ContextsBeforeCore == Spec => []ContextsCloseInOrder
  <1>1. ProgramInv => ContextsCloseInOrder
    BY DEF ProgramInv, TypeOK, EndInOrder, CoreGoesLast, ContextsCloseInOrder, Late
  <1>. QED
    BY <1>1, ProgramInvariant, PTL

\* Logging without a context never reaches a logger of a destroyed core, unless
\* Run() has failed.
THEOREM LoggerBeforeCore == Spec => []LoggerIsLive
  <1>1. ProgramInv => LoggerIsLive
    BY DEF ProgramInv, LoggerOfAlive, LoggerIsLive
  <1>. QED
    BY <1>1, ProgramInvariant, PTL

\* The process does not die in Shutdown() in any other way than the two named
\* by CrashesKnown.
THEOREM NoOtherCrash == Spec => []CrashesKnown
  <1>1. Init => CrashesKnown
    BY DEF Init, CrashesKnown
  <1>2. ProgramInv /\ CrashesKnown /\ [Next]_vars => CrashesKnown'
    <2>. SUFFICES ASSUME ProgramInv, CrashesKnown, [Next]_vars, crashed'
                  PROVE  failed' \/ timer' = "tested"
      BY DEF CrashesKnown
    <2>1. CASE crashed
      BY <2>1 DEF CrashesKnown, Next, vars
    <2>2. ASSUME NEW m \in Modules, ShutdownLostModule(m)
          PROVE  failed'
      BY <2>2 DEF ShutdownLostModule, Stopping, ProgramInv, CoreGoesLast, EndInOrder, Late
    <2>3. CASE ~crashed /\ TimerCalls
      BY <2>3 DEF TimerCalls, ProgramInv, TypeOK
    <2>4. CASE ~crashed /\ HandlerCalls
      BY <2>4 DEF HandlerCalls, ProgramInv, CoreGoesLast, EndInOrder, Late
    <2>. QED
      BY <2>1, <2>2, <2>3, <2>4
      DEF Next, MainStep, CoreStep, TimerStep, HandlerStep, vars, timers, handling, cores,
          InitializeModule, Initialized, StartModule, InstallHandler, Throw,
          CoroutineStarts, CoroutinesEnd, ShutdownModule, CoreDown, StartReturns,
          MainShutdown, ClearCorePtr, JoinTimer, DestroyModule, ModulesDestroyed, Return,
          TimerTests, TimerReturns, Signal, HandlerReturns, HandlerRaises, SignalAgain
  <1>. QED
    BY <1>1, <1>2, ProgramInvariant, PTL DEF Spec

-----------------------------------------------------------------------------
(* The way to the end.  ShutsDown is a liveness property; what it rests on is *)
(* that no step goes back, that every step of a thread counts, and that       *)
(* somebody can take one until Run() has returned.                            *)

\* The order of the points each part of the process comes to.
MainAt    == [initialize |-> 0, start |-> 1, serve |-> 2, shutdown |-> 3, clear |-> 4,
              join |-> 5, contexts |-> 6, library |-> 7, returned |-> 8]
TimerAt   == [off |-> 0, sleeps |-> 1, tested |-> 2, calls |-> 3, over |-> 4]
HandlerAt == [entered |-> 0, raises |-> 0, calls |-> 1, no |-> 2]
CoreAt    == [up |-> 0, down |-> 1, destroyed |-> 2]
ModuleAt  == [made |-> 0, initialized |-> 1, started |-> 2, down |-> 3, destroyed |-> 4]

\* Nothing is undone, but that a further signal is handled.
Onwards ==
  /\ MainAt[main] <= MainAt[main']
  /\ TimerAt[timer] <= TimerAt[timer']
  /\ HandlerAt[handler] <= HandlerAt[handler'] \/ signals' = signals + 1
  /\ CoreAt[core] <= CoreAt[core']
  /\ \A m \in Modules : ModuleAt[module[m]] <= ModuleAt[module'[m]]
  /\ g_core_ptr' => g_core_ptr
  /\ stopper # Nobody => stopper' = stopper

\* Something has come further.
Further ==
  \/ MainAt[main] < MainAt[main']
  \/ TimerAt[timer] < TimerAt[timer']
  \/ HandlerAt[handler] < HandlerAt[handler']
  \/ CoreAt[core] < CoreAt[core']
  \/ \E m \in Modules : ModuleAt[module[m]] < ModuleAt[module'[m]]
  \/ crashed'

\* The steps of the threads, without the signal that is raised again and again.
ThreadStep == MainStep \/ CoreStep \/ TimerStep \/ HandlerCalls \/ HandlerReturns

\* Run(), the timer, the core and each module go through their life in one
\* direction, g_core_ptr once cleared is not set again, and who performs
\* Shutdown() does not change.
THEOREM NothingIsUndone == Spec => [][Onwards]_vars
  <1>1. ProgramInv /\ [Next]_vars => [Onwards]_vars
    <2>. SUFFICES ASSUME ProgramInv, Next
                  PROVE  Onwards
      OBVIOUS
    <2>. USE DEF timers, handling, cores, Main, Nobody, Alive, MainAt, TimerAt, HandlerAt,
                 CoreAt, ModuleAt, ProgramInv, TypeOK, CoreGoesLast, Onwards
    <2>1. ASSUME NEW m \in Modules, InitializeModule(m)
          PROVE  Onwards
      BY <2>1 DEF InitializeModule
    <2>2. CASE Initialized
      BY <2>2 DEF Initialized, StartedFirst
    <2>3. ASSUME NEW m \in Modules, StartModule(m)
          PROVE  Onwards
      BY <2>3 DEF StartModule
    <2>4. CASE InstallHandler
      BY <2>4 DEF InstallHandler
    <2>5. CASE Throw
      BY <2>5 DEF Throw
    <2>6. ASSUME NEW m \in Modules, CoroutineStarts(m)
          PROVE  Onwards
      BY <2>6 DEF CoroutineStarts
    <2>7. ASSUME NEW m \in Modules, CoroutinesEnd(m)
          PROVE  Onwards
      BY <2>7 DEF CoroutinesEnd
    <2>8. ASSUME NEW m \in Modules, ShutdownModule(m)
          PROVE  Onwards
      BY <2>8 DEF ShutdownModule
    <2>9. ASSUME NEW m \in Modules, ShutdownLostModule(m)
          PROVE  Onwards
      BY <2>9 DEF ShutdownLostModule
    <2>10. CASE CoreDown
      BY <2>10 DEF CoreDown, Stopping
    <2>11. CASE StartReturns
      BY <2>11 DEF StartReturns
    <2>12. CASE MainShutdown
      BY <2>12 DEF MainShutdown, Stop
    <2>13. CASE ClearCorePtr
      BY <2>13 DEF ClearCorePtr
    <2>14. CASE JoinTimer
      BY <2>14 DEF JoinTimer
    <2>15. ASSUME NEW m \in Modules, DestroyModule(m)
           PROVE  Onwards
      BY <2>15 DEF DestroyModule
    <2>16. CASE ModulesDestroyed
      BY <2>16 DEF ModulesDestroyed
    <2>17. CASE Return
      BY <2>17 DEF Return
    <2>18. CASE TimerTests
      BY <2>18 DEF TimerTests
    <2>19. CASE TimerCalls
      BY <2>19 DEF TimerCalls, Stop
    <2>20. CASE TimerReturns
      BY <2>20 DEF TimerReturns
    <2>21. CASE Signal
      BY <2>21 DEF Signal
    <2>22. CASE HandlerCalls
      BY <2>22 DEF HandlerCalls, Stop
    <2>23. CASE HandlerReturns
      BY <2>23 DEF HandlerReturns
    <2>24. CASE HandlerRaises
      BY <2>24 DEF HandlerRaises
    <2>25. CASE SignalAgain
      BY <2>25 DEF SignalAgain
    <2>. HIDE DEF ProgramInv, Onwards
    <2>. QED
      BY <2>1, <2>2, <2>3, <2>4, <2>5, <2>6, <2>7, <2>8, <2>9, <2>10, <2>11, <2>12, <2>13,
         <2>14, <2>15, <2>16, <2>17, <2>18, <2>19, <2>20, <2>21, <2>22, <2>23, <2>24, <2>25
      DEF Next, MainStep, CoreStep, TimerStep, HandlerStep
  <1>. QED
    BY <1>1, ProgramInvariant, PTL DEF Spec

\* A step of a thread brings something further, so that there are only so many
\* of them between two signals.
THEOREM EveryStepCounts == Spec => [][ThreadStep => Further]_vars
  <1>1. ProgramInv /\ [Next]_vars => [ThreadStep => Further]_vars
    <2>. SUFFICES ASSUME ProgramInv, Next, ThreadStep
                  PROVE  Further
      OBVIOUS
    <2>. USE DEF timers, handling, cores, Main, Alive, MainAt, TimerAt, HandlerAt,
                 CoreAt, ModuleAt, ProgramInv, TypeOK, Further
    <2>1. ASSUME NEW m \in Modules, InitializeModule(m)
          PROVE  Further
      BY <2>1 DEF InitializeModule
    <2>2. ASSUME NEW m \in Modules, StartModule(m)
          PROVE  Further
      BY <2>2 DEF StartModule
    <2>3. ASSUME NEW m \in Modules, DestroyModule(m)
          PROVE  Further
      BY <2>3 DEF DestroyModule
    <2>4. ASSUME NEW m \in Modules, ShutdownModule(m)
          PROVE  Further
      BY <2>4 DEF ShutdownModule
    <2>5. ASSUME NEW m \in Modules, ShutdownLostModule(m)
          PROVE  Further
      BY <2>5 DEF ShutdownLostModule
    <2>6. CASE CoreDown
      BY <2>6 DEF CoreDown, Stopping
    <2>7. CASE Initialized \/ InstallHandler \/ StartReturns \/ MainShutdown
               \/ ClearCorePtr \/ JoinTimer \/ ModulesDestroyed \/ Return
      BY <2>7 DEF Initialized, InstallHandler, StartReturns, MainShutdown, ClearCorePtr,
                  JoinTimer, ModulesDestroyed, Return
    <2>8. CASE TimerTests
      BY <2>8 DEF TimerTests
    <2>9. CASE TimerCalls
      BY <2>9 DEF TimerCalls
    <2>10. CASE TimerReturns
      BY <2>10 DEF TimerReturns
    <2>11. CASE HandlerCalls \/ HandlerReturns
      BY <2>11 DEF HandlerCalls, HandlerReturns
    <2>. HIDE DEF ProgramInv, Further
    <2>. QED
      BY <2>1, <2>2, <2>3, <2>4, <2>5, <2>6, <2>7, <2>8, <2>9, <2>10, <2>11
      DEF ThreadStep, MainStep, CoreStep, TimerStep
  <1>. QED
    BY <1>1, ProgramInvariant, PTL DEF Spec

-----------------------------------------------------------------------------
(* Nobody waits for ever: until Run() has returned, one of the threads can     *)
(* take a step.                                                                *)

\* When each thread can take a step: the guards of its actions.
MainCan ==
  /\ handler = "no"
  /\ \/ /\ main = "initialize"
        /\ \/ \E m \in Modules : /\ module[m] = "made"
                                 /\ \A k \in 1..(m - 1) : module[k] = "initialized"
           \/ \A m \in Modules : module[m] = "initialized"
     \/ /\ main = "start"
        /\ \/ \E m \in Modules : /\ module[m] = "initialized"
                                 /\ \A k \in 1..(m - 1) : module[k] = "started"
           \/ \A m \in Modules : module[m] = "started"
     \/ main = "serve" /\ stopper # Nobody
     \/ main = "shutdown"
     \/ main = "clear" /\ Stopped("main")
     \/ main = "join" /\ timer \in {"off", "over"}
     \/ /\ main = "contexts"
        /\ \/ \E m \in Modules : module[m] # "destroyed" /\ m \notin running
           \/ \A m \in Modules : module[m] = "destroyed"
     \/ main = "library"

CoreCan == /\ Stopping
           /\ \/ \E m \in Modules : Alive(m) \/ module[m] = "destroyed"
              \/ \A m \in Modules : module[m] \in {"made", "down"}

TimerCan == \/ timer \in {"sleeps", "tested"}
            \/ timer = "calls" /\ Stopped("timer")

HandlerCan == \/ handler = "entered" /\ g_core_ptr
              \/ handler = "calls" /\ Stopped("handler")

\* The ways to fail that ShutsDown names.
LateSignal  == handler # "no" /\ ~g_core_ptr
LeftInScope == main = "contexts" /\ running # {}

\* The modules are initialized, then started, before anything is shut down.
ModulesInStep ==
  /\ main = "initialize" => \A m \in Modules : module[m] \in {"made", "initialized"}
  /\ main = "start" => \A m \in Modules : module[m] \in {"initialized", "started"}

\* Whoever is told to shut the program down calls Shutdown(), if only the
\* second time it reads g_core_ptr; a signal is raised again when it is cleared.
AskingIsHeard ==
  /\ asked => stopper # Nobody \/ timer = "tested" \/ crashed
  /\ handler = "raises" => ~g_core_ptr

Deciding == /\ ModulesInStep
            /\ AskingIsHeard

\* The program was asked to end, and is on its way without one of the failures.
OnItsWay == /\ asked
            /\ ~crashed
            /\ main # "returned"
            /\ ~LateSignal
            /\ ~LeftInScope

NobodyStuck == OnItsWay => MainCan \/ CoreCan \/ TimerCan \/ HandlerCan

LEMMA DecidingStep == ProgramInv /\ Deciding /\ [Next]_vars => Deciding'
  <1>. SUFFICES ASSUME ProgramInv, Deciding, [Next]_vars
                PROVE  Deciding'
    OBVIOUS
  <1>1. ModulesInStep'
    <2>. USE DEF timers, handling, cores, Main, ProgramInv, TypeOK, Deciding, ModulesInStep
    <2>1. ASSUME NEW m \in Modules, InitializeModule(m)
          PROVE  ModulesInStep'
      BY <2>1 DEF InitializeModule
    <2>2. CASE Initialized
      BY <2>2 DEF Initialized
    <2>3. ASSUME NEW m \in Modules, StartModule(m)
          PROVE  ModulesInStep'
      BY <2>3 DEF StartModule
    <2>4. ASSUME NEW m \in Modules, ShutdownModule(m)
          PROVE  ModulesInStep'
      BY <2>4 DEF ShutdownModule, Stopping
    <2>5. ASSUME NEW m \in Modules, DestroyModule(m)
          PROVE  ModulesInStep'
      BY <2>5 DEF DestroyModule
    <2>6. CASE UNCHANGED <<main, module>>
      BY <2>6
    <2>7. CASE main' \notin Early
      BY <2>7 DEF Early
    <2>. HIDE DEF ProgramInv, ModulesInStep, Deciding
    <2>. QED
      BY <2>1, <2>2, <2>3, <2>4, <2>5, <2>6, <2>7
      DEF Next, MainStep, CoreStep, TimerStep, HandlerStep, vars, timers, handling, cores,
          Early, InstallHandler, Throw, CoroutineStarts, CoroutinesEnd,
          ShutdownLostModule, CoreDown, StartReturns, MainShutdown, ClearCorePtr,
          JoinTimer, ModulesDestroyed, Return, TimerTests, TimerCalls, TimerReturns,
          Signal, HandlerCalls, HandlerReturns, HandlerRaises, SignalAgain
  <1>2. AskingIsHeard'
    <2>. USE DEF timers, handling, cores, Main, Nobody, ProgramInv, TypeOK, Deciding,
                 AskingIsHeard
    <2>1. CASE Initialized
      BY <2>1 DEF Initialized, StartedFirst
    <2>2. CASE MainShutdown
      BY <2>2 DEF MainShutdown, Stop
    <2>3. CASE ClearCorePtr
      BY <2>3 DEF ClearCorePtr
    <2>4. CASE TimerTests
      BY <2>4 DEF TimerTests
    <2>5. CASE TimerCalls
      BY <2>5 DEF TimerCalls, Stop
    <2>6. CASE TimerReturns
      BY <2>6 DEF TimerReturns
    <2>7. CASE Signal
      BY <2>7 DEF Signal
    <2>8. CASE HandlerCalls
      BY <2>8 DEF HandlerCalls, Stop
    <2>9. CASE HandlerReturns \/ HandlerRaises \/ SignalAgain
      BY <2>9 DEF HandlerReturns, HandlerRaises, SignalAgain
    <2>10. CASE UNCHANGED <<timer, handler, g_core_ptr, stopper, asked>> /\ (crashed => crashed')
      BY <2>10
    <2>. HIDE DEF ProgramInv, AskingIsHeard, Deciding
    <2>. QED
      BY <2>1, <2>2, <2>3, <2>4, <2>5, <2>6, <2>7, <2>8, <2>9, <2>10
      DEF Next, MainStep, CoreStep, TimerStep, HandlerStep, vars, timers, handling, cores,
          InitializeModule, StartModule, InstallHandler, Throw, CoroutineStarts,
          CoroutinesEnd, ShutdownModule, ShutdownLostModule, CoreDown, StartReturns,
          JoinTimer, DestroyModule, ModulesDestroyed, Return
  <1>. QED
    BY <1>1, <1>2 DEF Deciding

\* Of the modules that are not at a point yet there is a first.
LEMMA FirstModule ==
  ASSUME NEW T, T \subseteq Modules, T # {}
  PROVE  \E m \in T : \A k \in 1..(m - 1) : k \notin T
  <1>1. T \subseteq Nat
    BY ModulesAreNotNone
  <1>2. PICK m \in T : \A k \in T : ~ (<<k, m>> \in OpToRel(<, Nat))
    BY <1>1, NatLessThanWellFounded, WFMin
  <1>3. \A k \in T : ~ (k < m)
    BY <1>1, <1>2 DEF OpToRel
  <1>. QED
    BY <1>1, <1>3

\* What Run() waits for before the modules have started is nothing.
LEMMA EarlyGoesOn ==
  ASSUME ProgramInv, Deciding, main \in Early
  PROVE  MainCan
  <1>1. handler = "no"
    BY DEF ProgramInv, StartedFirst
  <1>2. CASE main = "initialize"
    <2>. DEFINE T == {m \in Modules : module[m] # "initialized"}
    <2>1. CASE T = {}
      BY <1>1, <1>2, <2>1 DEF MainCan
    <2>2. CASE T # {}
      <3>1. PICK m \in T : \A k \in 1..(m - 1) : k \notin T
        BY <2>2, FirstModule
      <3>2. 1..(m - 1) \subseteq Modules
        BY ProgramAssumption DEF Modules
      <3>3. module[m] = "made"
        BY <1>2 DEF Deciding, ModulesInStep
      <3>. QED
        BY <1>1, <1>2, <3>1, <3>2, <3>3 DEF MainCan
    <2>. QED
      BY <2>1, <2>2
  <1>3. CASE main = "start"
    <2>. DEFINE T == {m \in Modules : module[m] # "started"}
    <2>1. CASE T = {}
      BY <1>1, <1>3, <2>1 DEF MainCan
    <2>2. CASE T # {}
      <3>1. PICK m \in T : \A k \in 1..(m - 1) : k \notin T
        BY <2>2, FirstModule
      <3>2. 1..(m - 1) \subseteq Modules
        BY ProgramAssumption DEF Modules
      <3>3. module[m] = "initialized"
        BY <1>3 DEF Deciding, ModulesInStep
      <3>. QED
        BY <1>1, <1>3, <3>1, <3>2, <3>3 DEF MainCan
    <2>. QED
      BY <2>1, <2>2
  <1>. QED
    BY <1>2, <1>3 DEF Early

\* Somebody performs Shutdown(): its next step is there.
LEMMA StoppingGoesOn ==
  ASSUME TypeOK, Stopping
  PROVE  CoreCan
  BY DEF TypeOK, CoreCan, Alive

LEMMA SomebodyCan ==
  ASSUME ProgramInv, Deciding, OnItsWay
  PROVE  MainCan \/ CoreCan \/ TimerCan \/ HandlerCan
  <1>1. core \in {"up", "down"}
    BY DEF ProgramInv, TypeOK, CoreGoesLast, OnItsWay
  <1>2. CASE main \in Early
    BY <1>2, EarlyGoesOn
  <1>3. CASE timer = "tested"
    BY <1>3 DEF TimerCan
  <1>4. CASE main \notin Early /\ timer # "tested" /\ handler # "no"
    <2>1. g_core_ptr /\ handler \in {"entered", "calls"}
      BY <1>4 DEF OnItsWay, LateSignal, Deciding, AskingIsHeard, ProgramInv, TypeOK
    <2>2. CASE handler = "entered" \/ Stopped("handler")
      BY <2>1, <2>2 DEF HandlerCan
    <2>3. CASE ~Stopped("handler")
      <3>1. Stopping
        BY <1>1, <1>4, <2>3 DEF Stopped, Stopping, Nobody, Early
      <3>. QED
        BY <3>1, StoppingGoesOn DEF ProgramInv
    <2>. QED
      BY <2>2, <2>3
  <1>5. CASE main \notin Early /\ timer # "tested" /\ handler = "no"
    <2>1. stopper # Nobody
      BY <1>5 DEF OnItsWay, Deciding, AskingIsHeard
    <2>2. CASE main = "clear"
      <3>1. CASE Stopped("main")
        BY <1>5, <2>2, <3>1 DEF MainCan
      <3>2. CASE ~Stopped("main")
        <4>1. Stopping
          BY <1>1, <1>5, <2>1, <2>2, <3>2 DEF Stopped, Stopping, Early
        <4>. QED
          BY <4>1, StoppingGoesOn DEF ProgramInv
      <3>. QED
        BY <3>1, <3>2
    <2>3. CASE main = "join" /\ timer = "calls"
      <3>1. CASE Stopped("timer")
        BY <2>3, <3>1 DEF TimerCan
      <3>2. CASE ~Stopped("timer")
        <4>1. Stopping
          BY <1>1, <1>5, <2>1, <2>3, <3>2 DEF Stopped, Stopping, Early
        <4>. QED
          BY <4>1, StoppingGoesOn DEF ProgramInv
      <3>. QED
        BY <3>1, <3>2
    <2>4. CASE main = "join" /\ timer # "calls"
      BY <1>5, <2>4 DEF MainCan, TimerCan, ProgramInv, TypeOK
    <2>5. CASE main = "contexts"
      <3>1. running = {}
        BY <2>5 DEF OnItsWay, LeftInScope
      <3>. QED
        BY <1>5, <2>5, <3>1 DEF MainCan
    <2>6. CASE main \in {"serve", "shutdown", "library"}
      BY <1>5, <2>1, <2>6 DEF MainCan
    <2>7. main \in {"serve", "shutdown", "clear", "join", "contexts", "library"}
      BY <1>5 DEF Early, OnItsWay, ProgramInv, TypeOK
    <2>. QED
      BY <2>2, <2>3, <2>4, <2>5, <2>6, <2>7
  <1>. QED
    BY <1>2, <1>3, <1>4, <1>5

\* Once somebody has been told to shut down the program, and until Run() has
\* returned, a thread can take a step, or one of the failures has happened that
\* ShutsDown names: Run(), the timer, the handler and Shutdown() never all wait
\* for each other.
THEOREM SomebodyCanGoOn == Spec => []NobodyStuck
  <1>1. Init => Deciding
    BY DEF Init, Deciding, ModulesInStep, AskingIsHeard
  <1>2. ProgramInv /\ Deciding => NobodyStuck
    BY SomebodyCan DEF NobodyStuck
  <1>. QED
    BY <1>1, <1>2, DecidingStep, ProgramInvariant, PTL DEF Spec
=============================================================================
