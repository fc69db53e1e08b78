-------------------------------- MODULE Program --------------------------------
(***************************************************************************)
(* aimrte::Run() (src/src/program/app_mode/app_mode.cpp): the life of a    *)
(* program from the creation of the AimRT core to the end of the process,  *)
(* with its modules, their contexts, the timer of                          *)
(* --shutdown_after_seconds and the handler of SIGINT and SIGTERM.         *)
(*                                                                         *)
(* The core is AimRT's.  What it does is taken from how it is used here:   *)
(* it calls Initialize() and Start() of the modules one after the other,   *)
(* Start() returns after somebody has called Shutdown(), the first to do   *)
(* so performs it, once no module is being started any more, and others    *)
(* return at once.                                                         *)
(*                                                                         *)
(* The handler runs on the main thread, in the middle of whatever that     *)
(* does: a signal for the process is delivered there when it can be.       *)
(* A module is its context: the coroutines it still has to wait for.       *)
(***************************************************************************)
EXTENDS Naturals, FiniteSets

CONSTANTS Last,        \* the modules are 1..Last, in the order they are given
          MaxSignals   \* bound: signals sent

ASSUME ProgramAssumption == {Last, MaxSignals} \subseteq Nat

VARIABLES
  main,        \* what Run() is at
  failed,      \* Run() has caught an exception
  timer,       \* immediately_shutdowm_th
  handler,     \* SignalHandler(), on top of main
  installed,   \* SignalHandler() is registered
  g_core_ptr,  \* whether it is set; the core may be gone
  core,        \* the AimRT core: up, down (its executors stopped) or destroyed
  stopper,     \* who performs Shutdown() of the core
  module,      \* where each module is in its life
  running,     \* the modules that have coroutines in their scope
  logger,      \* the module whose logger global_logger is
  signals,     \* signals sent
  asked,       \* somebody was told to shut down the program in time
  crashed      \* the process has died

vars == <<main, failed, timer, handler, installed, g_core_ptr, core, stopper,
          module, running, logger, signals, asked, crashed>>

Modules == 1..Last
Nobody  == "nobody"
NoLogger == 0

\* Types; the handler is not installed before every module has started.
TypeOK ==
  /\ main \in {"initialize", "start", "serve", "shutdown", "clear", "join",
               "contexts", "library", "returned"}
  /\ {failed, installed, g_core_ptr, asked, crashed} \subseteq BOOLEAN
  /\ timer \in {"off", "sleeps", "tested", "calls", "over"}
  /\ handler \in {"no", "entered", "calls", "raises"}
  /\ core \in {"up", "down", "destroyed"}
  /\ stopper \in {Nobody, "main", "timer", "handler"}
  /\ module \in [Modules -> {"made", "initialized", "started", "down", "destroyed"}]
  /\ running \subseteq Modules
  /\ logger \in Modules \cup {NoLogger}
  /\ signals \in 0..MaxSignals
  /\ installed => \A m \in Modules : module[m] \in {"started", "down", "destroyed"}

\* The core is created, g_core_ptr set, the modules are registered.
Init == /\ main = "initialize"
        /\ failed = FALSE
        /\ timer = "off"
        /\ handler = "no"
        /\ installed = FALSE
        /\ g_core_ptr = TRUE
        /\ core = "up"
        /\ stopper = Nobody
        /\ module = [m \in Modules |-> "made"]
        /\ running = {}
        /\ logger = NoLogger
        /\ signals = 0
        /\ asked = FALSE
        /\ crashed = FALSE

\* The main thread is at that point and not in the handler.
Main(at) == main = at /\ handler = "no"

timers  == <<timer, asked>>
handling == <<handler, installed, signals>>
cores   == <<core, stopper>>

-----------------------------------------------------------------------------
(* The core starts the modules.                                            *)

\* ModuleBase::Initialize(): a context, the global logger.
InitializeModule(m) ==
  /\ Main("initialize")
  /\ module[m] = "made"
  /\ \A k \in 1..(m - 1) : module[k] = "initialized"
  /\ module' = [module EXCEPT ![m] = "initialized"]
  /\ logger' = m
  /\ UNCHANGED <<main, failed, timers, handling, g_core_ptr, cores, running, crashed>>

\* Initialize() of the core returns; the timer is started if there is one.
Initialized ==
  /\ Main("initialize")
  /\ \A m \in Modules : module[m] = "initialized"
  /\ main' = "start"
  /\ timer' \in {"off", "sleeps"}
  /\ UNCHANGED <<failed, asked, handling, g_core_ptr, cores, module, running,
                 logger, crashed>>

\* ModuleBase::Start().
StartModule(m) ==
  /\ Main("start")
  /\ module[m] = "initialized"
  /\ \A k \in 1..(m - 1) : module[k] = "started"
  /\ module' = [module EXCEPT ![m] = "started"]
  /\ UNCHANGED <<main, failed, timers, handling, g_core_ptr, cores, running, logger,
                 crashed>>

\* Mutant: the hook is registered for kPreStart.
InstallHandlerPreStart ==
  /\ Main("start")
  /\ installed' = TRUE
  /\ main' = "serve"
  /\ UNCHANGED <<failed, timers, handler, signals, g_core_ptr, cores, module,
                 running, logger, crashed>>

\* The hook kPostStart.
InstallHandler ==
  /\ Main("start")
  /\ \A m \in Modules : module[m] = "started"
  /\ installed' = TRUE
  /\ main' = "serve"
  /\ UNCHANGED <<failed, timers, handler, signals, g_core_ptr, cores, module,
                 running, logger, crashed>>

\* Initialize() or Start() throws, a module having returned false, or after
\* all modules have started.
Throw ==
  /\ Main("initialize") \/ Main("start") \/ Main("serve")
  /\ failed' = TRUE
  /\ main' = "join"
  /\ UNCHANGED <<timers, handling, g_core_ptr, cores, module, running, logger, crashed>>

\* OpExe::Post(), by the module or for a message: a coroutine enters the scope
\* of the context, also when the module is down already.
CoroutineStarts(m) ==
  /\ module[m] \in {"initialized", "started", "down"}
  /\ core = "up"
  /\ running' = running \cup {m}
  /\ UNCHANGED <<main, failed, timers, handling, g_core_ptr, cores, module,
                 logger, crashed>>

\* The coroutines end; none runs once the core is down.
CoroutinesEnd(m) ==
  /\ m \in running
  /\ core = "up"
  /\ running' = running \ {m}
  /\ UNCHANGED <<main, failed, timers, handling, g_core_ptr, cores, module,
                 logger, crashed>>

-----------------------------------------------------------------------------
(* Shutdown() of the core.                                                 *)

\* Whoever is the first performs it.
Stop(who) == stopper' = IF stopper = Nobody THEN who ELSE stopper

\* The Shutdown() that `who` has called has returned.
Stopped(who) == stopper # who \/ core = "down"

\* Whoever performs Shutdown() goes on: a handler on top of the main thread
\* holds up what that does.
Stopping == /\ stopper # Nobody /\ core = "up"
            /\ main \notin {"initialize", "start"}
            /\ stopper = "main" => handler = "no"

\* The modules the core has to shut down.
Alive(m) == module[m] \in {"initialized", "started"}

\* Mutant: Shutdown() of a module leaves its logger.
ShutdownModuleKeepLogger(m) ==
  /\ Stopping
  /\ Alive(m)
  /\ module' = [module EXCEPT ![m] = "down"]
  /\ UNCHANGED <<main, failed, timers, handling, g_core_ptr, cores, running,
                 logger, crashed>>

\* ModuleBase::Shutdown().
ShutdownModule(m) ==
  /\ Stopping
  /\ Alive(m)
  /\ module' = [module EXCEPT ![m] = "down"]
  /\ logger' = NoLogger
  /\ UNCHANGED <<main, failed, timers, handling, g_core_ptr, cores, running, crashed>>

\* The core calls a module that is gone.
ShutdownLostModule(m) ==
  /\ Stopping
  /\ module[m] = "destroyed"
  /\ crashed' = TRUE
  /\ UNCHANGED <<main, failed, timers, handling, g_core_ptr, cores, module,
                 running, logger>>

\* The executors are stopped.
CoreDown ==
  /\ Stopping
  /\ \A m \in Modules : module[m] \in {"made", "down"}
  /\ core' = "down"
  /\ UNCHANGED <<main, failed, timers, handling, g_core_ptr, stopper, module,
                 running, logger, crashed>>

-----------------------------------------------------------------------------
(* The end of Run().                                                       *)

\* Start() returns when Shutdown() has been called.
StartReturns ==
  /\ Main("serve")
  /\ stopper # Nobody
  /\ main' = "shutdown"
  /\ UNCHANGED <<failed, timers, handling, g_core_ptr, cores, module, running,
                 logger, crashed>>

MainShutdown ==
  /\ Main("shutdown")
  /\ Stop("main")
  /\ main' = "clear"
  /\ UNCHANGED <<failed, timers, handling, g_core_ptr, core, module, running, logger,
                 crashed>>

ClearCorePtr ==
  /\ Main("clear")
  /\ Stopped("main")
  /\ g_core_ptr' = FALSE
  /\ main' = "join"
  /\ UNCHANGED <<failed, timers, handling, cores, module, running, logger, crashed>>

\* Mutant: the timer is a thread that is detached.
DetachTimer ==
  /\ Main("join")
  /\ main' = "contexts"
  /\ UNCHANGED <<failed, timers, handling, g_core_ptr, cores, module, running,
                 logger, crashed>>

\* The end of the try block, or the exception: ~jthread().
JoinTimer ==
  /\ Main("join")
  /\ timer \in {"off", "over"}
  /\ main' = "contexts"
  /\ UNCHANGED <<failed, timers, handling, g_core_ptr, cores, module, running,
                 logger, crashed>>

\* Mutant: ~Context() does not wait.
DestroyAnyModule(m) ==
  /\ Main("contexts")
  /\ module[m] # "destroyed"
  /\ module' = [module EXCEPT ![m] = "destroyed"]
  /\ UNCHANGED <<main, failed, timers, handling, g_core_ptr, cores, running,
                 logger, crashed>>

\* named_modules is destroyed: ~Context() waits for the coroutines.
DestroyModule(m) ==
  /\ Main("contexts")
  /\ module[m] # "destroyed"
  /\ m \notin running
  /\ module' = [module EXCEPT ![m] = "destroyed"]
  /\ UNCHANGED <<main, failed, timers, handling, g_core_ptr, cores, running,
                 logger, crashed>>

ModulesDestroyed ==
  /\ Main("contexts")
  /\ \A m \in Modules : module[m] = "destroyed"
  /\ main' = "library"
  /\ UNCHANGED <<failed, timers, handling, g_core_ptr, cores, module, running,
                 logger, crashed>>

\* Run() returns: ~Library() destroys the core.
Return ==
  /\ Main("library")
  /\ core' = "destroyed"
  /\ main' = "returned"
  /\ UNCHANGED <<failed, timers, handling, g_core_ptr, stopper, module, running,
                 logger, crashed>>

-----------------------------------------------------------------------------
(* The timer.                                                              *)

\* The seconds are over.
TimerTests ==
  /\ timer = "sleeps"
  /\ timer' = IF g_core_ptr THEN "tested" ELSE "over"
  /\ asked' = (asked \/ g_core_ptr)
  /\ UNCHANGED <<main, failed, handling, g_core_ptr, cores, module, running,
                 logger, crashed>>

\* g_core_ptr->Shutdown(), g_core_ptr being read once more.
TimerCalls ==
  /\ timer = "tested"
  /\ IF g_core_ptr
     THEN timer' = "calls" /\ Stop("timer") /\ UNCHANGED crashed
     ELSE crashed' = TRUE /\ UNCHANGED <<timer, stopper>>
  /\ UNCHANGED <<main, failed, asked, handling, g_core_ptr, core, module, running,
                 logger>>

TimerReturns ==
  /\ timer = "calls"
  /\ Stopped("timer")
  /\ timer' = "over"
  /\ UNCHANGED <<main, failed, asked, handling, g_core_ptr, cores, module,
                 running, logger, crashed>>

-----------------------------------------------------------------------------
(* Signals.                                                                *)

\* A signal interrupts the main thread; Run() may have returned, and main()
\* be about to exit.
Signal ==
  /\ installed
  /\ handler = "no"
  /\ signals < MaxSignals
  /\ signals' = signals + 1
  /\ handler' = "entered"
  /\ UNCHANGED <<main, failed, timers, installed, g_core_ptr, cores, module,
                 running, logger, crashed>>

\* Mutant: the handler returns without asking for anything.
HandlerReturnsAtOnce ==
  /\ handler = "entered"
  /\ g_core_ptr
  /\ handler' = "no"
  /\ asked' = TRUE
  /\ UNCHANGED <<main, failed, timer, installed, signals, g_core_ptr, cores,
                 module, running, logger, crashed>>

\* SignalHandler() with g_core_ptr set: Shutdown() of the core, whether or not
\* it still exists.
HandlerCalls ==
  /\ handler = "entered"
  /\ g_core_ptr
  /\ handler' = "calls"
  /\ IF core = "destroyed"
     THEN crashed' = TRUE /\ UNCHANGED stopper
     ELSE Stop("handler") /\ UNCHANGED crashed
  /\ asked' = TRUE
  /\ UNCHANGED <<main, failed, timer, installed, signals, g_core_ptr, core, module,
                 running, logger>>

HandlerReturns ==
  /\ handler = "calls"
  /\ Stopped("handler")
  /\ handler' = "no"
  /\ UNCHANGED <<main, failed, timers, installed, signals, g_core_ptr, cores,
                 module, running, logger, crashed>>

\* raise(sig): the signal is blocked while its handler runs, and delivered
\* when it returns: the handler is entered again.
HandlerRaises ==
  /\ handler = "entered"
  /\ ~g_core_ptr
  /\ handler' = "raises"
  /\ UNCHANGED <<main, failed, timers, installed, signals, g_core_ptr, cores,
                 module, running, logger, crashed>>

SignalAgain ==
  /\ handler = "raises"
  /\ handler' = "entered"
  /\ UNCHANGED <<main, failed, timers, installed, signals, g_core_ptr, cores,
                 module, running, logger, crashed>>

-----------------------------------------------------------------------------

MainStep == \/ Initialized \/ InstallHandler \/ StartReturns \/ MainShutdown
            \/ ClearCorePtr \/ JoinTimer \/ ModulesDestroyed \/ Return
            \/ \E m \in Modules : InitializeModule(m) \/ StartModule(m)
            \/ \E m \in Modules : DestroyModule(m)

CoreStep == CoreDown \/ \E m \in Modules : ShutdownModule(m) \/ ShutdownLostModule(m)

TimerStep == TimerTests \/ TimerCalls \/ TimerReturns

HandlerStep == HandlerCalls \/ HandlerReturns \/ HandlerRaises \/ SignalAgain

\* A dead process does nothing.
Next == /\ ~crashed
        /\ \/ MainStep \/ CoreStep \/ TimerStep \/ HandlerStep
           \/ Throw \/ Signal
           \/ \E m \in Modules : CoroutineStarts(m) \/ CoroutinesEnd(m)

\* Threads run, and seconds pass; nobody needs to send a signal, nothing has to
\* fail, and a coroutine may wait for ever.
Fairness == /\ WF_vars(~crashed /\ MainStep)
            /\ WF_vars(~crashed /\ CoreStep)
            /\ WF_vars(~crashed /\ TimerStep)
            /\ WF_vars(~crashed /\ HandlerStep)

Spec == Init /\ [][Next]_vars /\ Fairness

-----------------------------------------------------------------------------
(* Properties                                                              *)

\* A Shutdown() that the timer or the handler is in finds the core alive until
\* it returns, though Run() may get to its end meanwhile.  When Run() has
\* caught an exception it leaves g_core_ptr set and the handler registered, and
\* this is no longer true.
CallsFindCore ==
  timer = "calls" \/ handler = "calls" => core # "destroyed" \/ failed

\* Contexts are closed when no coroutine of theirs can run any more, that is,
\* with the core down, or none is left; and the core goes last, for contexts
\* hold on to it.
ContextsCloseInOrder ==
  /\ \A m \in Modules : module[m] = "destroyed" =>
       m \notin running /\ (core \in {"down", "destroyed"} \/ failed)
  /\ core = "destroyed" => \A m \in Modules : module[m] = "destroyed"

\* Logging without a context uses global_logger, which belongs to the core: it
\* is taken back before the core is destroyed, if Run() has not failed.
LoggerIsLive == core = "destroyed" => logger = NoLogger \/ failed

\* Whoever asks for the end of the program in time gets it.  The ways it fails
\* are these: the timer finds g_core_ptr cleared between test and use, a signal
\* that comes too late is raised for ever, a coroutine was left in the scope of
\* its context when the core went down.
ShutsDown ==
  asked ~> \/ main = "returned"
           \/ crashed
           \/ handler # "no" /\ ~g_core_ptr
           \/ main = "contexts" /\ running # {}
=============================================================================
