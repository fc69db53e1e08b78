------------------------------- MODULE Loop -------------------------------
(***************************************************************************)
(* ctx::Loop, the rate limiter of                                          *)
(*                                                                         *)
(*     while (co_await loop.Ok()) { work }                                 *)
(*                                                                         *)
(* tp_ is the point in time the current cycle is counted from.  Ok()       *)
(* sleeps for what is left of the period since tp_, or, if nothing is      *)
(* left, returns at once and counts from now on.                           *)
(*                                                                         *)
(* Clocks are relative, so that nothing grows: lag is now - tp_, and       *)
(* elapsed is the time since Ok() has last returned.                       *)
(***************************************************************************)
EXTENDS Integers

CONSTANTS Period,     \* period_
          Uptime,     \* steady_clock::now() when the loop starts; tp_ is 0
          MaxWork,    \* the longest the work of a cycle takes
          MaxLate     \* the latest a sleeper is given a thread again

ASSUME LoopAssumption == /\ Period \in Nat \ {0}
                         /\ {Uptime, MaxWork, MaxLate} \subseteq Nat

VARIABLES phase,     \* "working" or "asleep", in Ok()
          lag,       \* now - tp_
          elapsed,   \* now - the last return of Ok()
          dt,        \* the local variable of Ok(): how long to sleep
          slept      \* how long it has slept

vars == <<phase, lag, elapsed, dt, slept>>

Init == /\ phase = "working"
        /\ lag = Uptime
        /\ elapsed = 0
        /\ dt = 0
        /\ slept = 0

-----------------------------------------------------------------------------

\* The work takes time.
Work == /\ phase = "working"
        /\ elapsed < MaxWork
        /\ lag' = lag + 1
        /\ elapsed' = elapsed + 1
        /\ UNCHANGED <<phase, dt, slept>>

\* Mutant: the whole period is slept, whatever the work has taken.
OkSleepsPeriod == /\ phase = "working"
                  /\ Period - lag > 0
                  /\ phase' = "asleep"
                  /\ dt' = Period
                  /\ slept' = 0
                  /\ UNCHANGED <<lag, elapsed>>

\* Ok(): the period is not over.
OkSleeps == /\ phase = "working"
            /\ Period - lag > 0
            /\ phase' = "asleep"
            /\ dt' = Period - lag
            /\ slept' = 0
            /\ UNCHANGED <<lag, elapsed>>

\* Ok(): the period is over; tp_ = now_tp, and it returns.
OkIsLate == /\ phase = "working"
            /\ Period - lag <= 0
            /\ lag' = 0
            /\ elapsed' = 0
            /\ UNCHANGED <<phase, dt, slept>>

\* Ok() sleeps for dt at least.
Sleep == /\ phase = "asleep"
         /\ slept < dt + MaxLate
         /\ slept' = slept + 1
         /\ lag' = lag + 1
         /\ elapsed' = elapsed + 1
         /\ UNCHANGED <<phase, dt>>

\* Mutant: dt is added to the time at which the sleep is over.
OkReturnsAhead == /\ phase = "asleep"
                  /\ slept >= dt
                  /\ phase' = "working"
                  /\ lag' = -dt
                  /\ elapsed' = 0
                  /\ UNCHANGED <<dt, slept>>

\* The sleep is over: tp_ += dt, and Ok() returns.
OkReturns == /\ phase = "asleep"
             /\ slept >= dt
             /\ phase' = "working"
             /\ lag' = lag - dt
             /\ elapsed' = 0
             /\ UNCHANGED <<dt, slept>>

Next == Work \/ OkSleeps \/ OkIsLate \/ Sleep \/ OkReturns

Spec == Init /\ [][Next]_vars

-----------------------------------------------------------------------------
(* Properties                                                              *)

\* Types; and tp_ is never in the future, nor, once the first cycle is over,
\* further in the past than what work and lateness can explain.
TypeOK == /\ phase \in {"working", "asleep"}
          /\ lag \in Nat
          /\ lag <= (IF Uptime > Period THEN Uptime ELSE Period) + MaxWork + MaxLate
          /\ elapsed \in Nat
          /\ dt \in 0..Period
          /\ slept \in 0..(Period + MaxLate)

\* A cycle that sleeps takes a period at the most, and the time for which the
\* executor is late: the sleep never comes on top of the work.
NeverSlow == phase = "asleep" => elapsed <= Period + MaxLate

\* A loop that keeps its rate: a cycle that sleeps takes a period at least.
\* The comment in Ok() has the time point too early only after a late wake-up.
NeverFast == [][phase = "asleep" /\ phase' = "working" => elapsed >= Period]_vars
=============================================================================
