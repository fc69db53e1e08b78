----------------------------- MODULE LoopProofs -----------------------------
(***************************************************************************)
(* ctx::Loop never makes a cycle longer than its period, whatever the      *)
(* period, the work and the lateness of the executor are.                  *)
(***************************************************************************)
EXTENDS Loop, TLAPS

\* The lag a cycle can begin with: that of the first one, or a late wake-up's.
Behind == IF Uptime > Period + MaxLate THEN Uptime ELSE Period + MaxLate

\* tp_ is not after the last return of Ok(), and what has been slept and what
\* was left when the sleep began make up the lag.
Account == /\ phase \in {"working", "asleep"}
           /\ lag \in Nat /\ elapsed \in Nat /\ dt \in Nat /\ slept \in Nat
           /\ dt <= Period /\ slept <= Period + MaxLate
           /\ elapsed <= lag
           /\ phase = "working" => lag <= Behind + elapsed /\ elapsed <= MaxWork
           /\ phase = "asleep" => /\ lag = Period - dt + slept
                                  /\ slept <= dt + MaxLate

LEMMA Constants == /\ Period \in Nat /\ Period > 0 /\ Uptime \in Nat
                   /\ MaxWork \in Nat /\ MaxLate \in Nat
BY LoopAssumption

LEMMA AccountStep == Account /\ [Next]_vars => Account'
<1> USE Constants
<1> SUFFICES ASSUME Account, [Next]_vars PROVE Account'
  OBVIOUS
<1> USE DEF Account
<1>1. CASE Work
  BY <1>1 DEF Work, Behind
<1>2. CASE OkSleeps
  BY <1>2 DEF OkSleeps
<1>3. CASE OkIsLate
  BY <1>3 DEF OkIsLate, Behind
<1>4. CASE Sleep
  BY <1>4 DEF Sleep
<1>5. CASE OkReturns
  BY <1>5 DEF OkReturns, Behind
<1>6. CASE UNCHANGED vars
  BY <1>6 DEF vars
<1> QED
  BY <1>1, <1>2, <1>3, <1>4, <1>5, <1>6 DEF Next

LEMMA AccountIsInvariant == Spec => []Account
<1>1. Init => Account
  BY Constants DEF Init, Account, Behind
<1> QED
  BY <1>1, AccountStep, PTL DEF Spec

\* The types, and the bound on the lag: late cycles do not pile up in tp_, as
\* Ok() starts counting afresh as soon as one has taken the whole period.
THEOREM LoopTypes == Spec => []TypeOK
<1>1. Account => TypeOK
  BY Constants DEF Account, TypeOK, Behind
<1> QED
  BY <1>1, AccountIsInvariant, PTL

\* Ok() sleeps for no longer than what the work has left of the period.
THEOREM NoSleepOnTopOfWork == Spec => []NeverSlow
<1>1. Account => NeverSlow
  BY Constants DEF Account, NeverSlow
<1> QED
  BY <1>1, AccountIsInvariant, PTL
=============================================================================
