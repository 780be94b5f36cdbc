------------------------------- MODULE Selector -------------------------------
(***************************************************************************)
(* ProcessorSelector::next (processor_selector.cc): on which processor a   *)
(* new coroutine runs.  Every thread of the program may call co_go, so     *)
(* next() runs on several threads at once; curPro_ is a plain int and the  *)
(* coSet_ of a processor changes while another thread reads its size.  A   *)
(* call is therefore a load of curPro_, a store to it, and a return of the *)
(* index that was computed in between: next() names the field four times,  *)
(* but the code that g++ -O3 (Makefile) makes of it loads it once, keeps   *)
(* the index in a register, and stores it once.  Under MIN_EVENT_FIRST it  *)
(* is one read of each processor's count, then the store.                  *)
(*                                                                         *)
(* The coroutine goes to the processor's queue of new coroutines, and is   *)
(* counted only when the loop takes it out of that queue.                  *)
(***************************************************************************)
EXTENDS Integers, FiniteSets

CONSTANTS Thread,   \* the threads that create coroutines
          N,        \* processors_.size()
          MaxCo     \* how many coroutines are created at all

ASSUME SelectorAssumption ==
    /\ IsFiniteSet(Thread)
    /\ N \in Nat /\ N >= 2
    /\ MaxCo \in Nat

VARIABLES
    strategy, \* strategy_, set before the first call if at all
    curPro,   \* curPro_
    coCnt,    \* coCnt[p]: coSet_.size() of processor p
    queued,   \* queued[p]: coroutines in p's queue that are not in its coSet_
    step,     \* where each thread is in next()
    idx,      \* idx[t]: the index t will return, as far as it is computed
    scanned,  \* scanned[t]: the i of the loop, and the minimum it has found
    created,  \* how many coroutines were created
    picks,    \* picks[p]: how often next() returned processor p
    stale,    \* the threads under whose scan some count has changed
    lost      \* how many calls have not taken the turn that was next

scanVars == <<scanned, stale>>
callVars == <<created, lost>>
loadVars == <<coCnt, queued>>
selectorVars == <<strategy, curPro, coCnt, queued, step, idx, scanned, created,
                  picks, stale, lost>>

Processor == 0..N-1

\* However the calls overlap, processors_[curPro_] is in range: idx is the index
\* a call returns, and is neither the initial -1 nor past the end although
\* another thread may have stored to curPro_ since it was loaded.
IndexInRange ==
    /\ strategy \in {"MIN_EVENT_FIRST", "ROUND_ROBIN"}
    /\ curPro \in -1..N-1
    /\ coCnt \in [Processor -> Nat]
    /\ queued \in [Processor -> Nat]
    /\ step \in [Thread -> {"idle", "store", "scan", "return"}]
    /\ idx \in [Thread -> Processor]
    /\ scanned \in [Thread -> [i : 1..N, min : Nat]]
    /\ created \in Nat
    /\ picks \in [Processor -> Nat]
    /\ stale \subseteq Thread
    /\ lost \in Nat

SelectorInit ==
    /\ strategy \in {"MIN_EVENT_FIRST", "ROUND_ROBIN"}
    /\ curPro = -1
    /\ coCnt = [p \in Processor |-> 0]
    /\ queued = [p \in Processor |-> 0]
    /\ step = [t \in Thread |-> "idle"]
    /\ idx = [t \in Thread |-> 1]
    /\ scanned = [t \in Thread |-> [i |-> 1, min |-> 0]]
    /\ created = 0
    /\ picks = [p \in Processor |-> 0]
    /\ stale = {}
    /\ lost = 0

StepTo(t, l) == step' = [step EXCEPT ![t] = l]

\* A coroutine is made, and t enters next() for it.
EnterNext(t) ==
    /\ step[t] = "idle"
    /\ created < MaxCo
    /\ created' = created + 1
    /\ UNCHANGED lost

-----------------------------------------------------------------------------
(* next() under ROUND_ROBIN.                                               *)

\* Mutants: the bound is off by one; the wrap loses one.
SuccessorUnbounded(i) == IF i + 1 > N THEN 1 ELSE i + 1
SuccessorEarly(i) == IF i + 1 >= N - 1 THEN 1 ELSE i + 1

\* ++curPro_, and 1 instead when that is past the end.
Successor(i) == IF i + 1 >= N THEN 1 ELSE i + 1

LoadCurPro(t) ==
    /\ strategy = "ROUND_ROBIN"
    /\ EnterNext(t)
    /\ idx' = [idx EXCEPT ![t] = Successor(curPro)]
    /\ StepTo(t, "store")
    /\ UNCHANGED <<strategy, curPro, loadVars, picks, scanVars>>

-----------------------------------------------------------------------------
(* next() under MIN_EVENT_FIRST.                                           *)

\* minCoProIdx is 1 and minCoCnt is the count of processor 0.
BeginScan(t) ==
    /\ strategy = "MIN_EVENT_FIRST"
    /\ EnterNext(t)
    /\ idx' = [idx EXCEPT ![t] = 1]
    /\ scanned' = [scanned EXCEPT ![t] = [i |-> 1, min |-> coCnt[0]]]
    /\ stale' = stale \ {t}
    /\ StepTo(t, "scan")
    /\ UNCHANGED <<strategy, curPro, loadVars, picks>>

\* Mutant: the index is kept, the minimum is not.
ScanKeepingMin(t) ==
    LET i == scanned[t].i IN
    /\ step[t] = "scan"
    /\ i < N
    /\ scanned' = [scanned EXCEPT ![t].i = i + 1]
    /\ idx' = [idx EXCEPT ![t] = IF coCnt[i] < scanned[t].min THEN i ELSE @]
    /\ UNCHANGED <<strategy, curPro, loadVars, step, callVars, picks, stale>>

Scan(t) ==
    LET i == scanned[t].i
        less == coCnt[i] < scanned[t].min
    IN
    /\ step[t] = "scan"
    /\ i < N
    /\ scanned' = [scanned EXCEPT ![t] =
                     [i   |-> i + 1,
                      min |-> IF less THEN coCnt[i] ELSE @.min]]
    /\ idx' = [idx EXCEPT ![t] = IF less THEN i ELSE @]
    /\ UNCHANGED <<strategy, curPro, loadVars, step, callVars, picks, stale>>

EndScan(t) ==
    /\ step[t] = "scan"
    /\ scanned[t].i = N
    /\ StepTo(t, "store")
    /\ UNCHANGED <<strategy, curPro, loadVars, idx, callVars, picks, scanVars>>

-----------------------------------------------------------------------------
(* The end of next(), and what becomes of the processor it returns.        *)

StoreCurPro(t) ==
    /\ step[t] = "store"
    /\ curPro' = idx[t]
    /\ picks' = [picks EXCEPT ![idx[t]] = @ + 1]
    /\ lost' = IF idx[t] = Successor(curPro) THEN lost ELSE lost + 1
    /\ StepTo(t, "return")
    /\ UNCHANGED <<strategy, loadVars, idx, created, scanVars>>

\* createNewCo: next()->goNewCo(...).
GoNewCo(t) ==
    /\ step[t] = "return"
    /\ queued' = [queued EXCEPT ![idx[t]] = @ + 1]
    /\ StepTo(t, "idle")
    /\ UNCHANGED <<strategy, curPro, coCnt, idx, callVars, picks, scanVars>>

\* co_go with a tid goes round the selector.
GoToProcessor(p) ==
    /\ created < MaxCo
    /\ created' = created + 1
    /\ queued' = [queued EXCEPT ![p] = @ + 1]
    /\ UNCHANGED <<strategy, curPro, coCnt, step, idx, picks, scanVars, lost>>

\* The loop of p takes a coroutine from the queue of new ones into coSet_.
Insert(p) ==
    /\ queued[p] > 0
    /\ queued' = [queued EXCEPT ![p] = @ - 1]
    /\ coCnt' = [coCnt EXCEPT ![p] = @ + 1]
    /\ stale' = Thread
    /\ UNCHANGED <<strategy, curPro, step, idx, scanned, callVars, picks>>

\* The loop of p erases a coroutine that has ended.
Erase(p) ==
    /\ coCnt[p] > 0
    /\ coCnt' = [coCnt EXCEPT ![p] = @ - 1]
    /\ stale' = Thread
    /\ UNCHANGED <<strategy, curPro, queued, step, idx, scanned, callVars, picks>>

Pick(t) == LoadCurPro(t) \/ BeginScan(t) \/ Scan(t) \/ EndScan(t)
           \/ StoreCurPro(t) \/ GoNewCo(t)

SelectorNext ==
    \/ \E t \in Thread : Pick(t)
    \/ \E p \in Processor : GoToProcessor(p) \/ Insert(p) \/ Erase(p)

SelectorSpec == SelectorInit /\ [][SelectorNext]_selectorVars

-----------------------------------------------------------------------------
(* Properties.                                                             *)

Picked(t) == step[t] = "return"

\* Round robin leaves processor 0 out: it is returned only to a call that
\* found curPro_ at its initial -1, at most one call of each thread.
ZeroPicksBounded ==
    strategy = "ROUND_ROBIN" => picks[0] <= Cardinality(Thread)

\* Round robin takes turns: processors 1..N-1 are returned equally often, up
\* to the round under way ("ROUND_ROBIN picks in turn",
\* processor_selector.h:38) and to the turns that were lost.  Calls that overlap
\* may find the same curPro_, and one that is held up before its store sets
\* curPro_ back by any number of turns; but each such store unbalances
\* no two processors by more than one coroutine (processor_selector.cc:48-57).
Balanced ==
    strategy = "ROUND_ROBIN" =>
      \A p, q \in Processor \ {0} : picks[p] <= picks[q] + 1 + lost

\* A scan under which no count has changed and in which somebody has fewer
\* coroutines than processor 0 returns whoever has the fewest
\* (processor_selector.cc:28-44).
LeastWhenBelowZero ==
    strategy = "MIN_EVENT_FIRST" =>
      \A t \in Thread \ stale :
        Picked(t) /\ (\E p \in Processor : coCnt[p] < coCnt[0]) =>
          \A p \in Processor : coCnt[idx[t]] <= coCnt[p]

\* "MIN_EVENT_FIRST picks the one with the fewest each time"
\* (processor_selector.h:37), of the processors that coroutines are given to
\* (processor_selector.cc:29).  Not what the code does, even if no count changes
\* under the scan: the minimum starts as processor 0's count and the index as
\* 1, which stays the answer, however many coroutines processor 1 has, when
\* nobody has fewer than processor 0.
FewestIsPicked ==
    strategy = "MIN_EVENT_FIRST" =>
      \A t \in Thread \ stale :
        Picked(t) => \A p \in Processor \ {0} : coCnt[idx[t]] <= coCnt[p]
===============================================================================
