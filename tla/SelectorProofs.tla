---------------------------- MODULE SelectorProofs ----------------------------
(***************************************************************************)
(* For any number of threads and of processors: next() returns an index in *)
(* range, round robin returns processor 0 at most once per thread and      *)
(* takes turns but for those that overlapping calls have lost, and an      *)
(* undisturbed scan finds a least loaded processor when there is one less  *)
(* loaded than processor 0.                                                *)
(***************************************************************************)
EXTENDS Selector, FiniteSetTheorems, TLAPS

\* The calls that are about to return processor 0.
ToZero == {t \in Thread : step[t] = "store" /\ idx[t] = 0}

\* A call can only come to return processor 0 while curPro_ is -1, and then no
\* call has returned yet; from there on ToZero and picks[0] share a budget.
ZeroInv ==
    /\ strategy = "ROUND_ROBIN"
    /\ \A t \in Thread : step[t] # "scan"
    /\ curPro = -1 => picks[0] = 0
    /\ picks[0] + Cardinality(ToZero) <= Cardinality(Thread)

\* Successor never yields an index past the end, nor 0 unless from -1.
LEMMA SuccessorRange ==
    \A i \in -1..N-1 : /\ Successor(i) \in Processor
                       /\ i # -1 => Successor(i) # 0
BY SelectorAssumption DEF Successor, Processor

\* ToZero is a finite set, no larger than Thread.
LEMMA ToZeroFinite ==
    IsFiniteSet(ToZero) /\ Cardinality(ToZero) \in Nat
    /\ Cardinality(ToZero) <= Cardinality(Thread)
    /\ Cardinality(Thread) \in Nat
<1>1. ToZero \subseteq Thread
  BY DEF ToZero
<1> QED
  BY <1>1, FS_Subset, FS_CardinalityType, SelectorAssumption

\* The loop of a scan stays within processors_.
LEMMA NextIndex == \A k \in 1..N : k < N => k \in Processor /\ k + 1 \in 1..N
BY SelectorAssumption DEF Processor

LEMMA TypeInit == SelectorInit => IndexInRange
<1> SUFFICES ASSUME SelectorInit PROVE IndexInRange
  OBVIOUS
<1>1. -1 \in -1..N-1 /\ 1 \in Processor /\ 1 \in 1..N
  BY SelectorAssumption DEF Processor
<1>2. scanned \in [Thread -> [i : 1..N, min : Nat]]
  BY <1>1 DEF SelectorInit
<1> QED
  BY <1>1, <1>2 DEF SelectorInit, IndexInRange

LEMMA TypeStep == IndexInRange /\ [SelectorNext]_selectorVars => IndexInRange'
<1> SUFFICES ASSUME IndexInRange, [SelectorNext]_selectorVars PROVE IndexInRange'
  OBVIOUS
<1> USE SelectorAssumption DEF IndexInRange
<1>1. ASSUME NEW t \in Thread, LoadCurPro(t) PROVE IndexInRange'
  <2>1. Successor(curPro) \in Processor
    BY SuccessorRange
  <2> QED
    BY <1>1, <2>1 DEF LoadCurPro, EnterNext, StepTo, loadVars, scanVars, callVars
<1>2. ASSUME NEW t \in Thread, BeginScan(t) PROVE IndexInRange'
  <2>1. 0 \in Processor /\ 1 \in Processor /\ 1 \in 1..N
    BY DEF Processor
  <2>2. coCnt[0] \in Nat
    BY <2>1
  <2>3. scanned' \in [Thread -> [i : 1..N, min : Nat]]
    BY <1>2, <2>1, <2>2 DEF BeginScan
  <2> QED
    BY <1>2, <2>1, <2>3 DEF BeginScan, EnterNext, StepTo, loadVars
<1>3. ASSUME NEW t \in Thread, Scan(t) PROVE IndexInRange'
  <2> DEFINE i == scanned[t].i
  <2>0. scanned[t] \in [i : 1..N, min : Nat] /\ i < N
    BY <1>3 DEF Scan
  <2>1. i \in Processor /\ i + 1 \in 1..N
    BY <2>0, NextIndex
  <2>2. coCnt[i] \in Nat /\ scanned[t].min \in Nat
    BY <2>1
  <2>3. scanned' \in [Thread -> [i : 1..N, min : Nat]]
    BY <1>3, <2>1, <2>2 DEF Scan
  <2>4. idx' \in [Thread -> Processor]
    BY <1>3, <2>1 DEF Scan
  <2> QED
    BY <1>3, <2>3, <2>4 DEF Scan, loadVars, callVars
<1>4. ASSUME NEW t \in Thread, EndScan(t) PROVE IndexInRange'
  BY <1>4 DEF EndScan, StepTo, loadVars, scanVars, callVars
<1>5. ASSUME NEW t \in Thread, StoreCurPro(t) PROVE IndexInRange'
  <2>1. idx[t] \in Processor /\ idx[t] \in -1..N-1
    BY DEF Processor
  <2> QED
    BY <1>5, <2>1 DEF StoreCurPro, StepTo, loadVars, scanVars, callVars
<1>6. ASSUME NEW t \in Thread, GoNewCo(t) PROVE IndexInRange'
  BY <1>6 DEF GoNewCo, StepTo, scanVars, callVars
<1>7. ASSUME NEW p \in Processor, GoToProcessor(p) PROVE IndexInRange'
  BY <1>7 DEF GoToProcessor, scanVars
<1>8. ASSUME NEW p \in Processor, Insert(p) PROVE IndexInRange'
  BY <1>8 DEF Insert, callVars
<1>9. ASSUME NEW p \in Processor, Erase(p) PROVE IndexInRange'
  BY <1>9 DEF Erase, callVars
<1>10. CASE UNCHANGED selectorVars
  BY <1>10 DEF selectorVars
<1> QED
  BY <1>1, <1>2, <1>3, <1>4, <1>5, <1>6, <1>7, <1>8, <1>9, <1>10
  DEF SelectorNext, Pick

\* next() never leaves processors_ (processor_selector.cc:48-57).
THEOREM SelectorTypeCorrect == SelectorSpec => []IndexInRange
BY TypeInit, TypeStep, PTL DEF SelectorSpec

LEMMA ZeroInit == SelectorInit /\ strategy = "ROUND_ROBIN" => ZeroInv
<1> SUFFICES ASSUME SelectorInit, strategy = "ROUND_ROBIN" PROVE ZeroInv
  OBVIOUS
<1>1. ToZero = {}
  BY DEF SelectorInit, ToZero
<1>2. 0 \in Processor
  BY SelectorAssumption DEF Processor
<1>3. Cardinality(Thread) \in Nat
  BY ToZeroFinite
<1> QED
  BY <1>1, <1>2, <1>3, FS_EmptySet DEF SelectorInit, ZeroInv

LEMMA ZeroStep == IndexInRange /\ ZeroInv /\ [SelectorNext]_selectorVars => ZeroInv'
<1> SUFFICES ASSUME IndexInRange, ZeroInv, [SelectorNext]_selectorVars PROVE ZeroInv'
  OBVIOUS
<1>0. 0 \in Processor /\ picks[0] \in Nat
  BY SelectorAssumption DEF Processor, IndexInRange
<1> USE <1>0 DEF IndexInRange, ZeroInv
<1>1. ASSUME NEW t \in Thread, LoadCurPro(t) PROVE ZeroInv'
  <2>1. /\ strategy' = strategy
        /\ \A u \in Thread : step'[u] # "scan"
        /\ picks' = picks /\ curPro' = curPro
    BY <1>1 DEF LoadCurPro, EnterNext, StepTo, loadVars, scanVars, callVars
  <2>2. CASE curPro = -1
    <3>1. ToZero' \subseteq Thread
      BY DEF ToZero
    <3>2. Cardinality(ToZero') <= Cardinality(Thread)
      BY <3>1, FS_Subset, SelectorAssumption
    <3>3. IsFiniteSet(ToZero')
      BY <3>1, FS_Subset, SelectorAssumption
    <3>4. Cardinality(ToZero') \in Nat
      BY <3>3, FS_CardinalityType
    <3>5. Cardinality(Thread) \in Nat
      BY ToZeroFinite
    <3> QED
      BY <2>1, <2>2, <3>2, <3>4, <3>5
  <2>3. CASE curPro # -1
    <3>1. Successor(curPro) # 0
      BY <2>3, SuccessorRange
    <3>2. ToZero' = ToZero
      BY <1>1, <3>1 DEF LoadCurPro, EnterNext, StepTo, ToZero
    <3> QED
      BY <2>1, <2>3, <3>2
  <2> QED
    BY <2>2, <2>3
<1>2. ASSUME NEW t \in Thread, StoreCurPro(t) PROVE ZeroInv'
  <2>1. strategy' = strategy /\ \A u \in Thread : step'[u] # "scan"
    BY <1>2 DEF StoreCurPro, StepTo
  <2>a. curPro' = idx[t] /\ idx[t] \in 0..N-1
    BY <1>2 DEF StoreCurPro, Processor
  <2>b. curPro' # -1
    BY <2>a, SelectorAssumption
  <2>2. CASE idx[t] = 0
    <3>1. t \in ToZero /\ ToZero' = ToZero \ {t}
      BY <1>2, <2>2 DEF StoreCurPro, StepTo, ToZero, scanVars
    <3>2. Cardinality(ToZero') = Cardinality(ToZero) - 1
      BY <3>1, ToZeroFinite, FS_RemoveElement
    <3>3. picks'[0] = picks[0] + 1
      BY <1>2, <2>2 DEF StoreCurPro
    <3> QED
      BY <2>1, <2>b, <3>2, <3>3, ToZeroFinite
  <2>3. CASE idx[t] # 0
    <3>1. ToZero' = ToZero
      BY <1>2, <2>3 DEF StoreCurPro, StepTo, ToZero, scanVars
    <3>2. picks'[0] = picks[0]
      BY <1>2, <2>3 DEF StoreCurPro
    <3> QED
      BY <2>1, <2>b, <3>1, <3>2
  <2> QED
    BY <2>2, <2>3
<1>3. ASSUME NEW t \in Thread, GoNewCo(t) PROVE ZeroInv'
  <2>1. ToZero' = ToZero
    BY <1>3 DEF GoNewCo, StepTo, ToZero, scanVars, callVars
  <2> QED
    BY <1>3, <2>1 DEF GoNewCo, StepTo, scanVars, callVars
<1>4. ASSUME NEW t \in Thread, BeginScan(t) \/ Scan(t) \/ EndScan(t)
      PROVE  ZeroInv'
  BY <1>4 DEF BeginScan, Scan, EndScan
<1>5. ASSUME NEW p \in Processor, GoToProcessor(p) \/ Insert(p) \/ Erase(p)
      PROVE  ZeroInv'
  <2>1. UNCHANGED <<strategy, curPro, step, idx, picks>>
    BY <1>5 DEF GoToProcessor, Insert, Erase, scanVars, callVars
  <2> QED
    BY <2>1 DEF ToZero
<1>6. CASE UNCHANGED selectorVars
  BY <1>6 DEF selectorVars, ToZero
<1> QED
  BY <1>1, <1>2, <1>3, <1>4, <1>5, <1>6 DEF SelectorNext, Pick

\* Each thread makes at most one call that returns processor 0.
THEOREM ZeroAtMostOncePerThread == SelectorSpec => []ZeroPicksBounded
<1> DEFINE I == strategy = "ROUND_ROBIN" => ZeroInv
<1>1. SelectorInit => I
  BY ZeroInit
<1>2. IndexInRange /\ I /\ [SelectorNext]_selectorVars => I'
  <2> SUFFICES ASSUME IndexInRange, I, [SelectorNext]_selectorVars PROVE I'
    OBVIOUS
  <2>1. strategy' = strategy
    BY DEF SelectorNext, Pick, LoadCurPro, BeginScan, Scan, EndScan, StoreCurPro,
           GoNewCo, GoToProcessor, Insert, Erase, selectorVars
  <2> QED
    BY <2>1, ZeroStep
<1>3. IndexInRange /\ I => ZeroPicksBounded
  <2> SUFFICES ASSUME IndexInRange, I PROVE ZeroPicksBounded
    OBVIOUS
  <2>1. picks[0] \in Nat
    BY SelectorAssumption DEF IndexInRange, Processor
  <2> QED
    BY <2>1, ToZeroFinite DEF ZeroInv, ZeroPicksBounded
<1> HIDE DEF I
<1> QED
  BY <1>1, <1>2, <1>3, SelectorTypeCorrect, PTL DEF SelectorSpec

-----------------------------------------------------------------------------
(* Round robin takes turns, up to those that are lost.                     *)

\* What the round under way has given p, if it began at 1 and is at c.
Turn(p, c) == IF p <= c THEN 1 ELSE 0

\* No processor is ahead of another by more than the round under way and the
\* turns lost account for, wherever curPro_ is.
TurnsInv ==
    \A p, q \in Processor \ {0} :
        picks[p] + Turn(q, curPro) <= picks[q] + lost + Turn(p, curPro)

\* Turn is 0 or 1, and a round gives its turns from 1 upwards.
LEMMA TurnRange ==
    ASSUME NEW c \in -1..N-1, NEW p \in Processor, NEW q \in Processor
    PROVE  /\ Turn(p, c) \in {0, 1}
           /\ p <= q => Turn(q, c) <= Turn(p, c)
BY SelectorAssumption DEF Turn, Processor

LEMMA TurnsInit == SelectorInit => TurnsInv
BY SelectorAssumption DEF SelectorInit, TurnsInv, Turn, Processor

\* A store of the successor moves the round under way on by one, and from its
\* end to the first of the next.
LEMMA TurnTaken ==
    ASSUME IndexInRange, TurnsInv, NEW t \in Thread, StoreCurPro(t),
           idx[t] = Successor(curPro)
    PROVE  TurnsInv'
<1> DEFINE i == idx[t]
<1>0. curPro \in -1..N-1 /\ N \in Nat /\ N >= 2 /\ i \in Processor
  BY SelectorAssumption DEF IndexInRange
<1>1. curPro' = i /\ lost' = lost /\ lost \in Nat
  BY DEF StoreCurPro, IndexInRange
<1>2. \A p \in Processor : /\ picks'[p] = IF p = i THEN picks[p] + 1 ELSE picks[p]
                           /\ picks[p] \in Nat
  BY DEF StoreCurPro, IndexInRange
<1>3. \A p \in Processor \ {0} : p \in Nat /\ p >= 1 /\ p < N
  BY <1>0 DEF Processor
<1>4. SUFFICES ASSUME NEW p \in Processor \ {0}, NEW q \in Processor \ {0}
               PROVE  picks'[p] + Turn(q, i) <= picks'[q] + lost + Turn(p, i)
  BY <1>1 DEF TurnsInv, Turn
<1>5. picks[p] + Turn(q, curPro) <= picks[q] + lost + Turn(p, curPro)
  BY DEF TurnsInv
<1>6. /\ picks[p] \in Nat /\ picks[q] \in Nat /\ picks'[p] \in Nat /\ picks'[q] \in Nat
      /\ \A c \in {curPro, i} : Turn(p, c) \in {0, 1} /\ Turn(q, c) \in {0, 1}
  <2>1. i \in -1..N-1
    BY <1>0 DEF Processor
  <2> QED
    BY <1>0, <1>2, <2>1, TurnRange
<1>7. CASE curPro + 1 < N
  <2>1. i = curPro + 1
    BY <1>0, <1>7 DEF Successor
  <2>2. \A x \in {p, q} : picks'[x] + Turn(x, curPro) = picks[x] + Turn(x, i)
    BY <1>0, <1>2, <1>3, <2>1 DEF Turn
  <2> QED
    BY <1>1, <1>5, <1>6, <2>2
<1>8. CASE curPro + 1 >= N
  <2>1. i = 1 /\ curPro = N - 1
    BY <1>0, <1>8 DEF Successor
  <2>2. \A x \in {p, q} : /\ Turn(x, curPro) = 1
                          /\ picks'[x] = picks[x] + Turn(x, i)
    BY <1>0, <1>2, <1>3, <2>1 DEF Turn
  <2> QED
    BY <1>1, <1>5, <1>6, <2>2
<1> QED
  BY <1>0, <1>7, <1>8

\* Any other store, of whatever index, adds no more than one to what any
\* processor is ahead.
LEMMA TurnLost ==
    ASSUME IndexInRange, TurnsInv, NEW t \in Thread, StoreCurPro(t),
           idx[t] # Successor(curPro)
    PROVE  TurnsInv'
<1> DEFINE i == idx[t]
<1>0. curPro \in -1..N-1 /\ N \in Nat /\ N >= 2 /\ i \in Processor
  BY SelectorAssumption DEF IndexInRange
<1>1. curPro' = i /\ lost' = lost + 1 /\ lost \in Nat
  BY DEF StoreCurPro, IndexInRange
<1>2. \A p \in Processor : /\ picks'[p] = IF p = i THEN picks[p] + 1 ELSE picks[p]
                           /\ picks[p] \in Nat
  BY DEF StoreCurPro, IndexInRange
<1>3. \A p \in Processor : p \in Nat /\ i \in -1..N-1
  BY <1>0 DEF Processor
<1>4. SUFFICES ASSUME NEW p \in Processor \ {0}, NEW q \in Processor \ {0}
               PROVE  picks'[p] + Turn(q, i) <= picks'[q] + (lost + 1) + Turn(p, i)
  BY <1>1 DEF TurnsInv, Turn
<1>5. picks[p] + Turn(q, curPro) <= picks[q] + lost + Turn(p, curPro)
  BY DEF TurnsInv
<1>6. p <= q \/ q <= p
  BY <1>3
<1>7. Turn(i, i) = 1
  BY <1>3 DEF Turn
<1>8. /\ \A c \in {curPro, i} : Turn(p, c) \in {0, 1} /\ Turn(q, c) \in {0, 1}
      /\ p <= q => Turn(q, curPro) <= Turn(p, curPro) /\ Turn(q, i) <= Turn(p, i)
      /\ q <= p => Turn(p, curPro) <= Turn(q, curPro) /\ Turn(p, i) <= Turn(q, i)
  BY <1>0, <1>3, TurnRange
<1>9. CASE p = i /\ q # i
  <2>1. q <= i <=> Turn(q, i) = 1
    BY <1>3 DEF Turn
  <2> QED
    BY <1>1, <1>2, <1>5, <1>6, <1>7, <1>8, <1>9, <2>1
<1>10. CASE p # i /\ q = i
  BY <1>1, <1>2, <1>5, <1>7, <1>8, <1>10
<1>11. CASE (p = i) <=> (q = i)
  BY <1>1, <1>2, <1>5, <1>6, <1>8, <1>11
<1> QED
  BY <1>9, <1>10, <1>11

LEMMA TurnsStep == IndexInRange /\ TurnsInv /\ [SelectorNext]_selectorVars => TurnsInv'
<1> SUFFICES ASSUME IndexInRange, TurnsInv, [SelectorNext]_selectorVars
             PROVE  TurnsInv'
  OBVIOUS
<1>1. ASSUME NEW t \in Thread, StoreCurPro(t) PROVE TurnsInv'
  BY <1>1, TurnTaken, TurnLost
<1>2. CASE UNCHANGED <<curPro, picks, lost>>
  BY <1>2 DEF TurnsInv, Turn
<1>3. ASSUME NEW t \in Thread,
             LoadCurPro(t) \/ BeginScan(t) \/ Scan(t) \/ EndScan(t) \/ GoNewCo(t)
      PROVE  TurnsInv'
  BY <1>2, <1>3 DEF LoadCurPro, BeginScan, Scan, EndScan, GoNewCo, EnterNext, callVars
<1>4. ASSUME NEW p \in Processor, GoToProcessor(p) \/ Insert(p) \/ Erase(p)
      PROVE  TurnsInv'
  BY <1>2, <1>4 DEF GoToProcessor, Insert, Erase, callVars
<1>5. CASE UNCHANGED selectorVars
  BY <1>2, <1>5 DEF selectorVars
<1> QED
  BY <1>1, <1>3, <1>4, <1>5 DEF SelectorNext, Pick

\* Round robin takes turns, but for one coroutine for each turn that calls on
\* other threads have overwritten (processor_selector.cc:48-57).
THEOREM RoundRobinBalanced == SelectorSpec => []Balanced
<1>1. IndexInRange /\ TurnsInv => Balanced
  <2> SUFFICES ASSUME IndexInRange, TurnsInv,
                      NEW p \in Processor \ {0}, NEW q \in Processor \ {0}
               PROVE  picks[p] <= picks[q] + 1 + lost
    BY DEF Balanced
  <2>1. /\ picks[p] \in Nat /\ picks[q] \in Nat /\ lost \in Nat
        /\ Turn(p, curPro) \in {0, 1} /\ Turn(q, curPro) \in {0, 1}
    BY TurnRange DEF IndexInRange
  <2>2. picks[p] + Turn(q, curPro) <= picks[q] + lost + Turn(p, curPro)
    BY DEF TurnsInv
  <2> QED
    BY <2>1, <2>2
<1> QED
  BY <1>1, TurnsInit, TurnsStep, SelectorTypeCorrect, PTL DEF SelectorSpec

-----------------------------------------------------------------------------
(* What a scan finds that nothing has disturbed.                           *)

\* What t's scan knows of the processors before scanned[t].i.
Found(t) ==
    \/ /\ idx[t] = 1
       /\ scanned[t].min = coCnt[0]
       /\ \A p \in Processor : p < scanned[t].i => coCnt[0] <= coCnt[p]
    \/ /\ scanned[t].min = coCnt[idx[t]]
       /\ coCnt[idx[t]] < coCnt[0]
       /\ \A p \in Processor : p < scanned[t].i => coCnt[idx[t]] <= coCnt[p]

LeastInv ==
    strategy = "MIN_EVENT_FIRST" =>
      \A t \in Thread \ stale :
        /\ step[t] # "idle" => Found(t)
        /\ step[t] \in {"store", "return"} => scanned[t].i = N

LEMMA LeastInit == SelectorInit => LeastInv
BY DEF SelectorInit, LeastInv

\* One turn of the loop keeps what the scan knows, and adds processor i.
LEMMA ScanFinds ==
    ASSUME IndexInRange, NEW t \in Thread, Scan(t), Found(t)
    PROVE  Found(t)'
<1> DEFINE i == scanned[t].i
           m == scanned[t].min
<1>0. scanned[t] \in [i : 1..N, min : Nat] /\ i < N /\ idx[t] \in Processor
  BY DEF Scan, IndexInRange
<1>1. i \in Processor /\ i \in Nat /\ 0 \in Processor
  BY <1>0, NextIndex, SelectorAssumption DEF Processor
<1>2. /\ coCnt' = coCnt
      /\ scanned'[t] = [i |-> i + 1, min |-> IF coCnt[i] < m THEN coCnt[i] ELSE m]
      /\ idx'[t] = IF coCnt[i] < m THEN i ELSE idx[t]
  BY DEF Scan, IndexInRange, loadVars
<1>3. \A p \in Processor : p < i + 1 <=> p < i \/ p = i
  BY <1>1 DEF Processor
<1>4. \A p \in Processor : coCnt[p] \in Nat
  BY DEF IndexInRange
<1>5. m \in Nat /\ m <= coCnt[0]
  BY <1>0, <1>1, <1>4 DEF Found
<1>6. \A p \in Processor : p < i => m <= coCnt[p]
  BY <1>0, <1>1, <1>4 DEF Found
<1>7. CASE coCnt[i] < m
  <2>1. scanned'[t].i = i + 1 /\ scanned'[t].min = coCnt[i] /\ idx'[t] = i
    BY <1>2, <1>7
  <2>2. coCnt[i] < coCnt[0]
    BY <1>1, <1>4, <1>5, <1>7
  <2>3. \A p \in Processor : p < i + 1 => coCnt[i] <= coCnt[p]
    BY <1>1, <1>3, <1>4, <1>5, <1>6, <1>7
  <2> QED
    BY <1>2, <2>1, <2>2, <2>3 DEF Found
<1>8. CASE ~(coCnt[i] < m)
  <2>1. scanned'[t].i = i + 1 /\ scanned'[t].min = m /\ idx'[t] = idx[t]
    BY <1>2, <1>8
  <2>2. \A p \in Processor : p < i + 1 => m <= coCnt[p]
    BY <1>1, <1>3, <1>4, <1>5, <1>6, <1>8
  <2> QED
    BY <1>2, <2>1, <2>2 DEF Found
<1> QED
  BY <1>7, <1>8

LEMMA LeastStep == IndexInRange /\ LeastInv /\ [SelectorNext]_selectorVars => LeastInv'
<1> SUFFICES ASSUME IndexInRange, LeastInv, [SelectorNext]_selectorVars,
                    strategy' = "MIN_EVENT_FIRST",
                    NEW u \in Thread, u \notin stale'
             PROVE  /\ step'[u] # "idle" => Found(u)'
                    /\ step'[u] \in {"store", "return"} => scanned'[u].i = N
  BY DEF LeastInv, Found
<1> DEFINE Goal == /\ step'[u] # "idle" => Found(u)'
                   /\ step'[u] \in {"store", "return"} => scanned'[u].i = N
<1>0. ASSUME u \notin stale, strategy = "MIN_EVENT_FIRST", step'[u] = step[u],
             idx'[u] = idx[u], scanned'[u] = scanned[u], coCnt' = coCnt
      PROVE  Goal
  BY <1>0 DEF LeastInv, Found
<1>1. ASSUME NEW t \in Thread, LoadCurPro(t) PROVE Goal
  BY <1>1 DEF LoadCurPro
<1>2. ASSUME NEW t \in Thread, BeginScan(t) PROVE Goal
  <2>1. CASE u = t
    <3>1. step'[u] = "scan" /\ idx'[u] = 1 /\ coCnt' = coCnt
          /\ scanned'[u] = [i |-> 1, min |-> coCnt[0]]
      BY <1>2, <2>1 DEF BeginScan, StepTo, IndexInRange, loadVars
    <3>2. \A p \in Processor : p < 1 => p = 0
      BY DEF Processor
    <3>3. coCnt[0] <= coCnt[0]
      BY SelectorAssumption DEF IndexInRange, Processor
    <3>4. Found(u)'
      BY <3>1, <3>2, <3>3 DEF Found
    <3> QED
      BY <3>1, <3>4
  <2>2. CASE u # t
    BY <1>0, <1>2, <2>2 DEF BeginScan, StepTo, IndexInRange, loadVars
  <2> QED
    BY <2>1, <2>2
<1>3. ASSUME NEW t \in Thread, Scan(t) PROVE Goal
  <2>0. strategy = "MIN_EVENT_FIRST" /\ stale' = stale /\ step' = step /\ step[t] = "scan"
    BY <1>3 DEF Scan
  <2>1. CASE u = t
    BY <1>3, <2>0, <2>1, ScanFinds DEF LeastInv
  <2>2. CASE u # t
    BY <1>0, <1>3, <2>0, <2>2 DEF Scan, IndexInRange, loadVars
  <2> QED
    BY <2>1, <2>2
<1>4. ASSUME NEW t \in Thread, EndScan(t) PROVE Goal
  <2>0. /\ strategy = "MIN_EVENT_FIRST" /\ step[t] = "scan" /\ scanned[t].i = N
        /\ UNCHANGED <<coCnt, idx, scanned, stale>>
        /\ step' = [step EXCEPT ![t] = "store"]
    BY <1>4 DEF EndScan, StepTo, scanVars, loadVars
  <2>1. CASE u = t
    BY <2>0, <2>1 DEF LeastInv, Found
  <2>2. CASE u # t
    BY <1>0, <2>0, <2>2 DEF IndexInRange
  <2> QED
    BY <2>1, <2>2
<1>5. ASSUME NEW t \in Thread, StoreCurPro(t) PROVE Goal
  <2>0. /\ strategy = "MIN_EVENT_FIRST" /\ step[t] = "store"
        /\ UNCHANGED <<coCnt, idx, scanned, stale>>
        /\ step' = [step EXCEPT ![t] = "return"]
    BY <1>5 DEF StoreCurPro, StepTo, scanVars, loadVars
  <2>1. CASE u = t
    BY <2>0, <2>1 DEF LeastInv, Found
  <2>2. CASE u # t
    BY <1>0, <2>0, <2>2 DEF IndexInRange
  <2> QED
    BY <2>1, <2>2
<1>6. ASSUME NEW t \in Thread, GoNewCo(t) PROVE Goal
  <2>0. /\ strategy = "MIN_EVENT_FIRST"
        /\ UNCHANGED <<coCnt, idx, scanned, stale>>
        /\ step' = [step EXCEPT ![t] = "idle"]
    BY <1>6 DEF GoNewCo, StepTo, scanVars
  <2>1. CASE u = t
    BY <2>0, <2>1 DEF IndexInRange
  <2>2. CASE u # t
    BY <1>0, <2>0, <2>2 DEF IndexInRange
  <2> QED
    BY <2>1, <2>2
<1>7. ASSUME NEW p \in Processor, GoToProcessor(p) PROVE Goal
  BY <1>0, <1>7 DEF GoToProcessor, scanVars
<1>8. ASSUME NEW p \in Processor, Insert(p) \/ Erase(p) PROVE Goal
  BY <1>8 DEF Insert, Erase
<1>9. CASE UNCHANGED selectorVars
  BY <1>0, <1>9 DEF selectorVars
<1> QED
  BY <1>1, <1>2, <1>3, <1>4, <1>5, <1>6, <1>7, <1>8, <1>9 DEF SelectorNext, Pick

\* A scan under which no count has changed returns a processor with the fewest
\* coroutines, when one has fewer than processor 0 (processor_selector.cc:28-44).
THEOREM MinEventFirst == SelectorSpec => []LeastWhenBelowZero
<1>1. IndexInRange /\ LeastInv => LeastWhenBelowZero
  <2> SUFFICES ASSUME IndexInRange, LeastInv, strategy = "MIN_EVENT_FIRST",
                      NEW t \in Thread \ stale, Picked(t),
                      NEW q \in Processor, coCnt[q] < coCnt[0]
               PROVE  \A p \in Processor : coCnt[idx[t]] <= coCnt[p]
    BY DEF LeastWhenBelowZero
  <2>1. Found(t) /\ scanned[t].i = N
    BY DEF LeastInv, Picked
  <2>2. \A p \in Processor : p < N
    BY SelectorAssumption DEF Processor
  <2>3. coCnt[q] \in Nat /\ coCnt[0] \in Nat
    BY SelectorAssumption DEF IndexInRange, Processor
  <2>4. ~(coCnt[0] <= coCnt[q])
    BY <2>3
  <2> QED
    BY <2>1, <2>2, <2>4 DEF Found
<1> QED
  BY <1>1, LeastInit, LeastStep, SelectorTypeCorrect, PTL DEF SelectorSpec
===============================================================================
