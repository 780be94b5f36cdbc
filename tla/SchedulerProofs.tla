---------------------------- MODULE SchedulerProofs ----------------------------
(***************************************************************************)
(* For any number of threads and of processors: one scheduler is made, by  *)
(* one thread, every caller is returned that one, and whoever waited for   *)
(* the mutex is returned it complete.                                      *)
(***************************************************************************)
EXTENDS Scheduler, FiniteSetTheorems, TLAPS

\* The two tests make sense of each other: whoever has the mutex and found
\* pScher_ unset still finds it unset when it makes the scheduler.
PublishedOnce ==
    /\ pScher = made
    /\ made <= 1
    /\ \A t \in Thread :
         /\ pc[t] = "new" => made = 0
         /\ pc[t] \in {"start", "loop"} => made = 1 /\ got[t] = 1
         /\ pc[t] \in {"unlock", "join"} \/ Returned(t) => made = 1
         /\ pc[t] = "join" \/ Returned(t) => got[t] = 1

IInv == TypeOK /\ StartedAlone /\ PublishedOnce

\* startScheduler's loop after i rounds.
FirstProcessors(i) == {1} \X (0..i-1)

\* startScheduler fills processors_ from the left and calls each loop() before
\* it makes the next processor; a scheduler that nobody starts is complete.
FilledInOrder ==
    /\ made = 0 => processors = {}
    /\ \E i \in 0..N : processors = FirstProcessors(i)
    /\ \A t \in Thread : pc[t] = "start" => looping = processors
    /\ (\A t \in Thread : pc[t] \notin {"start", "loop"}) /\ made = 1
         => looping = FirstProcessors(N)

\* The i of startScheduler's loop.
LEMMA ProcessorsFinite ==
    ASSUME TypeOK, NEW s
    PROVE  Cardinality(MadeBy(s)) \in Nat
<1>1. IsFiniteSet(1..made) /\ IsFiniteSet(0..N-1)
  BY FS_Interval, SchedulerAssumption DEF TypeOK
<1>2. IsFiniteSet((1..made) \X (0..N-1))
  BY <1>1, FS_Product
<1>3. MadeBy(s) \subseteq (1..made) \X (0..N-1)
  BY DEF TypeOK, MadeBy
<1> QED
  BY <1>2, <1>3, FS_Subset, FS_CardinalityType

LEMMA FirstCounted ==
    ASSUME NEW i \in 0..N
    PROVE  Cardinality(FirstProcessors(i)) = i
<1>1. IsFiniteSet(0..i-1) /\ Cardinality(0..i-1) = i
  BY SMTT(30), FS_Interval, SchedulerAssumption
<1>2. IsFiniteSet({1}) /\ Cardinality({1}) = 1
  BY FS_Singleton
<1>3. Cardinality({1} \X (0..i-1)) = 1 * i
  BY ZenonT(30), <1>1, <1>2, FS_Product
<1> QED
  BY <1>3 DEF FirstProcessors

LEMMA InvInit == Init => IInv
BY SchedulerAssumption
DEF Init, IInv, TypeOK, StartedAlone, PublishedOnce, Slow, Returned

LEMMA InvStep == IInv /\ [Next]_vars => IInv'
<1> SUFFICES ASSUME IInv, [Next]_vars PROVE IInv'
  OBVIOUS
<1> USE SchedulerAssumption
    DEF IInv, TypeOK, StartedAlone, PublishedOnce, Slow, Returned,
        vars, getVars, lifeVars
<1>1. ASSUME NEW t \in Thread, CheckUnlocked(t) PROVE IInv'
  <2>1. CASE pScher # 0
    <3>1. pScher = 1 /\ made = 1
      BY <2>1
    <3> QED
      BY <1>1, <2>1, <3>1 DEF CheckUnlocked, Goto
  <2>2. CASE pScher = 0
    BY <1>1, <2>2 DEF CheckUnlocked, Goto
  <2> QED
    BY <2>1, <2>2
<1>2. ASSUME NEW t \in Thread, Lock(t) PROVE IInv'
  BY <1>2 DEF Lock, Goto
<1>3. ASSUME NEW t \in Thread, CheckLocked(t) PROVE IInv'
  BY <1>3 DEF CheckLocked, Goto
<1>4. ASSUME NEW t \in Thread, Publish(t) PROVE IInv'
  <2>0. made = 0 /\ made + 1 = 1
    BY <1>4 DEF Publish
  <2>1. made = 0 /\ made' = 1 /\ pScher' = 1 /\ got' = [got EXCEPT ![t] = 1]
    BY <1>4, <2>0 DEF Publish
  <2>2. processors = {} /\ looping = {}
    <3>1. 1..made = {}
      BY <2>1
    <3>2. processors \subseteq (1..made) \X (0..N-1) /\ looping \subseteq processors
      OBVIOUS
    <3> HIDE DEF TypeOK, IInv
    <3> QED
      BY <3>1, <3>2
  <2>3. \A u \in Thread \ {t} : pc[u] \notin Slow /\ ~Returned(u)
    BY <1>4, <2>1 DEF Publish
  <2>4. TypeOK'
    BY <1>4, <2>1, <2>2 DEF Publish, Goto
  <2>5. StartedAlone'
    BY <1>4 DEF Publish, Goto
  <2>6. PublishedOnce'
    BY <1>4, <2>1, <2>3 DEF Publish, Goto
  <2> QED
    BY <2>4, <2>5, <2>6
<1>5. ASSUME NEW t \in Thread, Emplace(t) PROVE IInv'
  <2> DEFINE i == Cardinality(MadeBy(got[t]))
  <2>1. i \in Nat
    BY ProcessorsFinite
  <2>2. i < N /\ got[t] = 1 /\ made = 1
    BY <1>5 DEF Emplace
  <2>3. <<got[t], i>> \in (1..made) \X (0..N-1)
    BY <2>1, <2>2
  <2>4. TypeOK'
    BY <1>5, <2>3 DEF Emplace, NewProcessor, Goto
  <2>5. StartedAlone' /\ PublishedOnce'
    BY <1>5 DEF Emplace, NewProcessor, Goto
  <2> QED
    BY <2>4, <2>5
<1>6. ASSUME NEW t \in Thread, StartLoop(t) PROVE IInv'
  <2>1. MadeBy(got[t]) \subseteq processors
    BY DEF MadeBy
  <2> QED
    BY <1>6, <2>1 DEF StartLoop, Goto
<1>7. ASSUME NEW t \in Thread, EndStart(t) PROVE IInv'
  BY <1>7 DEF EndStart, Goto
<1>8. ASSUME NEW t \in Thread, Unlock(t) PROVE IInv'
  <2>1. made = 1 /\ pScher = 1 /\ mtx = t
    BY <1>8 DEF Unlock
  <2> QED
    BY <1>8, <2>1 DEF Unlock, Goto
<1>9. ASSUME NEW t \in Thread, Use(t) PROVE IInv'
  BY <1>9 DEF Use, Goto
<1>10. ASSUME NEW t \in Thread, Stop(t) PROVE IInv'
  BY <1>10 DEF Stop, MadeBy
<1>11. ASSUME NEW t \in Thread, CallJoin(t) PROVE IInv'
  BY <1>11 DEF CallJoin, Goto
<1>12. ASSUME NEW t \in Thread, Join(t) PROVE IInv'
  <2>1. CASE JoinNext(t)
    BY <2>1 DEF JoinNext, MadeBy
  <2>2. CASE EndJoin(t)
    BY <2>2 DEF EndJoin, Goto
  <2> QED
    BY <1>12, <2>1, <2>2 DEF Join
<1>13. ASSUME NEW p \in looping, InitFails(p) \/ LoopStep(p) PROVE IInv'
  BY SMTT(30), <1>13 DEF InitFails, LoopStep, BeginLoop, EndLoop
<1>14. CASE UNCHANGED vars
  BY <1>14
<1> QED
  BY <1>1, <1>2, <1>3, <1>4, <1>5, <1>6, <1>7, <1>8, <1>9, <1>10, <1>11,
     <1>12, <1>13, <1>14
  DEF Next, GetScheduler

LEMMA SchedulerInvariance == Spec => []IInv
BY InvInit, InvStep, PTL DEF Spec

LEMMA FilledInit == Init => FilledInOrder
<1> SUFFICES ASSUME Init PROVE FilledInOrder
  OBVIOUS
<1>1. 0 \in 0..N /\ 0..(0-1) = {}
  BY SchedulerAssumption
<1>2. FirstProcessors(0) = {}
  BY <1>1 DEF FirstProcessors
<1> QED
  BY <1>1, <1>2 DEF Init, FilledInOrder

LEMMA FilledStep == IInv /\ FilledInOrder /\ [Next]_vars => FilledInOrder'
<1> SUFFICES ASSUME IInv, FilledInOrder, [Next]_vars PROVE FilledInOrder'
  OBVIOUS
<1> USE SchedulerAssumption
<1>0. \A t, u \in Thread : pc[t] \in Slow /\ pc[u] \in Slow => t = u
  BY DEF IInv, StartedAlone
<1>1. made \in Nat /\ pc \in [Thread -> {"out", "lock", "fast", "slow", "join"} \union Slow]
  BY DEF IInv, TypeOK
<1>2. \A t \in Thread : pc[t] \in {"start", "loop"} => made = 1 /\ got[t] = 1
  BY DEF IInv, PublishedOnce
<1>3. ASSUME UNCHANGED <<made, processors, looping>>,
             \A t \in Thread : pc'[t] \in {"start", "loop"} <=> pc[t] \in {"start", "loop"},
             \A t \in Thread : pc'[t] = "start" => pc[t] = "start"
      PROVE  FilledInOrder'
  BY <1>3 DEF FilledInOrder, FirstProcessors
<1>4. ASSUME NEW t \in Thread,
             CheckUnlocked(t) \/ Lock(t) \/ CheckLocked(t) \/ Unlock(t) \/ Use(t)
               \/ Stop(t) \/ CallJoin(t) \/ Join(t)
      PROVE  FilledInOrder'
  BY <1>1, <1>3, <1>4
  DEF CheckUnlocked, Lock, CheckLocked, Unlock, Use, Stop, CallJoin, Join,
      JoinNext, EndJoin, Goto, getVars, lifeVars, Slow, Returned
<1>5. ASSUME NEW t \in Thread, Publish(t) PROVE FilledInOrder'
  <2>1. made = 0 /\ processors = {} /\ looping = {}
    BY <1>5 DEF Publish, IInv, PublishedOnce, FilledInOrder, TypeOK
  <2>2. made' = 1 /\ UNCHANGED <<processors, looping>> /\ pc'[t] = "start"
    BY <1>1, <1>5, <2>1 DEF Publish, Goto
  <2> QED
    BY <2>1, <2>2 DEF FilledInOrder, FirstProcessors
<1>6. ASSUME NEW t \in Thread, Emplace(t) PROVE FilledInOrder'
  <2>1. PICK i \in 0..N : processors = FirstProcessors(i)
    BY DEF FilledInOrder
  <2>2. got[t] = 1 /\ MadeBy(got[t]) = processors
    BY <1>2, <1>6, <2>1 DEF Emplace, MadeBy, FirstProcessors
  <2>3. i < N /\ processors' = processors \union {<<1, i>>}
    BY <1>6, <2>1, <2>2, FirstCounted DEF Emplace, NewProcessor
  <2>4. i + 1 \in 0..N /\ 0..(i+1)-1 = (0..i-1) \union {i}
    BY <2>3
  <2>5. processors' = FirstProcessors(i + 1)
    BY <2>1, <2>3, <2>4 DEF FirstProcessors
  <2>6. pc'[t] = "loop" /\ made' = 1
    BY <1>1, <1>2, <1>6 DEF Emplace, Goto
  <2>7. \A u \in Thread : pc'[u] # "start"
    BY <1>0, <1>1, <1>6 DEF Emplace, Goto, Slow
  <2> QED
    BY <2>4, <2>5, <2>6, <2>7 DEF FilledInOrder, FirstProcessors
<1>7. ASSUME NEW t \in Thread, StartLoop(t) PROVE FilledInOrder'
  <2>1. MadeBy(got[t]) = processors
    BY <1>2, <1>7 DEF StartLoop, MadeBy, FilledInOrder, FirstProcessors
  <2>2. looping' = processors /\ UNCHANGED <<made, processors>>
    BY <1>7, <2>1 DEF StartLoop, IInv, TypeOK
  <2>3. pc'[t] = "start" /\ made = 1
    BY <1>1, <1>2, <1>7 DEF StartLoop, Goto
  <2> QED
    BY <2>2, <2>3 DEF FilledInOrder, FirstProcessors
<1>8. ASSUME NEW t \in Thread, EndStart(t) PROVE FilledInOrder'
  <2>1. PICK i \in 0..N : processors = FirstProcessors(i)
    BY DEF FilledInOrder
  <2>2. got[t] = 1 /\ MadeBy(got[t]) = processors
    BY <1>2, <1>8, <2>1 DEF EndStart, MadeBy, FirstProcessors
  <2>3. processors = FirstProcessors(N) /\ looping = processors
    BY <1>8, <2>1, <2>2, FirstCounted DEF EndStart, FilledInOrder
  <2>4. \A u \in Thread : pc'[u] # "start"
    BY <1>0, <1>1, <1>8 DEF EndStart, Goto, Slow
  <2>5. UNCHANGED <<made, processors, looping>> /\ N \in 0..N
    BY <1>8 DEF EndStart, getVars
  <2> QED
    BY <1>2, <1>8, <2>3, <2>4, <2>5 DEF FilledInOrder, FirstProcessors, EndStart
<1>9. ASSUME NEW p \in looping, InitFails(p) \/ LoopStep(p) PROVE FilledInOrder'
  BY <1>3, <1>9 DEF InitFails, LoopStep, BeginLoop, EndLoop, getVars
<1>10. CASE UNCHANGED vars
  BY <1>3, <1>10 DEF vars, getVars
<1> QED
  BY <1>4, <1>5, <1>6, <1>7, <1>8, <1>9, <1>10 DEF Next, GetScheduler

\* Whoever is about to be, or has been, returned the scheduler by way of the
\* mutex finds that nobody is starting it any more.
NobodyStarts ==
    \A t, u \in Thread :
      pc[t] \in {"unlock", "slow"} => pc[u] \notin {"start", "loop"}

LEMMA NobodyStartsStep ==
    IInv /\ NobodyStarts /\ [Next]_vars => NobodyStarts'
<1> SUFFICES ASSUME IInv, NobodyStarts, [Next]_vars,
                    NEW t \in Thread, NEW u \in Thread,
                    pc'[t] \in {"unlock", "slow"}, pc'[u] \in {"start", "loop"}
             PROVE  FALSE
  BY DEF NobodyStarts
<1> USE DEF IInv, TypeOK, StartedAlone, PublishedOnce, NobodyStarts, Slow, Returned
<1>1. ASSUME NEW v \in Thread, GetScheduler(v) PROVE FALSE
  BY <1>1
  DEF GetScheduler, CheckUnlocked, Lock, CheckLocked, Publish, Emplace,
      StartLoop, EndStart, Unlock, Goto, getVars, lifeVars
<1>2. ASSUME NEW v \in Thread, Use(v) \/ Stop(v) \/ CallJoin(v) \/ Join(v) PROVE FALSE
  BY <1>2 DEF Use, Stop, CallJoin, Join, JoinNext, EndJoin, Goto, getVars, lifeVars
<1>3. ASSUME NEW p \in looping, InitFails(p) \/ LoopStep(p) PROVE FALSE
  BY <1>3 DEF InitFails, LoopStep, BeginLoop, EndLoop
<1>4. CASE UNCHANGED vars
  BY <1>4 DEF vars
<1> QED
  BY <1>1, <1>2, <1>3, <1>4 DEF Next

CompleteInv == IInv /\ FilledInOrder /\ NobodyStarts

LEMMA CompleteInvariance == Spec => []CompleteInv
<1>1. Init => CompleteInv
  BY InvInit, FilledInit DEF CompleteInv, Init, NobodyStarts
<1>2. CompleteInv /\ [Next]_vars => CompleteInv'
  BY InvStep, FilledStep, NobodyStartsStep DEF CompleteInv
<1> QED
  BY <1>1, <1>2, PTL DEF Spec

\* getScheduler keeps its variables in their ranges.
THEOREM SchedulerTypeCorrect == Spec => []TypeOK
BY SchedulerInvariance, PTL DEF IInv

\* scherMtx_ is held from the second test to the last loop().
THEOREM MutexCoversStart == Spec => []StartedAlone
BY SchedulerInvariance, PTL DEF IInv

\* One scheduler is made and every call returns it.
THEOREM Singleton == Spec => []OneScheduler
<1>1. IInv => OneScheduler
  BY DEF IInv, PublishedOnce, OneScheduler
<1> QED
  BY <1>1, SchedulerInvariance, PTL

\* A caller that waited for the mutex is returned a scheduler whose processors
\* all exist and have all been started, however many there are.
THEOREM ReadyBehindMutex == Spec => []ReadyAfterMutex
<1>1. CompleteInv => ReadyAfterMutex
  <2> SUFFICES ASSUME CompleteInv, NEW t \in Thread, pc[t] = "slow"
               PROVE  looping = {got[t]} \X (0..N-1)
    BY DEF ReadyAfterMutex
  <2>1. made = 1 /\ got[t] = 1
    BY DEF CompleteInv, IInv, PublishedOnce, Returned
  <2>2. \A u \in Thread : pc[u] \notin {"start", "loop"}
    BY DEF CompleteInv, NobodyStarts
  <2> QED
    BY <2>1, <2>2 DEF CompleteInv, FilledInOrder, FirstProcessors
<1> QED
  BY <1>1, CompleteInvariance, PTL
===============================================================================
