---------------------------- MODULE RWMutexProofs ----------------------------
(***************************************************************************)
(* Proofs about RWMutex for every finite set of coroutines, placed in any  *)
(* way on any set of processors.                                           *)
(***************************************************************************)
EXTENDS RWMutex, FiniteSetTheorems, SequenceTheorems, TLAPS

FreeingRead(c) == pc[c] = "free" /\ want[c] = "read"

\* What a coroutine has found out in the critical section stays true in it,
\* because state_ changes only there.
Tested ==
    /\ \A c \in Coroutine : pc[c] = "get" => Grantable(want[c])
    /\ \A c \in Coroutine : pc[c] = "push" => ~Grantable(want[c])
    /\ \A c \in Coroutine : pc[c] = "dec" => want[c] = "read"
    /\ \A c \in Coroutine : FreeingRead(c) => Readers = {}

Exclusion == \A c, d \in Coroutine : Mode(c) = "write" /\ Mode(d) # "none" => c = d

\* While the lock is free somebody is about to wake those who still wait.
WaitersHaveWaker ==
    state = "FREE" /\ waitingCo # <<>> => \E c \in Coroutine : pc[c] = "wake"

IInv == /\ TypeOK
        /\ SpinlockExcludes
        /\ StateAgrees
        /\ Tested
        /\ Exclusion
        /\ WaitersHaveWaker

LEMMA InitIInv == Init => IInv
<1>. SUFFICES ASSUME Init PROVE IInv
  OBVIOUS
<1>1. TypeOK
  BY EmptySeq, RWMutexAssumption DEF Init, TypeOK, Pcs
<1>2. /\ \A c \in Coroutine : pc[c] = "out"
      /\ \A c \in Coroutine : Mode(c) = "none"
  BY DEF Init, Mode
<1>3. Readers = {} /\ Writers = {}
  BY <1>2 DEF Readers, Writers
<1>4. StateAgrees
  BY <1>2, <1>3, FS_EmptySet DEF Init, StateAgrees
<1>5. SpinlockExcludes /\ Tested /\ Exclusion /\ WaitersHaveWaker
  BY <1>2 DEF Init, SpinlockExcludes, InLock, Tested, FreeingRead, Exclusion,
     WaitersHaveWaker
<1>. QED  BY <1>1, <1>4, <1>5 DEF IInv

-----------------------------------------------------------------------------
(* The readers, counted.                                                   *)

LEMMA ReadersFinite ==
    /\ IsFiniteSet(Readers)
    /\ Cardinality(Readers) \in Nat
    /\ Cardinality(Readers) = 0 <=> Readers = {}
BY RWMutexAssumption, FS_Subset, FS_CardinalityType, FS_EmptySet DEF Readers

-----------------------------------------------------------------------------
(* Types.                                                                  *)

LEMMA TypesKept == ASSUME IInv, [Next]_vars PROVE TypeOK'
<1>. USE DEF IInv, TypeOK, OnCpu, Goto, lockVars, schedVars, Pcs
<1>1. ASSUME NEW c \in Coroutine, NEW m \in {"read", "write"}, Call(c, m) PROVE TypeOK'
  <2>1. left[c] - 1 \in 0..MaxLocks
    BY <1>1, RWMutexAssumption DEF Call
  <2>. QED  BY <1>1, <2>1 DEF Call
<1>2. ASSUME NEW c \in Coroutine,
             SpinToLock(c) \/ SpinToUnlock(c) \/ Test(c) \/ Unlock(c) \/ AllWoken(c)
             \/ Exit(c) \/ FreeLock(c)
      PROVE  TypeOK'
  BY <1>2 DEF SpinToLock, SpinToUnlock, Test, Unlock, AllWoken, Exit, FreeLock
<1>3. ASSUME NEW c \in Coroutine, RGet(c) \/ WGet(c) PROVE TypeOK'
  <2>1. CASE RGet(c)
    BY <2>1 DEF RGet
  <2>2. CASE WGet(c)
    BY <2>2 DEF WGet
  <2>. QED  BY <1>3, <2>1, <2>2
<1>4. ASSUME NEW c \in Coroutine, PushSelf(c) PROVE TypeOK'
  BY <1>4, AppendProperties DEF PushSelf
<1>5. ASSUME NEW c \in Coroutine, Yield(c) \/ Leave(c) \/ Resume(c) \/ Finish(c)
      PROVE  TypeOK'
  <2>. Home[c] \in Processor
    BY RWMutexAssumption
  <2>1. CASE Yield(c)
    BY <2>1 DEF Yield
  <2>2. CASE Leave(c)
    BY <2>2 DEF Leave
  <2>3. CASE Resume(c)
    BY <2>3 DEF Resume
  <2>4. CASE Finish(c)
    BY <2>4 DEF Finish
  <2>. QED  BY <1>5, <2>1, <2>2, <2>3, <2>4
<1>6. ASSUME NEW c \in Coroutine, Decrement(c) PROVE TypeOK'
  <2>1. c \in Readers
    BY <1>6 DEF Decrement, Readers, Mode, Tested
  <2>2. readingNum - 1 \in Nat
    BY <2>1, ReadersFinite DEF StateAgrees
  <2>. QED  BY <1>6, <2>2 DEF Decrement
<1>7. ASSUME NEW c \in Coroutine, WakeOne(c) PROVE TypeOK'
  <2>1. Head(waitingCo) \in Coroutine /\ Tail(waitingCo) \in Seq(Coroutine)
    BY <1>7, HeadTailProperties DEF WakeOne
  <2>2. Home[Head(waitingCo)] \in Processor
    BY <2>1, RWMutexAssumption
  <2>. QED  BY <1>7, <2>1, <2>2, AppendProperties DEF WakeOne
<1>8. ASSUME NEW p \in Processor, RunNewCo(p) PROVE TypeOK'
  <2>1. Head(runq[p]) \in Coroutine /\ Tail(runq[p]) \in Seq(Coroutine)
    BY <1>8, HeadTailProperties DEF RunNewCo
  <2>. QED  BY <1>8, <2>1 DEF RunNewCo
<1>9. CASE UNCHANGED vars
  BY <1>9 DEF vars
<1>. QED  BY <1>1, <1>2, <1>3, <1>4, <1>5, <1>6, <1>7, <1>8, <1>9
          DEF Next, LockCode, UserCode, Terminated

-----------------------------------------------------------------------------
(* The steps that change neither who holds the lock nor state_.            *)

Quiet == /\ state' = state
         /\ readingNum' = readingNum
         /\ \A c \in Coroutine : Mode(c)' = Mode(c)
         /\ \A c \in Coroutine : FreeingRead(c)' <=> FreeingRead(c)

LEMMA QuietKeepsAgreement ==
    ASSUME IInv, Quiet
    PROVE  StateAgrees' /\ Exclusion' /\ Readers' = Readers
<1>1. Readers' = Readers /\ Writers' = Writers
  BY DEF Quiet, Readers, Writers
<1>2. StateAgrees'
  BY <1>1 DEF IInv, StateAgrees, Quiet, FreeingRead
<1>3. Exclusion'
  BY DEF IInv, Exclusion, Quiet
<1>. QED  BY <1>1, <1>2, <1>3

\* Every step but RGet, WGet, Decrement and FreeLock is quiet.
LEMMA QuietSteps ==
    ASSUME IInv, NEW c \in Coroutine,
           \/ \E m \in {"read", "write"} : Call(c, m)
           \/ SpinToLock(c) \/ Test(c) \/ PushSelf(c) \/ Yield(c)
           \/ Unlock(c) \/ SpinToUnlock(c) \/ WakeOne(c) \/ AllWoken(c) \/ Exit(c)
           \/ Leave(c) \/ Resume(c) \/ Finish(c)
    PROVE  Quiet
<1>. USE DEF IInv, TypeOK, Quiet, Mode, FreeingRead, Goto, lockVars, schedVars
<1>1. CASE \E m \in {"read", "write"} : Call(c, m)
  BY <1>1 DEF Call
<1>2. CASE SpinToLock(c)
  BY <1>2 DEF SpinToLock
<1>3. CASE Test(c)
  BY <1>3 DEF Test
<1>4. CASE PushSelf(c)
  BY <1>4 DEF PushSelf
<1>5. CASE Yield(c)
  BY <1>5 DEF Yield
<1>6. CASE Unlock(c)
  BY <1>6 DEF Unlock
<1>7. CASE SpinToUnlock(c)
  BY <1>7 DEF SpinToUnlock
<1>8. CASE WakeOne(c) \/ AllWoken(c) \/ Exit(c)
  BY <1>8 DEF WakeOne, AllWoken, Exit
<1>9. CASE Leave(c) \/ Resume(c) \/ Finish(c)
  BY <1>9 DEF Leave, Resume, Finish
<1>. QED  BY <1>1, <1>2, <1>3, <1>4, <1>5, <1>6, <1>7, <1>8, <1>9

LEMMA QuietLoop == ASSUME IInv, NEW p \in Processor, RunNewCo(p) PROVE Quiet
<1>1. Head(runq[p]) \in Coroutine
  BY HeadTailProperties DEF RunNewCo, IInv, TypeOK
<1>. QED  BY <1>1 DEF RunNewCo, IInv, TypeOK, Quiet, Mode, FreeingRead, lockVars

-----------------------------------------------------------------------------
(* The spinlock.                                                           *)

\* A step of one coroutine that takes and gives back the spinlock as the code
\* does keeps it exclusive.
LEMMA SpinlockKept == ASSUME IInv, [Next]_vars PROVE SpinlockExcludes'
<1>. USE DEF IInv, TypeOK, SpinlockExcludes, InLock, Goto
<1>1. ASSUME NEW c \in Coroutine, SpinToLock(c) \/ SpinToUnlock(c)
      PROVE  SpinlockExcludes'
  BY <1>1 DEF SpinToLock, SpinToUnlock
<1>2. ASSUME NEW c \in Coroutine, RGet(c) \/ WGet(c) \/ PushSelf(c) \/ Exit(c)
      PROVE  SpinlockExcludes'
  <2>1. CASE RGet(c)
    BY <2>1 DEF RGet
  <2>2. CASE WGet(c)
    BY <2>2 DEF WGet
  <2>3. CASE PushSelf(c)
    BY <2>3 DEF PushSelf
  <2>4. CASE Exit(c)
    BY <2>4 DEF Exit
  <2>. QED  BY <1>2, <2>1, <2>2, <2>3, <2>4
<1>3. ASSUME NEW c \in Coroutine, Test(c) PROVE SpinlockExcludes'
  BY <1>3 DEF Test
<1>4. ASSUME NEW c \in Coroutine, Decrement(c) PROVE SpinlockExcludes'
  BY <1>4 DEF Decrement
<1>5. ASSUME NEW c \in Coroutine, FreeLock(c) \/ AllWoken(c) \/ WakeOne(c)
      PROVE  SpinlockExcludes'
  BY <1>5 DEF FreeLock, AllWoken, WakeOne
<1>6. ASSUME NEW c \in Coroutine,
             \/ \E m \in {"read", "write"} : Call(c, m)
             \/ Yield(c) \/ Unlock(c)
      PROVE  SpinlockExcludes'
  <2>1. CASE \E m \in {"read", "write"} : Call(c, m)
    BY <2>1 DEF Call
  <2>2. CASE Yield(c)
    BY <2>2 DEF Yield
  <2>3. CASE Unlock(c)
    BY <2>3 DEF Unlock
  <2>. QED  BY <1>6, <2>1, <2>2, <2>3
<1>7. ASSUME NEW c \in Coroutine, Leave(c) \/ Resume(c) \/ Finish(c)
      PROVE  SpinlockExcludes'
  BY <1>7 DEF Leave, Resume, Finish
<1>8. ASSUME NEW p \in Processor, RunNewCo(p) PROVE SpinlockExcludes'
  <2>1. Head(runq[p]) \in Coroutine
    BY <1>8, HeadTailProperties DEF RunNewCo
  <2>. QED  BY <1>8, <2>1 DEF RunNewCo
<1>9. CASE UNCHANGED vars
  BY <1>9 DEF vars
<1>. QED  BY <1>1, <1>2, <1>3, <1>4, <1>5, <1>6, <1>7, <1>8, <1>9
          DEF Next, LockCode, UserCode, Terminated

-----------------------------------------------------------------------------
(* The steps that change who holds the lock.                               *)

\* Only c is in the critical section.
Alone(c) == \A d \in Coroutine \ {c} : ~InLock(d)

LEMMA LockHolderIsAlone ==
    ASSUME IInv, NEW c \in Coroutine, InLock(c) PROVE Alone(c) /\ sem = 0
BY DEF IInv, SpinlockExcludes, Alone

LEMMA RGetKeeps ==
    ASSUME IInv, NEW c \in Coroutine, RGet(c)
    PROVE  StateAgrees' /\ Exclusion' /\ Tested'
<1>1. Alone(c)
  BY LockHolderIsAlone DEF RGet, InLock
<1>2. /\ state # "WRITING"
      /\ c \notin Readers
      /\ Writers = {}
  BY DEF IInv, RGet, Tested, Grantable, Readers, Mode, StateAgrees
<1>3. /\ \A d \in Coroutine \ {c} : Mode(d)' = Mode(d)
      /\ Mode(c)' = "read"
      /\ \A d \in Coroutine \ {c} : pc'[d] = pc[d]
      /\ pc'[c] = "in"
      /\ want' = want
      /\ state' = "READING"
      /\ readingNum' = readingNum + 1
  BY DEF RGet, Mode, IInv, TypeOK, Goto
<1>4. Readers' = Readers \union {c} /\ Writers' = {}
  BY <1>2, <1>3 DEF Readers, Writers
<1>5. readingNum' = Cardinality(Readers')
  BY <1>2, <1>3, <1>4, ReadersFinite, FS_AddElement DEF IInv, StateAgrees
<1>6. StateAgrees'
  BY <1>3, <1>4, <1>5 DEF StateAgrees
<1>7. Exclusion'
  BY <1>4 DEF Exclusion, Writers
<1>8. Tested'
  BY <1>1, <1>3 DEF Tested, Alone, InLock, FreeingRead, Grantable
<1>. QED  BY <1>6, <1>7, <1>8

LEMMA WGetKeeps ==
    ASSUME IInv, NEW c \in Coroutine, WGet(c)
    PROVE  StateAgrees' /\ Exclusion' /\ Tested'
<1>1. Alone(c)
  BY LockHolderIsAlone DEF WGet, InLock
<1>2. state = "FREE" /\ Readers = {} /\ Writers = {}
  BY DEF IInv, WGet, Tested, Grantable, StateAgrees
<1>3. /\ \A d \in Coroutine \ {c} : Mode(d)' = Mode(d)
      /\ Mode(c)' = "write"
      /\ \A d \in Coroutine \ {c} : pc'[d] = pc[d]
      /\ pc'[c] = "in"
      /\ want' = want
      /\ state' = "WRITING"
      /\ readingNum' = readingNum
  BY DEF WGet, Mode, IInv, TypeOK, Goto
<1>4. Readers' = {} /\ Writers' = {c}
  BY <1>2, <1>3 DEF Readers, Writers, Mode
<1>5. StateAgrees'
  BY <1>1, <1>2, <1>3, <1>4 DEF StateAgrees, IInv, Alone, InLock
<1>6. Exclusion'
  <2>1. \A d \in Coroutine : Mode(d) = "none"
    BY <1>2 DEF Readers, Writers, Mode, IInv, TypeOK
  <2>. QED  BY <1>3, <2>1 DEF Exclusion
<1>7. Tested'
  BY <1>1, <1>3 DEF Tested, Alone, InLock, FreeingRead
<1>. QED  BY <1>5, <1>6, <1>7

LEMMA DecrementKeeps ==
    ASSUME IInv, NEW c \in Coroutine, Decrement(c)
    PROVE  StateAgrees' /\ Exclusion' /\ Tested'
<1>1. Alone(c)
  BY LockHolderIsAlone DEF Decrement, InLock
<1>2. /\ want[c] = "read"
      /\ c \in Readers
      /\ state = "READING"
      /\ Writers = {}
  BY DEF IInv, Decrement, Tested, Readers, Mode, StateAgrees
<1>3. /\ \A d \in Coroutine \ {c} : Mode(d)' = Mode(d)
      /\ Mode(c)' = "none"
      /\ \A d \in Coroutine \ {c} : pc'[d] = pc[d]
      /\ pc'[c] = IF readingNum = 1 THEN "free" ELSE "exit"
      /\ want' = want
      /\ state' = state
      /\ readingNum' = readingNum - 1
  BY <1>2 DEF Decrement, Mode, IInv, TypeOK, Goto
<1>4. Readers' = Readers \ {c} /\ Writers' = {}
  BY <1>2, <1>3 DEF Readers, Writers
<1>5. readingNum' = Cardinality(Readers')
  BY <1>2, <1>3, <1>4, ReadersFinite, FS_RemoveElement DEF IInv, StateAgrees
<1>6. readingNum = 1 <=> Readers' = {}
  <2>1. IsFiniteSet(Readers \ {c}) /\ Cardinality(Readers \ {c}) = readingNum - 1
    BY <1>2, ReadersFinite, FS_RemoveElement DEF IInv, StateAgrees
  <2>2. Cardinality(Readers \ {c}) = 0 <=> Readers \ {c} = {}
    <3>. DEFINE R == Readers \ {c}
    <3>1. IsFiniteSet(R)
      BY <2>1
    <3>. HIDE DEF R
    <3>2. Cardinality(R) = 0 <=> R = {}
      BY <3>1, FS_EmptySet
    <3>. QED  BY <3>2 DEF R
  <2>3. readingNum \in Nat
    BY DEF IInv, TypeOK
  <2>. QED  BY <1>4, <2>1, <2>2, <2>3
<1>7. StateAgrees'
  BY <1>2, <1>3, <1>4, <1>5, <1>6 DEF StateAgrees
<1>8. Exclusion'
  BY <1>4 DEF Exclusion, Writers
<1>9. Tested'
  BY <1>1, <1>3, <1>6 DEF Tested, Alone, InLock, FreeingRead
<1>. QED  BY <1>7, <1>8, <1>9

LEMMA FreeLockKeeps ==
    ASSUME IInv, NEW c \in Coroutine, FreeLock(c)
    PROVE  StateAgrees' /\ Exclusion' /\ Tested'
<1>1. Alone(c)
  BY LockHolderIsAlone DEF FreeLock, InLock
<1>2. Readers = {} /\ Writers \subseteq {c}
  <2>1. CASE want[c] = "read"
    BY <2>1 DEF IInv, FreeLock, Tested, FreeingRead, StateAgrees
  <2>2. CASE want[c] = "write"
    BY <2>2 DEF IInv, FreeLock, Exclusion, Readers, Writers, Mode
  <2>. QED  BY <2>1, <2>2 DEF IInv, TypeOK
<1>3. /\ \A d \in Coroutine \ {c} : Mode(d)' = Mode(d)
      /\ Mode(c)' = "none"
      /\ \A d \in Coroutine \ {c} : pc'[d] = pc[d]
      /\ pc'[c] = "wake"
      /\ want' = want
      /\ state' = "FREE"
      /\ readingNum' = readingNum
  BY DEF FreeLock, Mode, IInv, TypeOK, Goto
<1>4. Readers' = {} /\ Writers' = {}
  BY <1>2, <1>3 DEF Readers, Writers
<1>5. StateAgrees'
  BY <1>1, <1>2, <1>3, <1>4 DEF StateAgrees, IInv, Alone, InLock
<1>6. Exclusion'
  BY <1>4 DEF Exclusion, Writers
<1>7. Tested'
  BY <1>1, <1>3 DEF Tested, Alone, InLock, FreeingRead
<1>. QED  BY <1>5, <1>6, <1>7

-----------------------------------------------------------------------------
(* The inductive step.                                                     *)

LEMMA AgreementKept ==
    ASSUME IInv, [Next]_vars PROVE StateAgrees' /\ Exclusion'
<1>1. ASSUME NEW c \in Coroutine, LockCode(c) \/ UserCode(c) \/ Leave(c) \/ Resume(c)
      PROVE  StateAgrees' /\ Exclusion'
  <2>1. CASE RGet(c)
    BY <2>1, RGetKeeps
  <2>2. CASE WGet(c)
    BY <2>2, WGetKeeps
  <2>3. CASE Decrement(c)
    BY <2>3, DecrementKeeps
  <2>4. CASE FreeLock(c)
    BY <2>4, FreeLockKeeps
  <2>. QED  BY <1>1, <2>1, <2>2, <2>3, <2>4, QuietSteps, QuietKeepsAgreement
            DEF LockCode, UserCode
<1>2. ASSUME NEW p \in Processor, RunNewCo(p) PROVE StateAgrees' /\ Exclusion'
  BY <1>2, QuietLoop, QuietKeepsAgreement
<1>3. CASE UNCHANGED vars
  BY <1>3, QuietKeepsAgreement DEF vars, Quiet, Mode, FreeingRead
<1>. QED  BY <1>1, <1>2, <1>3 DEF Next, Terminated

\* While a coroutine is between its test and its use of the result, no other
\* one is in the critical section, so state_ and the readers stay.
LEMMA TestedKept == ASSUME IInv, [Next]_vars PROVE Tested'
<1>. USE DEF IInv, TypeOK, Goto
<1>1. ASSUME NEW c \in Coroutine, LockCode(c) \/ UserCode(c) \/ Leave(c) \/ Resume(c)
      PROVE  Tested'
  <2>1. CASE RGet(c)
    BY <2>1, RGetKeeps
  <2>2. CASE WGet(c)
    BY <2>2, WGetKeeps
  <2>3. CASE Decrement(c)
    BY <2>3, DecrementKeeps
  <2>4. CASE FreeLock(c)
    BY <2>4, FreeLockKeeps
  <2>5. CASE Test(c)
    <3>1. Readers' = Readers
      BY <2>5, QuietSteps, QuietKeepsAgreement
    <3>. QED  BY <2>5, <3>1 DEF Test, Tested, Grantable, FreeingRead, lockVars
  <2>6. CASE SpinToUnlock(c)
    <3>1. Readers' = Readers
      BY <2>6, QuietSteps, QuietKeepsAgreement
    <3>2. \A d \in Coroutine : ~InLock(d)
      BY <2>6 DEF SpinToUnlock, SpinlockExcludes
    <3>. QED  BY <2>6, <3>1, <3>2
              DEF SpinToUnlock, Tested, Grantable, FreeingRead, lockVars, InLock
  <2>7. CASE \/ \E m \in {"read", "write"} : Call(c, m)
             \/ Unlock(c)
             \/ Finish(c)
    <3>1. Readers' = Readers
      BY <2>7, QuietSteps, QuietKeepsAgreement
    <3>2. CASE \E m \in {"read", "write"} : Call(c, m)
      BY <3>1, <3>2 DEF Call, Tested, Grantable, FreeingRead, lockVars
    <3>3. CASE Unlock(c)
      BY <3>1, <3>3 DEF Unlock, Tested, Grantable, FreeingRead, lockVars
    <3>4. CASE Finish(c)
      BY <3>1, <3>4 DEF Finish, Tested, Grantable, FreeingRead, lockVars
    <3>. QED  BY <2>7, <3>2, <3>3, <3>4
  <2>8. CASE SpinToLock(c) \/ AllWoken(c) \/ Exit(c)
    <3>1. Readers' = Readers
      BY <2>8, QuietSteps, QuietKeepsAgreement
    <3>. QED  BY <2>8, <3>1 DEF SpinToLock, AllWoken, Exit, Tested, Grantable,
              FreeingRead, lockVars
  <2>9. CASE PushSelf(c) \/ Yield(c)
    <3>1. Readers' = Readers
      BY <2>9, QuietSteps, QuietKeepsAgreement
    <3>. QED  BY <2>9, <3>1 DEF PushSelf, Yield, Tested, Grantable, FreeingRead,
              lockVars
  <2>10. CASE WakeOne(c) \/ Leave(c) \/ Resume(c)
    <3>1. Readers' = Readers
      BY <2>10, QuietSteps, QuietKeepsAgreement
    <3>. QED  BY <2>10, <3>1 DEF WakeOne, Leave, Resume, Tested, Grantable,
              FreeingRead, lockVars
  <2>. QED  BY <1>1, <2>1, <2>2, <2>3, <2>4, <2>5, <2>6, <2>7, <2>8, <2>9, <2>10
            DEF LockCode, UserCode
<1>2. ASSUME NEW p \in Processor, RunNewCo(p) PROVE Tested'
  <2>1. Readers' = Readers
    BY <1>2, QuietLoop, QuietKeepsAgreement
  <2>2. Head(runq[p]) \in Coroutine
    BY <1>2, HeadTailProperties DEF RunNewCo
  <2>. QED  BY <1>2, <2>1, <2>2
            DEF RunNewCo, Tested, Grantable, FreeingRead, lockVars
<1>3. CASE UNCHANGED vars
  BY <1>3 DEF vars, Tested, Grantable, FreeingRead, Readers, Mode
<1>. QED  BY <1>1, <1>2, <1>3 DEF Next, Terminated

\* Nobody pushes itself while state_ is "FREE", and whoever sets it to "FREE"
\* goes on to wake.
LEMMA WakerKept == ASSUME IInv, [Next]_vars PROVE WaitersHaveWaker'
<1>. USE DEF IInv, TypeOK, Goto, WaitersHaveWaker, lockVars
<1>1. ASSUME NEW c \in Coroutine, LockCode(c) PROVE WaitersHaveWaker'
  <2>1. CASE SpinToLock(c)
    BY <2>1 DEF SpinToLock
  <2>2. CASE Test(c)
    BY <2>2 DEF Test
  <2>3. CASE RGet(c) \/ WGet(c)
    BY <2>3 DEF RGet, WGet
  <2>4. CASE PushSelf(c)
    BY <2>4 DEF PushSelf, Tested, Grantable
  <2>5. CASE Yield(c)
    BY <2>5 DEF Yield
  <2>6. CASE SpinToUnlock(c)
    BY <2>6 DEF SpinToUnlock
  <2>7. CASE Decrement(c)
    BY <2>7 DEF Decrement
  <2>8. CASE FreeLock(c)
    BY <2>8 DEF FreeLock
  <2>9. CASE WakeOne(c)
    BY <2>9 DEF WakeOne
  <2>10. CASE AllWoken(c)
    BY <2>10 DEF AllWoken
  <2>11. CASE Exit(c)
    BY <2>11 DEF Exit
  <2>. QED  BY <1>1, <2>1, <2>2, <2>3, <2>4, <2>5, <2>6, <2>7, <2>8, <2>9, <2>10,
               <2>11 DEF LockCode
<1>2. ASSUME NEW c \in Coroutine, UserCode(c) \/ Leave(c) \/ Resume(c)
      PROVE  WaitersHaveWaker'
  BY <1>2 DEF UserCode, Call, Unlock, Finish, Leave, Resume
<1>3. ASSUME NEW p \in Processor, RunNewCo(p) PROVE WaitersHaveWaker'
  <2>1. Head(runq[p]) \in Coroutine
    BY <1>3, HeadTailProperties DEF RunNewCo
  <2>. QED  BY <1>3, <2>1 DEF RunNewCo
<1>4. CASE UNCHANGED vars
  BY <1>4 DEF vars
<1>. QED  BY <1>1, <1>2, <1>3, <1>4 DEF Next, Terminated

\* The inductive invariant holds in every reachable state.
THEOREM Invariance == Spec => []IInv
<1>1. IInv /\ [Next]_vars => IInv'
  BY TypesKept, SpinlockKept, AgreementKept, TestedKept, WakerKept DEF IInv
<1>. QED  BY InitIInv, <1>1, PTL DEF Spec

\* TypeOK for every instance: readingNum_ never becomes negative.
THEOREM TypeCorrect == Spec => []TypeOK
<1>1. IInv => TypeOK
  BY DEF IInv
<1>. QED  BY Invariance, <1>1, PTL

\* lock_ excludes, for any number of coroutines and processors.
THEOREM SpinlockMutualExclusion == Spec => []SpinlockExcludes
<1>1. IInv => SpinlockExcludes
  BY DEF IInv
<1>. QED  BY Invariance, <1>1, PTL

\* state_ and readingNum_ always agree with who holds the lock.
THEOREM Agreement == Spec => []StateAgrees
<1>1. IInv => StateAgrees
  BY DEF IInv
<1>. QED  BY Invariance, <1>1, PTL

\* Nobody waits for a free lock: whoever freed it has handed every waiter to
\* its processor before it gives back lock_ (mutex.cc:76-85).
THEOREM NoLostWaiter == Spec => []NoWaiterLeftBehind
<1>1. IInv => NoWaiterLeftBehind
  BY DEF IInv, NoWaiterLeftBehind, WaitersHaveWaker, SpinlockExcludes, InLock
<1>. QED  BY Invariance, <1>1, PTL

-----------------------------------------------------------------------------
(* Where a coroutine waits.                                                *)

Positions(c, s) == {i \in 1..Len(s) : s[i] = c}

\* How often a coroutine occurs in a sequence is a natural number, and 0 only
\* for one that is not in it.
LEMMA OccurrencesType ==
    ASSUME NEW c \in Coroutine, NEW s \in Seq(Coroutine)
    PROVE  /\ IsFiniteSet(Positions(c, s))
           /\ Occurrences(c, s) = Cardinality(Positions(c, s))
           /\ Occurrences(c, s) \in Nat
           /\ (\E i \in 1..Len(s) : s[i] = c) => Occurrences(c, s) # 0
<1>1. IsFiniteSet(1..Len(s))
  BY FS_Interval, LenProperties
<1>2. Positions(c, s) \in SUBSET (1..Len(s))
  BY DEF Positions
<1>3. IsFiniteSet(Positions(c, s))
  BY <1>1, <1>2, FS_Subset
<1>4. Occurrences(c, s) = Cardinality(Positions(c, s))
  BY DEF Occurrences, Positions
<1>5. Cardinality(Positions(c, s)) \in Nat
  BY <1>3, FS_CardinalityType
<1>6. ASSUME NEW i \in 1..Len(s), s[i] = c PROVE Positions(c, s) # {}
  BY <1>6 DEF Positions
<1>7. Cardinality(Positions(c, s)) = 0 <=> Positions(c, s) = {}
  BY <1>3, FS_EmptySet
<1>. QED  BY <1>3, <1>4, <1>5, <1>6, <1>7

\* goCo and waitingCo_.push add one occurrence, of the coroutine they add.
LEMMA OccurrencesAppend ==
    ASSUME NEW c \in Coroutine, NEW s \in Seq(Coroutine), NEW d \in Coroutine
    PROVE  Occurrences(c, Append(s, d))
             = Occurrences(c, s) + (IF d = c THEN 1 ELSE 0)
<1>. DEFINE P == Positions(c, s)
            t == Append(s, d)
            n == Len(s) + 1
<1>1. /\ t \in Seq(Coroutine) /\ Len(t) = n
      /\ \A i \in 1..Len(s) : t[i] = s[i]
      /\ t[n] = d
      /\ Len(s) \in Nat
  BY AppendProperties, LenProperties
<1>2. IsFiniteSet(P) /\ n \notin P /\ Occurrences(c, s) = Cardinality(P)
  BY <1>1, OccurrencesType DEF Positions
<1>3. Occurrences(c, t) = Cardinality(Positions(c, t))
  BY <1>1, OccurrencesType
<1>4. Cardinality(P) \in Nat
  BY <1>2, FS_CardinalityType
<1>5. CASE d = c
  <2>1. Positions(c, t) = P \union {n}
    BY <1>1, <1>5 DEF Positions
  <2>2. Cardinality(P \union {n}) = Cardinality(P) + 1
    BY <1>2, FS_AddElement
  <2>. QED  BY <1>2, <1>3, <1>5, <2>1, <2>2
<1>6. CASE d # c
  <2>1. Positions(c, t) = P
    BY <1>1, <1>6 DEF Positions
  <2>. QED  BY <1>2, <1>3, <1>4, <1>6, <2>1
<1>. QED  BY <1>5, <1>6

\* Taking the head of a queue removes one occurrence, of the head.
LEMMA OccurrencesTail ==
    ASSUME NEW c \in Coroutine, NEW s \in Seq(Coroutine), s # <<>>
    PROVE  Occurrences(c, s)
             = Occurrences(c, Tail(s)) + (IF Head(s) = c THEN 1 ELSE 0)
<1>. DEFINE T == Positions(c, Tail(s))
            U == Positions(c, s) \ {1}
            f == [i \in T |-> i + 1]
<1>1. /\ Tail(s) \in Seq(Coroutine)
      /\ Len(Tail(s)) = Len(s) - 1
      /\ \A i \in 1..Len(Tail(s)) : Tail(s)[i] = s[i + 1]
      /\ Head(s) = s[1]
  BY HeadTailProperties
<1>2. Len(s) \in Nat \ {0}
  BY EmptySeq
<1>3. /\ IsFiniteSet(T) /\ Occurrences(c, Tail(s)) = Cardinality(T)
      /\ IsFiniteSet(Positions(c, s)) /\ Occurrences(c, s) = Cardinality(Positions(c, s))
  BY <1>1, OccurrencesType
<1>4. /\ \A i \in T : i \in Int /\ i + 1 \in U
      /\ \A j \in U : j \in Int /\ j - 1 \in T
  BY <1>1, <1>2 DEF Positions
<1>. HIDE DEF T, U
<1>5. f \in Bijection(T, U)
  <2>1. f \in [T -> U]
    BY <1>4
  <2>2. \A i, j \in T : f[i] = f[j] => i = j
    BY <1>4
  <2>3. \A j \in U : j - 1 \in T /\ f[j - 1] = j
    BY <1>4
  <2>. QED  BY <2>1, <2>2, <2>3 DEF Bijection, Injection, Surjection, IsInjective
<1>6. Cardinality(U) = Cardinality(T)
  BY <1>3, <1>5, FS_Bijection DEF ExistsBijection
<1>7. Cardinality(U) = IF 1 \in Positions(c, s) THEN Cardinality(Positions(c, s)) - 1
                       ELSE Cardinality(Positions(c, s))
  BY <1>3, FS_RemoveElement DEF U
<1>8. 1 \in Positions(c, s) <=> Head(s) = c
  BY <1>1, <1>2 DEF Positions
<1>9. Cardinality(Positions(c, s)) \in Nat /\ Cardinality(T) \in Nat
  BY <1>3, FS_CardinalityType
<1>. QED  BY <1>3, <1>6, <1>7, <1>8, <1>9

\* A thread runs only coroutines of its processor; between the release of
\* lock_ and the yield a coroutine keeps its thread; one that left for an event
\* or a timer is in nobody's code.
OnlyOnHome ==
    /\ \A p \in Processor : running[p] # NoCo => Home[running[p]] = p
    /\ \A c \in Coroutine : pc[c] = "yield" => OnCpu(c)
    /\ \A c \in away : ~OnCpu(c) /\ pc[c] \in {"out", "in"}

WInv == WaitsInOnePlace /\ OnlyOnHome

LEMMA InitWInv == Init => WInv
<1>1. \A c \in Coroutine : Occurrences(c, <<>>) = 0
  <2>1. \A c \in Coroutine : {i \in 1..Len(<<>>) : <<>>[i] = c} = {}
    OBVIOUS
  <2>. QED  BY <2>1, FS_EmptySet DEF Occurrences
<1>. QED  BY <1>1, RWMutexAssumption DEF Init, WInv, WaitsInOnePlace, OnlyOnHome, OnCpu

\* What the invariant says of one coroutine.
Place(d) ==
    /\ Home[d] \in Processor
    /\ Occurrences(d, waitingCo) \in Nat
    /\ \A p \in Processor : Occurrences(d, runq[p]) \in Nat
    /\ pc[d] \in {"yield", "asleep"} =>
         Occurrences(d, waitingCo) + Occurrences(d, runq[Home[d]]) = 1
    /\ pc[d] \notin {"yield", "asleep"} =>
         Occurrences(d, waitingCo) = 0 /\ Occurrences(d, runq[Home[d]]) = 0
    /\ \A p \in Processor : p # Home[d] => Occurrences(d, runq[p]) = 0
    /\ pc[d] = "asleep" => running[Home[d]] # d

LEMMA PlaceOf == ASSUME IInv, WInv, NEW d \in Coroutine PROVE Place(d)
<1>1. Home[d] \in Processor
  BY RWMutexAssumption
<1>2. waitingCo \in Seq(Coroutine) /\ \A p \in Processor : runq[p] \in Seq(Coroutine)
  BY DEF IInv, TypeOK
<1>3. /\ Occurrences(d, waitingCo) \in Nat
      /\ \A p \in Processor : Occurrences(d, runq[p]) \in Nat
  BY <1>2, OccurrencesType
<1>4. /\ Occurrences(d, waitingCo) + Occurrences(d, runq[Home[d]])
            = IF pc[d] \in {"yield", "asleep"} THEN 1 ELSE 0
      /\ \A p \in Processor \ {Home[d]} : Occurrences(d, runq[p]) = 0
      /\ pc[d] = "asleep" => running[Home[d]] # d
  BY DEF WInv, WaitsInOnePlace, OnCpu
<1>5. ASSUME NEW m \in Nat, NEW n \in Nat, m + n = 0 PROVE m = 0 /\ n = 0
  BY <1>5
<1>. QED  BY <1>1, <1>3, <1>4, <1>5 DEF Place

\* The converse, for the next state.
LEMMA PlacesOfAll ==
    ASSUME \A d \in Coroutine :
              /\ Occurrences(d, waitingCo') + Occurrences(d, runq'[Home[d]])
                   = IF pc'[d] \in {"yield", "asleep"} THEN 1 ELSE 0
              /\ \A p \in Processor : p # Home[d] => Occurrences(d, runq'[p]) = 0
              /\ pc'[d] = "asleep" => running'[Home[d]] # d
    PROVE  WaitsInOnePlace'
BY DEF WaitsInOnePlace, OnCpu

\* The two steps that move a waiter, one that adds it, and all the others.
LEMMA PushSelfKeepsPlaces ==
    ASSUME IInv, WInv, NEW c \in Coroutine, PushSelf(c) PROVE WInv'
<1>0. \A d \in Coroutine : Place(d)
  BY PlaceOf
<1>. USE RWMutexAssumption DEF IInv, TypeOK, Goto, WInv, lockVars, schedVars
<1>1. \A d \in Coroutine :
        Occurrences(d, waitingCo') = Occurrences(d, waitingCo) + (IF c = d THEN 1 ELSE 0)
  BY OccurrencesAppend DEF PushSelf
<1>2. /\ pc[c] = "push" /\ pc'[c] = "yield" /\ runq' = runq /\ running' = running
      /\ \A d \in Coroutine \ {c} : pc'[d] = pc[d]
  BY DEF PushSelf
<1>3. WaitsInOnePlace'
  <2>. SUFFICES ASSUME NEW d \in Coroutine
                PROVE  /\ Occurrences(d, waitingCo') + Occurrences(d, runq'[Home[d]])
                            = IF pc'[d] \in {"yield", "asleep"} THEN 1 ELSE 0
                       /\ \A p \in Processor : p # Home[d] => Occurrences(d, runq'[p]) = 0
                       /\ pc'[d] = "asleep" => running'[Home[d]] # d
    BY PlacesOfAll
  <2>. QED  BY <1>0, <1>1, <1>2 DEF Place
<1>4. OnlyOnHome'
  BY DEF PushSelf, OnlyOnHome, OnCpu
<1>. QED  BY <1>3, <1>4

LEMMA WakeOneKeepsPlaces ==
    ASSUME IInv, WInv, NEW c \in Coroutine, WakeOne(c) PROVE WInv'
<1>0. \A d \in Coroutine : Place(d)
  BY PlaceOf
<1>. DEFINE h == Head(waitingCo)
<1>t. /\ waitingCo \in Seq(Coroutine)
      /\ runq \in [Processor -> Seq(Coroutine)]
      /\ pc \in [Coroutine -> Pcs]
      /\ running \in [Processor -> Coroutine \union {NoCo}]
      /\ away \subseteq Coroutine
      /\ OnlyOnHome
      /\ Home \in [Coroutine -> Processor]
  BY RWMutexAssumption DEF IInv, TypeOK, WInv
<1>1. /\ waitingCo # <<>> /\ waitingCo' = Tail(waitingCo)
      /\ runq' = [runq EXCEPT ![Home[h]] = Append(@, h)]
      /\ pc' = pc /\ running' = running /\ away' = away
  BY DEF WakeOne
<1>2. h \in Coroutine /\ Home[h] \in Processor /\ runq[Home[h]] \in Seq(Coroutine)
  BY <1>1, <1>t, HeadTailProperties
<1>3. Tail(waitingCo) \in Seq(Coroutine)
  BY <1>1, <1>t, HeadTailProperties
<1>. HIDE DEF h
<1>4. \A d \in Coroutine : Occurrences(d, waitingCo)
                             = Occurrences(d, waitingCo') + (IF h = d THEN 1 ELSE 0)
  BY <1>1, <1>t, OccurrencesTail DEF h
<1>5. \A d \in Coroutine : Occurrences(d, runq'[Home[h]])
                             = Occurrences(d, runq[Home[h]]) + (IF h = d THEN 1 ELSE 0)
  <2>1. runq'[Home[h]] = Append(runq[Home[h]], h)
    BY <1>1, <1>2, <1>t
  <2>. QED  BY <2>1, <1>2, <1>t, OccurrencesAppend
<1>6. \A p \in Processor : p # Home[h] => runq'[p] = runq[p]
  BY <1>1, <1>t
<1>7. \A d \in Coroutine : Occurrences(d, waitingCo') \in Nat
  BY <1>1, <1>3, OccurrencesType
<1>8. pc' = pc /\ running' = running /\ Home[h] \in Processor
  BY <1>1, <1>2
<1>9. WaitsInOnePlace'
  <2>. SUFFICES ASSUME NEW d \in Coroutine
                PROVE  /\ Occurrences(d, waitingCo') + Occurrences(d, runq'[Home[d]])
                            = IF pc'[d] \in {"yield", "asleep"} THEN 1 ELSE 0
                       /\ \A p \in Processor : p # Home[d] => Occurrences(d, runq'[p]) = 0
                       /\ pc'[d] = "asleep" => running'[Home[d]] # d
    BY PlacesOfAll
  <2>1. CASE h = d
    BY <1>0, <1>4, <1>5, <1>6, <1>7, <1>8, <2>1 DEF Place
  <2>2. CASE h # d /\ Home[h] = Home[d]
    BY <1>0, <1>4, <1>5, <1>6, <1>7, <1>8, <2>2 DEF Place
  <2>3. CASE h # d /\ Home[h] # Home[d]
    <3>1. Occurrences(d, runq'[Home[h]]) = 0
      BY <1>0, <1>5, <1>8, <2>3 DEF Place
    <3>. QED  BY <1>0, <1>4, <1>6, <1>7, <1>8, <2>3, <3>1 DEF Place
  <2>. QED  BY <2>1, <2>2, <2>3
<1>10. OnlyOnHome'
  BY <1>1, <1>t DEF OnlyOnHome, OnCpu
<1>. QED  BY <1>9, <1>10 DEF WInv

LEMMA RunNewCoKeepsPlaces ==
    ASSUME IInv, WInv, NEW p \in Processor, RunNewCo(p) PROVE WInv'
<1>0. \A d \in Coroutine : Place(d)
  BY PlaceOf
<1>. DEFINE h == Head(runq[p])
<1>t. /\ waitingCo \in Seq(Coroutine)
      /\ runq \in [Processor -> Seq(Coroutine)]
      /\ pc \in [Coroutine -> Pcs]
      /\ running \in [Processor -> Coroutine \union {NoCo}]
      /\ away \subseteq Coroutine
      /\ OnlyOnHome
      /\ Home \in [Coroutine -> Processor]
      /\ NoCo \notin Coroutine
  BY RWMutexAssumption DEF IInv, TypeOK, WInv
<1>1. /\ runq[p] # <<>> /\ runq' = [runq EXCEPT ![p] = Tail(@)]
      /\ running[p] = NoCo /\ running' = [running EXCEPT ![p] = h]
      /\ pc' = [pc EXCEPT ![h] = IF @ = "asleep" THEN "spin" ELSE @]
      /\ waitingCo' = waitingCo /\ away' = away
  BY DEF RunNewCo, lockVars
<1>2. h \in Coroutine /\ runq[p] \in Seq(Coroutine) /\ Tail(runq[p]) \in Seq(Coroutine)
  BY <1>1, <1>t, HeadTailProperties
<1>3. Len(runq[p]) \in Nat \ {0} /\ runq[p][1] = h
  BY <1>1, <1>t, EmptySeq
<1>. HIDE DEF h
<1>4. Occurrences(h, runq[p]) # 0
  <2>1. \E i \in 1..Len(runq[p]) : runq[p][i] = h
    BY <1>3
  <2>. QED  BY <1>2, <2>1, OccurrencesType
<1>5. \A d \in Coroutine : Occurrences(d, runq[p])
                             = Occurrences(d, runq'[p]) + (IF h = d THEN 1 ELSE 0)
  <2>1. runq'[p] = Tail(runq[p])
    BY <1>1, <1>t
  <2>. QED  BY <1>1, <1>2, <2>1, OccurrencesTail DEF h
<1>7. \A d \in Coroutine : Occurrences(d, runq'[p]) \in Nat
  <2>1. runq'[p] = Tail(runq[p])
    BY <1>1, <1>t
  <2>. QED  BY <1>2, <2>1, OccurrencesType
<1>8. Home[h] = p
  BY <1>0, <1>2, <1>4 DEF Place
<1>9. pc[h] \in {"yield", "asleep"}
  BY <1>0, <1>2, <1>4, <1>8 DEF Place
<1>10. pc[h] = "asleep"
  BY <1>1, <1>2, <1>8, <1>9, <1>t DEF OnlyOnHome, OnCpu
<1>11. /\ pc'[h] = "spin"
       /\ \A d \in Coroutine \ {h} : pc'[d] = pc[d]
       /\ \A q \in Processor \ {p} : runq'[q] = runq[q] /\ running'[q] = running[q]
       /\ running'[p] = h /\ running[p] = NoCo
      /\ waitingCo' = waitingCo
  BY <1>1, <1>2, <1>10, <1>t
<1>12. WaitsInOnePlace'
  <2>. SUFFICES ASSUME NEW d \in Coroutine
                PROVE  /\ Occurrences(d, waitingCo') + Occurrences(d, runq'[Home[d]])
                            = IF pc'[d] \in {"yield", "asleep"} THEN 1 ELSE 0
                       /\ \A q \in Processor : q # Home[d] => Occurrences(d, runq'[q]) = 0
                       /\ pc'[d] = "asleep" => running'[Home[d]] # d
    BY PlacesOfAll
  <2>1. CASE h = d
    <3>1. Occurrences(d, waitingCo') = 0 /\ Occurrences(d, runq'[p]) = 0
      BY <1>0, <1>5, <1>7, <1>8, <1>10, <1>11, <2>1, <1>4 DEF Place
    <3>. QED  BY <1>0, <1>8, <1>11, <2>1, <3>1 DEF Place
  <2>2. CASE h # d /\ Home[d] = p
    BY <1>0, <1>5, <1>7, <1>11, <2>2 DEF Place
  <2>3. CASE h # d /\ Home[d] # p
    <3>1. Occurrences(d, runq'[p]) = 0
      BY <1>0, <1>5, <1>7, <2>3 DEF Place
    <3>. QED  BY <1>0, <1>11, <2>3, <3>1 DEF Place
  <2>. QED  BY <2>1, <2>2, <2>3
<1>13. OnlyOnHome'
  BY <1>1, <1>2, <1>8, <1>10, <1>11, <1>t DEF OnlyOnHome, OnCpu
<1>. QED  BY <1>12, <1>13 DEF WInv

\* Steps that leave the queues alone do not make a coroutine start or stop to
\* wait.
LEMMA PlacesStay ==
    ASSUME WInv, UNCHANGED <<waitingCo, runq>>, OnlyOnHome',
           \A c \in Coroutine : /\ pc'[c] \in {"yield", "asleep"}
                                     <=> pc[c] \in {"yield", "asleep"}
                                /\ pc'[c] = "asleep" => ~OnCpu(c)'
    PROVE  WInv'
BY DEF WInv, WaitsInOnePlace

\* A coroutine that goes on within its code keeps its thread.
LEMMA GoingOnKeepsPlaces ==
    ASSUME IInv, WInv, NEW c \in Coroutine, OnCpu(c),
           UNCHANGED <<waitingCo, schedVars>>,
           pc[c] \notin {"yield", "asleep"},
           NEW l \in Pcs \ {"yield", "asleep"}, Goto(c, l)
    PROVE  WInv'
<1>1. pc \in [Coroutine -> Pcs] /\ WaitsInOnePlace /\ OnlyOnHome
  BY DEF IInv, TypeOK, WInv
<1>2. OnlyOnHome'
  BY <1>1 DEF OnlyOnHome, OnCpu, schedVars, Goto
<1>3. \A d \in Coroutine : /\ pc'[d] \in {"yield", "asleep"}
                                <=> pc[d] \in {"yield", "asleep"}
                           /\ pc'[d] = "asleep" => ~OnCpu(d)'
  BY <1>1 DEF OnCpu, schedVars, Goto, WaitsInOnePlace
<1>. QED  BY <1>2, <1>3, PlacesStay DEF schedVars

LEMMA PlacesKept == ASSUME IInv, WInv, [Next]_vars PROVE WInv'
<1>t. /\ pc \in [Coroutine -> Pcs]
      /\ running \in [Processor -> Coroutine \union {NoCo}]
      /\ Home \in [Coroutine -> Processor]
      /\ NoCo \notin Coroutine
      /\ away \subseteq Coroutine
      /\ OnlyOnHome /\ WaitsInOnePlace
  BY RWMutexAssumption DEF IInv, TypeOK, WInv
<1>1. ASSUME NEW c \in Coroutine, LockCode(c) \/ UserCode(c) \/ Leave(c) \/ Resume(c)
      PROVE  WInv'
  <2>1. CASE PushSelf(c)
    BY <2>1, PushSelfKeepsPlaces
  <2>2. CASE WakeOne(c)
    BY <2>2, WakeOneKeepsPlaces
  <2>3. CASE Yield(c)
    <3>1. OnlyOnHome'
      <4>1. \A p \in Processor : running'[p] # NoCo => running'[p] = running[p]
        BY <1>t, <2>3 DEF Yield
      <4>2. \A d \in Coroutine \ {c} : /\ running'[Home[d]] = d <=> running[Home[d]] = d
                                       /\ pc'[d] = pc[d]
        BY <1>t, <2>3 DEF Yield, OnCpu, OnlyOnHome, Goto
      <4>3. running'[Home[c]] = NoCo /\ pc'[c] # "yield"
        BY <1>t, <2>3 DEF Yield, Goto
      <4>4. \A d \in away' : d # c => d \in away
        BY <2>3 DEF Yield
      <4>5. c \in away' => pc'[c] \in {"out", "in"}
        BY <1>t, <2>3 DEF Yield, OnlyOnHome, OnCpu
      <4>. QED  BY <1>t, <4>1, <4>2, <4>3, <4>4, <4>5 DEF OnlyOnHome, OnCpu
    <3>2. \A d \in Coroutine : /\ pc'[d] \in {"yield", "asleep"}
                                    <=> pc[d] \in {"yield", "asleep"}
                               /\ pc'[d] = "asleep" => ~OnCpu(d)'
      BY <1>t, <2>3 DEF Yield, WaitsInOnePlace, OnCpu, Goto
    <3>. QED  BY <2>3, <3>1, <3>2, PlacesStay DEF Yield, lockVars
  <2>4. CASE Leave(c)
    <3>1. OnlyOnHome'
      <4>1. \A p \in Processor : running'[p] # NoCo => running'[p] = running[p]
        BY <1>t, <2>4 DEF Leave
      <4>2. \A d \in Coroutine \ {c} : /\ running'[Home[d]] = d <=> running[Home[d]] = d
                                       /\ pc'[d] = pc[d]
        BY <1>t, <2>4 DEF Leave, OnCpu, OnlyOnHome
      <4>3. running'[Home[c]] = NoCo /\ pc'[c] # "yield"
        BY <1>t, <2>4 DEF Leave
      <4>4. \A d \in away' : d # c => d \in away
        BY <2>4 DEF Leave
      <4>5. c \in away' => pc'[c] \in {"out", "in"}
        BY <1>t, <2>4 DEF Leave, OnlyOnHome, OnCpu
      <4>. QED  BY <1>t, <4>1, <4>2, <4>3, <4>4, <4>5 DEF OnlyOnHome, OnCpu
    <3>2. \A d \in Coroutine : pc'[d] = "asleep" => ~OnCpu(d)'
      BY <1>t, <2>4 DEF Leave, WaitsInOnePlace, OnCpu
    <3>. QED  BY <2>4, <3>1, <3>2, PlacesStay DEF Leave, lockVars
  <2>5. CASE Resume(c)
    <3>1. OnlyOnHome'
      BY <1>t, <2>5 DEF Resume, OnlyOnHome, OnCpu
    <3>2. \A d \in Coroutine : pc'[d] = "asleep" => ~OnCpu(d)'
      BY <1>t, <2>5 DEF Resume, WaitsInOnePlace, OnlyOnHome, OnCpu
    <3>. QED  BY <2>5, <3>1, <3>2, PlacesStay DEF Resume, lockVars
  <2>6. CASE Finish(c)
    <3>1. OnlyOnHome'
      <4>1. \A p \in Processor : running'[p] # NoCo => running'[p] = running[p]
        BY <1>t, <2>6 DEF Finish
      <4>2. \A d \in Coroutine \ {c} : /\ running'[Home[d]] = d <=> running[Home[d]] = d
                                       /\ pc'[d] = pc[d]
        BY <1>t, <2>6 DEF Finish, OnCpu, OnlyOnHome, Goto
      <4>3. running'[Home[c]] = NoCo /\ pc'[c] # "yield"
        BY <1>t, <2>6 DEF Finish, Goto
      <4>4. \A d \in away' : d # c => d \in away
        BY <2>6 DEF Finish
      <4>5. c \in away' => pc'[c] \in {"out", "in"}
        BY <1>t, <2>6 DEF Finish, OnlyOnHome, OnCpu
      <4>. QED  BY <1>t, <4>1, <4>2, <4>3, <4>4, <4>5 DEF OnlyOnHome, OnCpu
    <3>2. \A d \in Coroutine : /\ pc'[d] \in {"yield", "asleep"}
                                    <=> pc[d] \in {"yield", "asleep"}
                               /\ pc'[d] = "asleep" => ~OnCpu(d)'
      BY <1>t, <2>6 DEF Finish, WaitsInOnePlace, OnCpu, Goto
    <3>. QED  BY <2>6, <3>1, <3>2, PlacesStay DEF Finish, lockVars
  <2>7. CASE SpinToLock(c) \/ Test(c) \/ RGet(c) \/ WGet(c)
    BY <2>7, GoingOnKeepsPlaces DEF SpinToLock, Test, RGet, WGet, lockVars, Pcs
  <2>8. CASE SpinToUnlock(c) \/ Decrement(c) \/ FreeLock(c) \/ AllWoken(c) \/ Exit(c)
    BY <2>8, GoingOnKeepsPlaces DEF SpinToUnlock, Decrement, FreeLock, AllWoken,
       Exit, lockVars, Pcs
  <2>9. CASE Unlock(c) \/ \E m \in {"read", "write"} : Call(c, m)
    BY <2>9, GoingOnKeepsPlaces DEF Unlock, Call, lockVars, Pcs
  <2>. QED  BY <1>1, <2>1, <2>2, <2>3, <2>4, <2>5, <2>6, <2>7, <2>8, <2>9
            DEF LockCode, UserCode
<1>2. ASSUME NEW p \in Processor, RunNewCo(p) PROVE WInv'
  BY <1>2, RunNewCoKeepsPlaces
<1>3. CASE UNCHANGED vars
  BY <1>3 DEF vars, WInv, WaitsInOnePlace, OnlyOnHome, OnCpu
<1>. QED  BY <1>1, <1>2, <1>3 DEF Next, Terminated

\* For any placing of any number of coroutines: one that gave up is in exactly
\* one place, whichever of its yield and its wake-up comes first, and never on
\* two threads (mutex.cc:33-37, 62-66, 80-84).
THEOREM NobodyIsLostOrDoubled == Spec => []WaitsInOnePlace
<1>1. IInv /\ WInv /\ [Next]_vars => WInv'
  BY PlacesKept
<1>2. WInv => WaitsInOnePlace
  BY DEF WInv
<1>. QED  BY Invariance, InitWInv, <1>1, <1>2, PTL DEF Spec

-----------------------------------------------------------------------------
(* RWMutex implements a readers-writer lock.                               *)

modeBar == [c \in Coroutine |-> Mode(c)]

\* A step is a step of the abstract lock if it changes how one coroutine holds
\* the lock as the abstract lock allows.
LEMMA AbstractSteps ==
    ASSUME NEW c \in Coroutine, \A d \in Coroutine \ {c} : Mode(d)' = Mode(d),
           \/ /\ Mode(c) = "none" /\ Mode(c)' = "read"
              /\ \A d \in Coroutine : Mode(d) # "write"
           \/ Mode(c)' = "write" /\ \A d \in Coroutine : Mode(d) = "none"
           \/ Mode(c) # "none" /\ Mode(c)' = "none"
    PROVE  RW!RWNext
<1>1. modeBar' = [modeBar EXCEPT ![c] = Mode(c)']
  BY DEF modeBar
<1>2. \A d \in Coroutine : modeBar[d] = Mode(d)
  BY DEF modeBar
<1>. QED  BY <1>1, <1>2 DEF RW!RWNext, RW!AcquireRead, RW!AcquireWrite, RW!Release,
                            modeBar

LEMMA QuietIsStutter == ASSUME Quiet PROVE modeBar' = modeBar
BY DEF Quiet, modeBar

LEMMA StepRefines == ASSUME IInv, [Next]_vars PROVE [RW!RWNext]_modeBar
<1>. USE DEF IInv, TypeOK, Goto
<1>1. ASSUME NEW c \in Coroutine, RGet(c) PROVE RW!RWNext
  <2>1. /\ \A d \in Coroutine \ {c} : Mode(d)' = Mode(d)
        /\ Mode(c) = "none" /\ Mode(c)' = "read"
    BY <1>1 DEF RGet, Mode
  <2>2. \A d \in Coroutine : Mode(d) # "write"
    BY <1>1 DEF RGet, Tested, Grantable, StateAgrees, Writers
  <2>. QED  BY <2>1, <2>2, AbstractSteps
<1>2. ASSUME NEW c \in Coroutine, WGet(c) PROVE RW!RWNext
  <2>1. /\ \A d \in Coroutine \ {c} : Mode(d)' = Mode(d)
        /\ Mode(c)' = "write"
    BY <1>2 DEF WGet, Mode
  <2>2. Readers = {} /\ Writers = {}
    BY <1>2 DEF WGet, Tested, Grantable, StateAgrees
  <2>3. \A d \in Coroutine : Mode(d) = "none"
    BY <2>2 DEF Readers, Writers, Mode
  <2>. QED  BY <2>1, <2>3, AbstractSteps
<1>3. ASSUME NEW c \in Coroutine, Decrement(c) PROVE RW!RWNext
  <2>1. /\ \A d \in Coroutine \ {c} : Mode(d)' = Mode(d)
        /\ Mode(c) # "none" /\ Mode(c)' = "none"
    BY <1>3 DEF Decrement, Mode, Tested
  <2>. QED  BY <2>1, AbstractSteps
<1>4. ASSUME NEW c \in Coroutine, FreeLock(c), want[c] = "write" PROVE RW!RWNext
  <2>1. /\ \A d \in Coroutine \ {c} : Mode(d)' = Mode(d)
        /\ Mode(c) # "none" /\ Mode(c)' = "none"
    BY <1>4 DEF FreeLock, Mode
  <2>. QED  BY <2>1, AbstractSteps
<1>5. ASSUME NEW c \in Coroutine, FreeLock(c), want[c] = "read" PROVE modeBar' = modeBar
  BY <1>5 DEF FreeLock, Mode, modeBar
<1>6. ASSUME NEW c \in Coroutine,
             \/ LockCode(c) /\ ~(RGet(c) \/ WGet(c) \/ Decrement(c) \/ FreeLock(c))
             \/ UserCode(c) \/ Leave(c) \/ Resume(c)
      PROVE  modeBar' = modeBar
  BY <1>6, QuietSteps, QuietIsStutter DEF LockCode, UserCode
<1>7. ASSUME NEW p \in Processor, RunNewCo(p) PROVE modeBar' = modeBar
  BY <1>7, QuietLoop, QuietIsStutter
<1>8. CASE UNCHANGED vars
  BY <1>8 DEF vars, Mode, modeBar
<1>. QED  BY <1>1, <1>2, <1>3, <1>4, <1>5, <1>6, <1>7, <1>8
          DEF Next, LockCode, Terminated

\* For every number of coroutines and processors, RWMutex admits many readers
\* or one writer (mutex.h:32-50, mutex.cc:22-85).
THEOREM MutexImplementsRWLock == Spec => ImplementsRWLock
<1>1. Init => RW!RWInit
  BY DEF Init, RW!RWInit, Mode
<1>2. IInv /\ [Next]_vars => [RW!RWNext]_modeBar
  BY StepRefines
<1>. QED  BY <1>1, <1>2, Invariance, PTL DEF Spec, ImplementsRWLock, RW!RWSpec, modeBar
=============================================================================
