--------------------------- MODULE NewCoQueueProofs ---------------------------
(***************************************************************************)
(* Proofs about the double-buffered queue of new coroutines, for every set *)
(* of threads, of coroutines and of batches.                               *)
(***************************************************************************)
EXTENDS NewCoQueue, SequenceTheorems, TLAPS

LEMMA InitInv == Init => Inv
<1>. SUFFICES ASSUME Init PROVE Inv
  OBVIOUS
<1>1. TypeOK
  BY EmptySeq DEF Init, TypeOK, CallPcs, LoopPcs
<1>2. LockExcludes /\ NoQueueRace /\ FlipLeavesNothing
  BY DEF Init, LockExcludes, NoQueueRace, FlipLeavesNothing, Holds, LoopHolds
<1>. QED  BY <1>1, <1>2 DEF Init, Inv

\* A step inside a call of goCo keeps the types.
LEMMA CallTypes ==
    ASSUME Inv, NEW t \in Threads,
           CallStep(t) \/ \E b \in Batches : GoCo(t, b)
    PROVE  TypeOK'
<1>. USE DEF Inv, TypeOK, queVars, loopVars, coVars, CallPcs
<1>1. CASE \E b \in Batches : GoCo(t, b)
  BY <1>1, NewCoQueueAssumption DEF GoCo
<1>2. CASE Lock(t)
  BY <1>2 DEF Lock
<1>3. CASE ReadIndex(t)
  BY <1>3 DEF ReadIndex
<1>4. CASE Push(t)
  <2>1. /\ Head(todo[t]) \in Coroutine
        /\ Tail(todo[t]) \in Seq(Coroutine)
    BY <1>4, HeadTailProperties DEF Push
  <2>2. Append(que[idx[t]], Head(todo[t])) \in Seq(Coroutine)
    BY <2>1, AppendProperties
  <2>. QED  BY <1>4, <2>1, <2>2 DEF Push
<1>5. CASE Unlock(t)
  BY <1>5 DEF Unlock
<1>6. CASE WakeUpEpoller(t)
  BY <1>6 DEF WakeUpEpoller
<1>. QED  BY <1>1, <1>2, <1>3, <1>4, <1>5, <1>6 DEF CallStep

\* A step of the loop or of the coroutine that it runs keeps the types.
LEMMA LoopTypes ==
    ASSUME Inv, LoopStep \/ MakeKnown \/ SwapToMain
    PROVE  TypeOK'
<1>. USE DEF Inv, TypeOK, queVars, loopVars, coVars, callVars, LoopPcs, CallPcs
<1>1. CASE MakeKnown
  BY <1>1 DEF MakeKnown, InUserCode
<1>2. CASE SwapToMain
  BY <1>2 DEF SwapToMain, InUserCode
<1>3. CASE Poll \/ GetExpired \/ EndPass
  BY <1>3 DEF Poll, GetExpired, EndPass
<1>4. CASE \E c \in Coroutine : ResumeExpired(c) \/ ResumeActive(c)
  BY <1>4 DEF ResumeExpired, ResumeActive
<1>5. CASE RunNewCo
  <2>1. /\ Head(que[runningQue]) \in Coroutine
        /\ Tail(que[runningQue]) \in Seq(Coroutine)
    BY <1>5, HeadTailProperties DEF RunNewCo
  <2>. QED  BY <1>5, <2>1 DEF RunNewCo
<1>6. CASE BeginDrain \/ EndDrain
  BY <1>6 DEF BeginDrain, EndDrain
<1>7. CASE FlipLock \/ Flip \/ FlipUnlock
  BY <1>7 DEF FlipLock, Flip, FlipUnlock
<1>. QED  BY <1>1, <1>2, <1>3, <1>4, <1>5, <1>6, <1>7 DEF LoopStep

\* A step inside a call keeps the rest of the invariant: the lock makes the
\* index that the thread has read stay right until it has pushed.
LEMMA CallKeepsInv ==
    ASSUME Inv, NEW t \in Threads,
           CallStep(t) \/ \E b \in Batches : GoCo(t, b)
    PROVE  Inv'
<1>0. TypeOK'
  BY CallTypes
<1>. USE <1>0 DEF Inv, TypeOK, LockExcludes, NoQueueRace, FlipLeavesNothing,
                  Holds, LoopHolds, queVars, loopVars, coVars
<1>1. CASE \E b \in Batches : GoCo(t, b)
  BY <1>1 DEF GoCo
<1>2. CASE Lock(t)
  BY <1>2 DEF Lock
<1>3. CASE ReadIndex(t)
  BY <1>3 DEF ReadIndex
<1>4. CASE Push(t)
  <2>1. loopPc \in {"flip", "flipping", "flipped"} => idx[t] # runningQue
    BY <1>4 DEF Push
  <2>. QED  BY <1>4, <2>1 DEF Push
<1>5. CASE Unlock(t)
  BY <1>5 DEF Unlock
<1>6. CASE WakeUpEpoller(t)
  BY <1>6 DEF WakeUpEpoller
<1>. QED  BY <1>1, <1>2, <1>3, <1>4, <1>5, <1>6 DEF CallStep

\* A step of the loop keeps the rest of the invariant: it drains the queue
\* that no index points to, and flips only an empty queue, under the lock.
LEMMA LoopKeepsInv ==
    ASSUME Inv, LoopStep \/ MakeKnown \/ SwapToMain
    PROVE  Inv'
<1>0. TypeOK'
  BY LoopTypes
<1>. USE <1>0 DEF Inv, TypeOK, LockExcludes, NoQueueRace, FlipLeavesNothing,
                  Holds, LoopHolds, queVars, loopVars, coVars, callVars
<1>1. CASE MakeKnown \/ SwapToMain
  BY <1>1 DEF MakeKnown, SwapToMain
<1>2. CASE Poll \/ GetExpired \/ EndPass
  BY <1>2 DEF Poll, GetExpired, EndPass
<1>3. CASE \E c \in Coroutine : ResumeExpired(c) \/ ResumeActive(c)
  BY <1>3 DEF ResumeExpired, ResumeActive
<1>4. CASE BeginDrain
  BY <1>4 DEF BeginDrain
<1>5. CASE RunNewCo
  BY <1>5 DEF RunNewCo
<1>6. CASE EndDrain
  BY <1>6 DEF EndDrain
<1>7. CASE FlipLock
  BY <1>7 DEF FlipLock
<1>8. CASE Flip
  BY <1>8 DEF Flip
<1>9. CASE FlipUnlock
  BY <1>9 DEF FlipUnlock
<1>. QED  BY <1>1, <1>2, <1>3, <1>4, <1>5, <1>6, <1>7, <1>8, <1>9 DEF LoopStep

LEMMA StutterKeepsInv == ASSUME Inv, UNCHANGED vars PROVE Inv'
BY DEF Inv, TypeOK, LockExcludes, NoQueueRace, FlipLeavesNothing, Holds,
       LoopHolds, vars

\* The inductive invariant holds in every reachable state.
THEOREM Invariance == Spec => []Inv
<1>1. Inv /\ [Next]_vars => Inv'
  BY CallKeepsInv, LoopKeepsInv, StutterKeepsInv DEF Next
<1>. QED  BY InitInv, <1>1, PTL DEF Spec

\* TypeOK for every instance: in particular the index never leaves {0, 1}.
THEOREM TypeCorrect == Spec => []TypeOK
<1>1. Inv => TypeOK
  BY DEF Inv
<1>. QED  BY Invariance, <1>1, PTL

\* The spinlock excludes, for any number of threads (spinlock.h:34-46).
THEOREM MutualExclusion == Spec => []LockExcludes
<1>1. Inv => LockExcludes
  BY DEF Inv
<1>. QED  BY Invariance, <1>1, PTL

\* The loop drains its queue without the lock and no thread, its own
\* coroutines included, ever pushes to it meanwhile (processor.cc:97-178).
THEOREM RaceFreedom == Spec => []NoQueueRace
<1>1. Inv => NoQueueRace
  BY DEF Inv
<1>. QED  BY Invariance, <1>1, PTL

\* The queue put aside by the flip is always empty (processor.cc:165-178).
THEOREM NothingLeftBehind == Spec => []FlipLeavesNothing
<1>1. Inv => FlipLeavesNothing
  BY DEF Inv
<1>. QED  BY Invariance, <1>1, PTL

-----------------------------------------------------------------------------
(* The queue of the processor is a first-in-first-out queue.               *)

qBar == que[runningNewQue] \o que[1 - runningNewQue] \o InFlight
takenBar == IF loopPc = "drain" THEN cur ELSE NoCo

\* What is in flight is what the one holder of the lock has left to push.
InFlightFacts == /\ \A t \in Threads : Holds(t) => InFlight = todo[t]
                 /\ (\A t \in Threads : ~Holds(t)) => InFlight = <<>>
                 /\ InFlight \in Seq(Coroutine)

LEMMA InFlightIsTodo == Inv => InFlightFacts
<1>. SUFFICES ASSUME Inv PROVE InFlightFacts
  OBVIOUS
<1>1. ASSUME NEW t \in Threads, Holds(t) PROVE InFlight = todo[t]
  <2>1. \A u \in Threads : Holds(u) => u = t
    BY <1>1 DEF Inv, LockExcludes
  <2>2. t = CHOOSE u \in Threads : Holds(u)
    BY <1>1, <2>1
  <2>. QED  BY <1>1, <2>2 DEF InFlight
<1>2. (\A t \in Threads : ~Holds(t)) => InFlight = <<>>
  BY DEF InFlight
<1>3. InFlight \in Seq(Coroutine)
  BY <1>1, <1>2, EmptySeq DEF Inv, TypeOK
<1>. QED  BY <1>1, <1>2, <1>3 DEF InFlightFacts

\* Moving the first element of u to the end of t does not change t \o u.
LEMMA MoveHead ==
    ASSUME NEW S, NEW u \in Seq(S) \ {<<>>}, NEW s \in Seq(S), NEW t \in Seq(S)
    PROVE  s \o Append(t, Head(u)) \o Tail(u) = s \o t \o u
<1>. DEFINE h == <<Head(u)>>
<1>1. /\ Head(u) \in S
      /\ Tail(u) \in Seq(S)
      /\ h \in Seq(S)
  BY HeadTailProperties
<1>2. u = h \o Tail(u)
  <2>1. h \o Tail(u) \in Seq(S) /\ Len(h \o Tail(u)) = Len(u)
    BY <1>1, ConcatProperties, HeadTailProperties
  <2>2. ASSUME NEW i \in 1..Len(u) PROVE (h \o Tail(u))[i] = u[i]
    <3>1. /\ Len(h) = 1
          /\ h[1] = Head(u)
          /\ Len(Tail(u)) = Len(u) - 1
          /\ Len(u) \in Nat
      BY HeadTailProperties, LenProperties
    <3>2. (h \o Tail(u))[i] = IF i <= 1 THEN h[i] ELSE Tail(u)[i - 1]
      BY <1>1, <3>1, ConcatProperties
    <3>3. CASE i = 1
      BY <3>1, <3>2, <3>3
    <3>4. CASE i # 1
      <4>1. i - 1 \in 1..Len(Tail(u))
        BY <3>1, <3>4
      <4>2. Tail(u)[i - 1] = u[i]
        BY <4>1, HeadTailProperties
      <4>. QED  BY <3>1, <3>2, <3>4, <4>2
    <3>. QED  BY <3>3, <3>4
  <2>. QED  BY <2>1, <2>2, SeqEqual
<1>3. Append(t, Head(u)) = t \o h
  BY <1>1, AppendIsConcat
<1>. HIDE DEF h
<1>4. (s \o t) \o h = s \o (t \o h)
  <2>. h \in Seq(S)
    BY <1>1
  <2>. QED  BY ConcatAssociative
<1>5. ASSUME NEW st \in Seq(S) PROVE (st \o h) \o Tail(u) = st \o (h \o Tail(u))
  BY SMTT(30), <1>1, ConcatAssociative
<1>6. s \o t \in Seq(S)
  BY ConcatProperties
<1>. QED  BY ZenonT(30), <1>2, <1>3, <1>4, <1>5, <1>6

\* The head and the tail of s \o t \o u are those of s, when s has a head.
LEMMA HeadOfConcat ==
    ASSUME NEW S, NEW s \in Seq(S) \ {<<>>}, NEW t \in Seq(S), NEW u \in Seq(S)
    PROVE  s \o t \o u # <<>> /\ Head(s \o t \o u) = Head(s)
<1>. DEFINE w == s \o t \o u
<1>1. /\ s \o t \in Seq(S)
      /\ w \in Seq(S)
      /\ Len(w) = Len(s) + Len(t) + Len(u)
      /\ Len(s) \in Nat \ {0}
      /\ Len(t) \in Nat
      /\ Len(u) \in Nat
  BY ConcatProperties, EmptySeq, LenProperties
<1>2. w # <<>> /\ Head(w) = Head(s)
  <2>1. w[1] = (s \o t)[1] /\ (s \o t)[1] = s[1]
    BY <1>1, ConcatProperties
  <2>. HIDE DEF w
  <2>2. w # <<>>
    BY <1>1, EmptySeq
  <2>. QED  BY <1>1, <2>1, <2>2
<1>. QED  BY <1>2

LEMMA TailOfConcat ==
    ASSUME NEW S, NEW s \in Seq(S) \ {<<>>}, NEW t \in Seq(S), NEW u \in Seq(S)
    PROVE  Tail(s \o t \o u) = Tail(s) \o t \o u
<1>. DEFINE w == s \o t \o u
            v == Tail(s) \o t \o u
<1>1. /\ s \o t \in Seq(S)
      /\ w \in Seq(S)
      /\ Len(w) = Len(s) + Len(t) + Len(u)
      /\ Len(s) \in Nat \ {0}
      /\ Len(t) \in Nat
      /\ Len(u) \in Nat
  BY ConcatProperties, EmptySeq, LenProperties
<1>2. w # <<>>
  BY HeadOfConcat
<1>3. /\ Tail(s) \in Seq(S)
      /\ Len(Tail(s)) = Len(s) - 1
      /\ Tail(s) \o t \in Seq(S)
      /\ v \in Seq(S)
      /\ Len(v) = Len(s) - 1 + Len(t) + Len(u)
  BY <1>1, HeadTailProperties, ConcatProperties
<1>4. Tail(w) \in Seq(S) /\ Len(Tail(w)) = Len(v)
  BY <1>1, <1>2, <1>3, HeadTailProperties
<1>5. ASSUME NEW i \in 1..Len(Tail(w)) PROVE Tail(w)[i] = v[i]
  <2>1. Tail(w)[i] = w[i + 1]
    BY <1>1, <1>2, HeadTailProperties
  <2>2. w[i + 1] = IF i + 1 <= Len(s) THEN s[i + 1]
                   ELSE IF i + 1 <= Len(s) + Len(t) THEN t[i + 1 - Len(s)]
                   ELSE u[i + 1 - (Len(s) + Len(t))]
    <3>1. i + 1 \in 1..Len(s) + Len(t) + Len(u)
      BY <1>1, <1>3, <1>4
    <3>2. Len(s \o t) = Len(s) + Len(t)
      BY ConcatProperties
    <3>3. w[i + 1] = IF i + 1 <= Len(s) + Len(t) THEN (s \o t)[i + 1]
                     ELSE u[i + 1 - (Len(s) + Len(t))]
      BY <1>1, <3>1, <3>2, ConcatProperties
    <3>4. i + 1 <= Len(s) + Len(t) =>
              (s \o t)[i + 1] = IF i + 1 <= Len(s) THEN s[i + 1]
                                ELSE t[i + 1 - Len(s)]
      BY <1>1, <3>1, ConcatProperties
    <3>. QED  BY <1>1, <3>1, <3>3, <3>4
  <2>3. v[i] = IF i <= Len(s) - 1 THEN Tail(s)[i]
               ELSE IF i <= Len(s) - 1 + Len(t) THEN t[i - (Len(s) - 1)]
               ELSE u[i - (Len(s) - 1 + Len(t))]
    BY <1>1, <1>3, <1>4, ConcatProperties
  <2>4. i <= Len(s) - 1 => Tail(s)[i] = s[i + 1]
    BY <1>1, <1>3, <1>4, HeadTailProperties
  <2>. QED  BY <2>1, <2>2, <2>3, <2>4, <1>1, <1>3, <1>4
<1>. HIDE DEF w, v
<1>6. Tail(w) = v
  BY <1>3, <1>4, <1>5, SeqEqual
<1>. QED  BY <1>6 DEF w, v

\* The abstract steps, written with the mapped variables.
LEMMA AbstractSteps ==
    /\ Fifo!FifoInit <=> qBar = <<>> /\ takenBar = NoCo
    /\ \A b \in Batches : qBar' = qBar \o b /\ takenBar' = takenBar => Fifo!FifoNext
    /\ (/\ takenBar = NoCo /\ qBar # <<>>
        /\ takenBar' = Head(qBar) /\ qBar' = Tail(qBar)) => Fifo!FifoNext
    /\ takenBar # NoCo /\ takenBar' = NoCo /\ qBar' = qBar => Fifo!FifoNext
    /\ qBar' = qBar /\ takenBar' = takenBar => UNCHANGED Fifo!fifoVars
BY DEF Fifo!FifoInit, Fifo!FifoNext, Fifo!Put, Fifo!Take, Fifo!Done,
       Fifo!fifoVars, qBar, takenBar

\* A step of a call is a stutter of the abstract queue, except taking the
\* lock, which puts the whole batch.
LEMMA CallRefines ==
    ASSUME Inv, InFlightFacts, InFlightFacts', NEW t \in Threads,
           CallStep(t) \/ \E b \in Batches : GoCo(t, b)
    PROVE  [Fifo!FifoNext]_(Fifo!fifoVars)
<1>. SUFFICES ASSUME takenBar' = takenBar
              PROVE  \/ qBar' = qBar
                     \/ \E b \in Batches : qBar' = qBar \o b
  BY AbstractSteps DEF takenBar, CallStep, GoCo, Lock, ReadIndex, Push, Unlock,
       WakeUpEpoller, loopVars, coVars
<1>0. /\ que[runningNewQue] \in Seq(Coroutine)
      /\ que[1 - runningNewQue] \in Seq(Coroutine)
      /\ que[runningNewQue] \o que[1 - runningNewQue] \in Seq(Coroutine)
  BY ConcatProperties DEF Inv, TypeOK
<1>1. CASE \E b \in Batches : GoCo(t, b)
  <2>0. \A u \in Threads : /\ Holds(u)' <=> Holds(u)
                           /\ Holds(u) => todo'[u] = todo[u]
    BY <1>1 DEF GoCo, Holds, Inv, TypeOK
  <2>1. InFlight' = InFlight
    BY <2>0 DEF InFlightFacts, Holds
  <2>. QED  BY <1>1, <2>1 DEF GoCo, qBar, queVars
<1>2. CASE Lock(t)
  <2>1. InFlight = <<>> /\ InFlight' = todo[t]
    BY <1>2 DEF Lock, InFlightFacts, Holds, Inv, TypeOK, LockExcludes
  <2>2. todo[t] \in Batches
    BY <1>2 DEF Lock, Inv
  <2>3. qBar' = (que[runningNewQue] \o que[1 - runningNewQue]) \o todo[t]
    BY <1>2, <2>1 DEF Lock, qBar, queVars
  <2>4. qBar = que[runningNewQue] \o que[1 - runningNewQue]
    BY <1>0, <2>1, ConcatEmptySeq DEF qBar
  <2>. QED  BY <2>2, <2>3, <2>4
<1>3. CASE ReadIndex(t)
  <2>1. InFlight' = InFlight
    BY <1>3 DEF ReadIndex, InFlightFacts, Holds, Inv, TypeOK
  <2>. QED  BY <1>3, <2>1 DEF ReadIndex, qBar, queVars
<1>4. CASE Push(t)
  <2>1. InFlight = todo[t] /\ InFlight' = Tail(todo[t])
    BY <1>4 DEF Push, InFlightFacts, Holds, Inv, TypeOK
  <2>2. /\ que'[runningNewQue] = que[runningNewQue]
        /\ que'[1 - runningNewQue] = Append(que[1 - runningNewQue], Head(todo[t]))
        /\ runningNewQue' = runningNewQue
    BY <1>4 DEF Push, Inv, TypeOK, NoQueueRace
  <2>3. todo[t] \in Seq(Coroutine) /\ todo[t] # <<>>
    BY <1>4 DEF Push, Inv, TypeOK
  <2>4. qBar' = que[runningNewQue]
                \o Append(que[1 - runningNewQue], Head(todo[t])) \o Tail(todo[t])
    BY <2>1, <2>2 DEF qBar
  <2>5. qBar = que[runningNewQue] \o que[1 - runningNewQue] \o todo[t]
    BY <2>1 DEF qBar
  <2>6. que[runningNewQue]
        \o Append(que[1 - runningNewQue], Head(todo[t])) \o Tail(todo[t])
          = que[runningNewQue] \o que[1 - runningNewQue] \o todo[t]
    <3>1. todo[t] \in Seq(Coroutine) \ {<<>>}
      BY <2>3
    <3>. QED  BY <1>0, <3>1, MoveHead, Zenon
  <2>. QED  BY <2>4, <2>5, <2>6
<1>5. CASE Unlock(t)
  <2>1. InFlight = <<>> /\ InFlight' = <<>>
    BY <1>5 DEF Unlock, InFlightFacts, Holds, Inv, TypeOK, LockExcludes
  <2>. QED  BY <1>5, <2>1 DEF Unlock, qBar, queVars
<1>6. CASE WakeUpEpoller(t)
  <2>1. InFlight' = InFlight
    BY <1>6 DEF WakeUpEpoller, InFlightFacts, Holds, Inv, TypeOK
  <2>. QED  BY <1>6, <2>1 DEF WakeUpEpoller, qBar, queVars
<1>. QED  BY <1>1, <1>2, <1>3, <1>4, <1>5, <1>6 DEF CallStep

\* A step of the loop is a stutter, except taking a coroutine from the
\* drained queue and coming back from it; the flip only renames.
LEMMA LoopRefines ==
    ASSUME Inv, InFlightFacts, InFlightFacts', LoopStep \/ MakeKnown \/ SwapToMain
    PROVE  [Fifo!FifoNext]_(Fifo!fifoVars)
<1>0. /\ que[runningNewQue] \in Seq(Coroutine)
      /\ que[1 - runningNewQue] \in Seq(Coroutine)
      /\ InFlight \in Seq(Coroutine)
  <2>1. InFlight \in Seq(Coroutine)
    BY DEF InFlightFacts
  <2>2. que \in [{0, 1} -> Seq(Coroutine)] /\ runningNewQue \in {0, 1}
    BY DEF Inv, TypeOK
  <2>. QED  BY <2>1, <2>2
<1>a. InFlight' = InFlight
  BY DEF InFlight, Holds, LoopStep, MakeKnown, SwapToMain, Poll, GetExpired,
       BeginDrain, RunNewCo, EndDrain, FlipLock, Flip, FlipUnlock, EndPass,
       ResumeExpired, ResumeActive, callVars
<1>1. CASE MakeKnown
  <2>. QED  BY <1>1, <1>a, AbstractSteps
            DEF MakeKnown, qBar, takenBar, queVars, loopVars
<1>2. CASE SwapToMain
  <2>1. qBar' = qBar
    BY <1>2, <1>a DEF SwapToMain, qBar, queVars
  <2>2. takenBar' = NoCo
    BY <1>2 DEF SwapToMain, takenBar, loopVars
  <2>. QED  BY <2>1, <2>2, AbstractSteps
<1>3. CASE Poll \/ GetExpired \/ EndPass
  BY <1>3, <1>a, AbstractSteps
     DEF Poll, GetExpired, EndPass, qBar, takenBar, queVars, loopVars, coVars
<1>4. CASE \E c \in Coroutine : ResumeExpired(c) \/ ResumeActive(c)
  BY <1>4, <1>a, AbstractSteps
     DEF ResumeExpired, ResumeActive, qBar, takenBar, queVars, loopVars
<1>5. CASE BeginDrain \/ EndDrain \/ FlipLock \/ FlipUnlock
  BY <1>5, <1>a, AbstractSteps
     DEF BeginDrain, EndDrain, FlipLock, FlipUnlock, qBar, takenBar, queVars,
         loopVars, coVars
<1>6. CASE RunNewCo
  <2>1. /\ takenBar = NoCo
        /\ takenBar' = Head(que[runningNewQue])
        /\ que[runningNewQue] # <<>>
        /\ que'[runningNewQue] = Tail(que[runningNewQue])
        /\ que'[1 - runningNewQue] = que[1 - runningNewQue]
        /\ runningNewQue' = runningNewQue
    BY <1>6 DEF RunNewCo, Inv, TypeOK, takenBar, loopVars
  <2>2. qBar' = Tail(que[runningNewQue]) \o que[1 - runningNewQue] \o InFlight
    BY <2>1, <1>a DEF qBar
  <2>3. /\ qBar # <<>>
        /\ Head(qBar) = Head(que[runningNewQue])
        /\ Tail(qBar) = Tail(que[runningNewQue]) \o que[1 - runningNewQue] \o InFlight
    <3>1. que[runningNewQue] \in Seq(Coroutine) \ {<<>>}
      BY <1>0, <2>1
    <3>. DEFINE A == Coroutine
                s == que[runningNewQue]
                t == que[1 - runningNewQue]
                u == InFlight
    <3>2. s \in Seq(A) \ {<<>>} /\ t \in Seq(A) /\ u \in Seq(A)
      BY <1>0, <3>1
    <3>. HIDE DEF A, s, t, u
    <3>3. s \o t \o u # <<>>
      BY <3>2, HeadOfConcat
    <3>4. Head(s \o t \o u) = Head(s)
      BY <3>2, HeadOfConcat
    <3>5. Tail(s \o t \o u) = Tail(s) \o t \o u
      BY <3>2, TailOfConcat, Z3
    <3>. QED  BY <3>3, <3>4, <3>5 DEF qBar, s, t, u
  <2>. QED  BY <2>1, <2>2, <2>3, AbstractSteps
<1>7. CASE Flip
  <2>1. /\ que[runningNewQue] = <<>>
        /\ runningNewQue' = 1 - runningNewQue
        /\ 1 - runningNewQue' = runningNewQue
        /\ que' = que
    BY <1>7 DEF Flip, Inv, TypeOK, FlipLeavesNothing
  <2>2. /\ que[runningNewQue] \o que[1 - runningNewQue] = que[1 - runningNewQue]
        /\ que[1 - runningNewQue] \o que[runningNewQue] = que[1 - runningNewQue]
    BY <1>0, <2>1, ConcatEmptySeq
  <2>3. qBar' = qBar
    BY <1>a, <2>1, <2>2 DEF qBar
  <2>4. takenBar' = takenBar
    BY <1>7 DEF Flip, takenBar
  <2>. QED  BY <2>3, <2>4, AbstractSteps
<1>. QED  BY <1>1, <1>2, <1>3, <1>4, <1>5, <1>6, <1>7 DEF LoopStep

\* The two queues with their lock and their index are, for every number of
\* threads, one first-in-first-out queue that takes a batch as a whole
\* (processor.cc:94-117, 161-178).
THEOREM QueueImplementsFifo == Spec => ImplementsFifo
<1>1. Init => Fifo!FifoInit
  <2>. SUFFICES ASSUME Init PROVE qBar = <<>> /\ takenBar = NoCo
    BY AbstractSteps
  <2>1. InFlight = <<>>
    BY DEF Init, InFlight, Holds
  <2>2. <<>> \o <<>> = <<>>
    BY EmptySeq, ConcatEmptySeq
  <2>. QED  BY <2>1, <2>2 DEF Init, qBar, takenBar
<1>2. Inv /\ InFlightFacts /\ InFlightFacts' /\ [Next]_vars
          => [Fifo!FifoNext]_(Fifo!fifoVars)
  <2>1. CASE UNCHANGED vars
    BY <2>1, AbstractSteps DEF vars, qBar, takenBar, InFlight, Holds
  <2>. QED  BY <2>1, CallRefines, LoopRefines DEF Next
<1>. QED  BY <1>1, <1>2, Invariance, InFlightIsTodo, PTL
          DEF Spec, ImplementsFifo, Fifo!FifoSpec
=============================================================================
