--------------------------- MODULE ProcessorProofs ---------------------------
(***************************************************************************)
(* Proofs about Processor for every number of threads, objects and files.  *)
(*                                                                         *)
(* The inductive invariant says that the raw pointers partition the        *)
(* objects: there is a function that gives each object its one place, and  *)
(* every list, queue, set and local variable holds exactly the objects     *)
(* whose place it is.  Each step of the processor moves one object.        *)
(***************************************************************************)
EXTENDS Processor, FiniteSetTheorems, SequenceTheorems, TLAPS

Kinds == {"free", "cpu", "timer", "expired", "removed", "event", "hand",
          "lock", "new", "run"}

In(o, s) == \E i \in 1..Len(s) : s[i] = o

Once(s) == \A i, j \in 1..Len(s) : s[i] = s[j] => i = j

\* Each object is where "at" says it is, and nowhere else.  An object in
\* waitEvent has its place in waitFd, registered with epoll or not.
InSets(at) ==
    \A o \in Object : /\ o \in free    <=> at[o] = "free"
                      /\ o \in timers  <=> at[o] = "timer"
                      /\ o \in expired <=> at[o] = "expired"
                      /\ o \in removed <=> at[o] = "removed"

InCells(at) ==
    \A o \in Object : /\ waitFd[o] # NoFd                <=> at[o] = "event"
                      /\ (\E t \in Threads : hand[t] = o) <=> at[o] = "hand"
                      /\ (o = cur /\ ~giveUp)            <=> at[o] = "cpu"

InSeqs(at) ==
    \A o \in Object : /\ (In(o, waiters) <=> at[o] = "lock")
                      /\ In(o, newq)    <=> at[o] = "new"
                      /\ In(o, runq)    <=> at[o] = "run"

\* No place holds an object twice, and epoll has registered for a file only
\* whoever waits for it.
Distinct ==
    /\ \A t, u \in Threads : hand[t] # NoCo /\ hand[t] = hand[u] => t = u
    /\ Once(waiters) /\ Once(newq) /\ Once(runq)
    /\ \A f \in Fd : interest[f] # NoCo => waitFd[interest[f]] = f

\* Whoever will be resumed passes the tests of the two resume functions.
Resumable(at) ==
    \A o \in Object :
        /\ at[o] \in {"timer", "expired", "event"} =>
               status[o] = "WAITING" /\ o \in coSet
        /\ at[o] \in {"hand", "lock", "new", "run"} /\ o # cur =>
               status[o] \in {"READY", "WAITING"}
        /\ at[o] \in {"cpu", "removed"} => status[o] = "RUNNING"
        /\ at[o] = "free" => status[o] # "READY"

Running(at) ==
    /\ cur # NoCo => /\ cur \in coSet
                     /\ status[cur] = "RUNNING"
                     /\ loopPc \in {"timers", "drain", "events"}
    /\ giveUp => cur # NoCo /\ at[cur] \in {"lock", "hand", "new"}

\* What the steps of a pass leave to the next ones.
InPass ==
    /\ loopPc # "timers" => expired = {}
    /\ loopPc = "flip" => runq = <<>>
    /\ loopPc \in {"clean", "poll"} => act = {}
    /\ \A o \in act : \E f \in Fd : interest[f] = o

Placed(at) == InSets(at) /\ InCells(at) /\ InSeqs(at) /\ Resumable(at) /\ Running(at)

IInv == /\ TypeOK
        /\ Distinct
        /\ InPass
        /\ \E at \in [Object -> Kinds] : Placed(at)

-----------------------------------------------------------------------------
(* The queues.                                                             *)

\* Append adds its element, once if it was not there.
LEMMA InAppend ==
    ASSUME NEW S, NEW s \in Seq(S), NEW e \in S
    PROVE  /\ Append(s, e) \in Seq(S)
           /\ \A o : In(o, Append(s, e)) <=> In(o, s) \/ o = e
           /\ Once(s) /\ ~In(e, s) => Once(Append(s, e))
<1>. DEFINE t == Append(s, e)
            n == Len(s) + 1
<1>1. /\ t \in Seq(S) /\ Len(t) = n
      /\ \A i \in 1..Len(s) : t[i] = s[i]
      /\ t[n] = e
      /\ Len(s) \in Nat
  BY AppendProperties, LenProperties
<1>. HIDE DEF t
<1>2. \A i \in 1..n : i \in 1..Len(s) \/ i = n
  BY <1>1
<1>3. \A o : In(o, t) <=> In(o, s) \/ o = e
  BY <1>1, <1>2 DEF In
<1>4. Once(s) /\ ~In(e, s) => Once(t)
  BY <1>1, <1>2 DEF In, Once
<1>. QED  BY <1>1, <1>3, <1>4 DEF t

\* Tail removes the head, from a queue that holds it once.
LEMMA InTail ==
    ASSUME NEW S, NEW s \in Seq(S), s # <<>>, Once(s)
    PROVE  /\ Head(s) \in S /\ Tail(s) \in Seq(S)
           /\ In(Head(s), s)
           /\ \A o : In(o, Tail(s)) <=> In(o, s) /\ o # Head(s)
           /\ Once(Tail(s))
<1>. DEFINE t == Tail(s)
<1>1. /\ Head(s) \in S /\ t \in Seq(S)
      /\ Len(t) = Len(s) - 1
      /\ \A i \in 1..Len(t) : t[i] = s[i + 1]
      /\ Head(s) = s[1]
  BY HeadTailProperties
<1>2. Len(s) \in Nat \ {0}
  BY EmptySeq
<1>. HIDE DEF t
<1>3. In(Head(s), s)
  BY <1>1, <1>2 DEF In
<1>4. \A o : In(o, t) => In(o, s) /\ o # Head(s)
  <2>1. \A i \in 1..Len(t) : i + 1 \in 1..Len(s) /\ i + 1 # 1 /\ 1 \in 1..Len(s)
    BY <1>1, <1>2
  <2>. QED  BY <1>1, <2>1 DEF In, Once
<1>5. \A o : In(o, s) /\ o # Head(s) => In(o, t)
  <2>1. ASSUME NEW j \in 1..Len(s), s[j] # Head(s)
        PROVE  j - 1 \in 1..Len(t) /\ t[j - 1] = s[j]
    BY <1>1, <1>2, <2>1
  <2>. QED  BY <2>1 DEF In
<1>6. Once(t)
  <2>. SUFFICES ASSUME NEW i \in 1..Len(t), NEW j \in 1..Len(t), t[i] = t[j]
                PROVE  i = j
    BY DEF Once
  <2>1. i + 1 \in 1..Len(s) /\ j + 1 \in 1..Len(s)
    BY <1>1, <1>2
  <2>2. s[i + 1] = s[j + 1]
    BY <1>1
  <2>3. i + 1 = j + 1
    BY <2>1, <2>2 DEF Once
  <2>. QED  BY <2>3
<1>. QED  BY <1>1, <1>3, <1>4, <1>5, <1>6 DEF t

LEMMA EmptyQueue == Once(<<>>) /\ \A o : ~In(o, <<>>)
BY DEF Once, In

-----------------------------------------------------------------------------
LEMMA InitIInv == Init => IInv
<1>. SUFFICES ASSUME Init PROVE IInv
  OBVIOUS
<1>1. TypeOK
  BY EmptySeq DEF Init, TypeOK
<1>2. Distinct
  BY EmptyQueue DEF Init, Distinct
<1>3. InPass
  BY DEF Init, InPass
<1>. DEFINE at == [o \in Object |-> "free"]
<1>4. at \in [Object -> Kinds]
  BY DEF Kinds
<1>5. InSets(at) /\ InCells(at)
  BY ProcessorAssumption DEF Init, InSets, InCells
<1>6. InSeqs(at)
  BY EmptyQueue DEF Init, InSeqs
<1>7. Resumable(at) /\ Running(at)
  BY DEF Init, Resumable, Running
<1>. QED  BY <1>1, <1>2, <1>3, <1>4, <1>5, <1>6, <1>7 DEF IInv, Placed

\* What any thread may do.
LEMMA NewObjKeeps ==
    ASSUME IInv, NEW t \in Threads, NEW o \in Object, NewObj(t, o) PROVE IInv'
<1>1. PICK at \in [Object -> Kinds] : Placed(at)
  BY DEF IInv
<1>. DEFINE to == [at EXCEPT ![o] = "hand"]
<1>2. to \in [Object -> Kinds] /\ at[o] = "free" /\ to[o] = "hand"
      /\ \A p \in Object \ {o} : to[p] = at[p]
  BY <1>1 DEF Kinds, Placed, InSets, NewObj
<1>. HIDE DEF to
<1>3. TypeOK'
  BY DEF IInv, TypeOK, NewObj, wakeVars
<1>4. hand[t] = NoCo /\ hand' = [hand EXCEPT ![t] = o] /\ o # NoCo
      /\ hand \in [Threads -> Object \union {NoCo}]
  BY ProcessorAssumption DEF IInv, TypeOK, NewObj, MayCall
<1>5. \A u \in Threads : hand[u] # o
  BY <1>1, <1>2 DEF Placed, InCells
<1>6. Distinct'
  BY <1>4, <1>5 DEF IInv, Distinct, NewObj, wakeVars
<1>7. InPass'
  BY DEF IInv, InPass, NewObj, wakeVars
<1>8. InSets(to)'
  BY <1>1, <1>2 DEF Placed, InSets, NewObj, wakeVars
<1>9. InCells(to)'
  BY ProcessorAssumption, <1>1, <1>2, <1>4 DEF Placed, InCells, NewObj, wakeVars
<1>10. InSeqs(to)'
  BY <1>1, <1>2 DEF Placed, InSeqs, NewObj, wakeVars
<1>11. Resumable(to)' /\ Running(to)'
  <2>1. cur # o
    BY <1>1, <1>2 DEF Placed, InCells, Running
  <2>. QED  BY <1>1, <1>2, <2>1 DEF Placed, Resumable, Running, NewObj, IInv, TypeOK
<1>. QED  BY <1>2, <1>3, <1>6, <1>7, <1>8, <1>9, <1>10, <1>11 DEF IInv, Placed

LEMMA TakeWaiterKeeps ==
    ASSUME IInv, NEW t \in Threads, TakeWaiter(t) PROVE IInv'
<1>1. PICK at \in [Object -> Kinds] : Placed(at)
  BY DEF IInv
<1>2. waiters \in Seq(Object) /\ waiters # <<>> /\ Once(waiters)
  BY DEF IInv, TypeOK, Distinct, TakeWaiter
<1>3. PICK o \in Object : o = Head(waiters)
  BY <1>2, InTail
<1>4. /\ In(o, waiters) /\ Once(waiters') /\ waiters' \in Seq(Object)
      /\ \A p : In(p, waiters') <=> In(p, waiters) /\ p # o
  <2>1. waiters' = Tail(waiters)
    BY DEF TakeWaiter
  <2>. QED  BY <1>2, <1>3, <2>1, InTail
<1>. DEFINE to == [at EXCEPT ![o] = "hand"]
<1>5. to \in [Object -> Kinds] /\ at[o] = "lock" /\ to[o] = "hand"
      /\ \A p \in Object \ {o} : to[p] = at[p]
  BY <1>1, <1>4 DEF Kinds, Placed, InSeqs
<1>. HIDE DEF to
<1>6. TypeOK'
  BY <1>3, <1>4 DEF IInv, TypeOK, TakeWaiter, poolVars
<1>7. hand[t] = NoCo /\ hand' = [hand EXCEPT ![t] = o] /\ o # NoCo
      /\ hand \in [Threads -> Object \union {NoCo}]
  BY ProcessorAssumption, <1>3 DEF IInv, TypeOK, TakeWaiter, MayCall
<1>8. \A u \in Threads : hand[u] # o
  BY <1>1, <1>5 DEF Placed, InCells
<1>9. Distinct'
  BY <1>4, <1>7, <1>8 DEF IInv, Distinct, TakeWaiter
<1>10. InPass'
  BY DEF IInv, InPass, TakeWaiter
<1>11. InSets(to)'
  BY <1>1, <1>5 DEF Placed, InSets, TakeWaiter, poolVars
<1>12. InCells(to)'
  BY ProcessorAssumption, <1>1, <1>5, <1>7 DEF Placed, InCells, TakeWaiter
<1>13. InSeqs(to)'
  BY <1>1, <1>4, <1>5 DEF Placed, InSeqs, TakeWaiter
<1>14. Resumable(to)' /\ Running(to)'
  BY <1>1, <1>5 DEF Placed, Resumable, Running, TakeWaiter, IInv, TypeOK
<1>. QED  BY <1>5, <1>6, <1>9, <1>10, <1>11, <1>12, <1>13, <1>14 DEF IInv, Placed

LEMMA GoCoKeeps == ASSUME IInv, NEW t \in Threads, GoCo(t) PROVE IInv'
<1>1. PICK at \in [Object -> Kinds] : Placed(at)
  BY DEF IInv
<1>2. PICK o \in Object : o = hand[t]
  BY DEF IInv, TypeOK, GoCo
<1>. DEFINE to == [at EXCEPT ![o] = "new"]
<1>3. to \in [Object -> Kinds] /\ at[o] = "hand" /\ to[o] = "new"
      /\ \A p \in Object \ {o} : to[p] = at[p]
  BY <1>1, <1>2 DEF Kinds, Placed, InCells
<1>. HIDE DEF to
<1>4. newq \in Seq(Object) /\ Once(newq) /\ ~In(o, newq) /\ newq' = Append(newq, o)
  BY <1>1, <1>2, <1>3 DEF IInv, TypeOK, Distinct, Placed, InSeqs, GoCo
<1>5. /\ newq' \in Seq(Object) /\ Once(newq')
      /\ \A p : In(p, newq') <=> In(p, newq) \/ p = o
  BY <1>4, InAppend
<1>6. TypeOK'
  BY <1>5 DEF IInv, TypeOK, GoCo, poolVars, wakeVars
<1>7. hand[t] = o /\ hand' = [hand EXCEPT ![t] = NoCo] /\ o # NoCo
      /\ hand \in [Threads -> Object \union {NoCo}]
      /\ \A u \in Threads : u # t => hand[u] # o
  BY ProcessorAssumption, <1>2 DEF IInv, TypeOK, Distinct, GoCo
<1>8. Distinct'
  BY <1>5, <1>7 DEF IInv, Distinct, GoCo, wakeVars
<1>9. InPass'
  BY DEF IInv, InPass, GoCo, wakeVars
<1>10. InSets(to)'
  BY <1>1, <1>3 DEF Placed, InSets, GoCo, poolVars, wakeVars
<1>11. InCells(to)'
  BY ProcessorAssumption, <1>1, <1>3, <1>7 DEF Placed, InCells, GoCo, wakeVars
<1>12. InSeqs(to)'
  BY <1>1, <1>3, <1>5 DEF Placed, InSeqs, GoCo, wakeVars
<1>13. Resumable(to)' /\ Running(to)'
  BY <1>1, <1>3 DEF Placed, Resumable, Running, GoCo, IInv, TypeOK
<1>. QED  BY <1>3, <1>6, <1>8, <1>9, <1>10, <1>11, <1>12, <1>13 DEF IInv, Placed

-----------------------------------------------------------------------------
(* The running coroutine gives up the thread.                              *)

\* What is known of a coroutine in its own code.
LEMMA RunningFacts ==
    ASSUME IInv, NEW at \in [Object -> Kinds], Placed(at), InUserCode
    PROVE  /\ cur \in Object /\ cur # NoCo /\ at[cur] = "cpu"
           /\ cur \in coSet /\ status[cur] = "RUNNING"
           /\ giveUp = FALSE
BY DEF IInv, TypeOK, Placed, Running, InCells, InUserCode

LEMMA WaitKeeps == ASSUME IInv, Wait PROVE IInv'
<1>1. PICK at \in [Object -> Kinds] : Placed(at)
  BY DEF IInv
<1>2. PICK o \in Object : o = cur
  BY <1>1, RunningFacts DEF Wait, MayYield
<1>3. at[o] = "cpu" /\ o \in coSet /\ giveUp = FALSE
  BY <1>1, <1>2, RunningFacts DEF Wait, MayYield
<1>. DEFINE to == [at EXCEPT ![o] = "timer"]
<1>4. to \in [Object -> Kinds] /\ to[o] = "timer"
      /\ \A p \in Object \ {o} : to[p] = at[p]
  BY DEF Kinds
<1>. HIDE DEF to
<1>5. TypeOK'
  BY <1>2 DEF IInv, TypeOK, Wait, SwapToMain, poolVars
<1>6. Distinct' /\ InPass'
  BY DEF IInv, Distinct, InPass, Wait, SwapToMain
<1>7. InSets(to)'
  BY <1>1, <1>2, <1>3, <1>4 DEF Placed, InSets, Wait, poolVars
<1>8. InCells(to)'
  BY ProcessorAssumption, <1>1, <1>2, <1>3, <1>4 DEF Placed, InCells, Wait, SwapToMain
<1>9. InSeqs(to)'
  BY <1>1, <1>3, <1>4 DEF Placed, InSeqs, Wait
<1>10. Resumable(to)' /\ Running(to)'
  BY <1>1, <1>2, <1>3, <1>4
     DEF Placed, Resumable, Running, Wait, SwapToMain, IInv, TypeOK
<1>. QED  BY <1>4, <1>5, <1>6, <1>7, <1>8, <1>9, <1>10 DEF IInv, Placed

LEMMA WaitEventKeeps == ASSUME IInv, NEW f \in Fd, WaitEvent(f) PROVE IInv'
<1>1. PICK at \in [Object -> Kinds] : Placed(at)
  BY DEF IInv
<1>2. PICK o \in Object : o = cur
  BY <1>1, RunningFacts DEF WaitEvent, MayYield
<1>3. at[o] = "cpu" /\ o \in coSet /\ giveUp = FALSE
  BY <1>1, <1>2, RunningFacts DEF WaitEvent, MayYield
<1>. DEFINE to == [at EXCEPT ![o] = "event"]
<1>4. to \in [Object -> Kinds] /\ to[o] = "event"
      /\ \A p \in Object \ {o} : to[p] = at[p]
  BY DEF Kinds
<1>. HIDE DEF to
<1>5. /\ waitFd' = [waitFd EXCEPT ![o] = f]
      /\ interest' = [interest EXCEPT ![f] = IF @ = NoCo THEN o ELSE @]
      /\ waitFd \in [Object -> Fd \union {NoFd}]
      /\ interest \in [Fd -> Object \union {NoCo}]
      /\ waitFd[o] = NoFd /\ f # NoFd /\ o # NoCo
  BY ProcessorAssumption, <1>1, <1>2, <1>3
     DEF IInv, TypeOK, WaitEvent, AddEv, Placed, InCells
<1>6. TypeOK'
  BY <1>2, <1>5 DEF IInv, TypeOK, WaitEvent, SwapToMain, poolVars
<1>7. \A g \in Fd : interest[g] # o
  BY ProcessorAssumption, <1>5 DEF IInv, Distinct
<1>8. Distinct'
  <2>1. \A g \in Fd : interest'[g] # NoCo => waitFd'[interest'[g]] = g
    BY <1>5, <1>7 DEF IInv, Distinct
  <2>. QED  BY <2>1 DEF IInv, Distinct, WaitEvent
<1>9. InPass'
  BY ProcessorAssumption, <1>5 DEF IInv, InPass, WaitEvent, TypeOK
<1>10. InSets(to)'
  BY <1>1, <1>3, <1>4 DEF Placed, InSets, WaitEvent, poolVars
<1>11. InCells(to)'
  BY ProcessorAssumption, <1>1, <1>2, <1>3, <1>4, <1>5
     DEF Placed, InCells, WaitEvent, SwapToMain
<1>12. InSeqs(to)'
  BY <1>1, <1>3, <1>4 DEF Placed, InSeqs, WaitEvent
<1>13. Resumable(to)' /\ Running(to)'
  BY <1>1, <1>2, <1>3, <1>4
     DEF Placed, Resumable, Running, WaitEvent, SwapToMain, IInv, TypeOK
<1>. QED  BY <1>4, <1>6, <1>8, <1>9, <1>10, <1>11, <1>12, <1>13 DEF IInv, Placed

LEMMA WaitForLockKeeps == ASSUME IInv, WaitForLock PROVE IInv'
<1>1. PICK at \in [Object -> Kinds] : Placed(at)
  BY DEF IInv
<1>2. PICK o \in Object : o = cur
  BY <1>1, RunningFacts DEF WaitForLock, MayYield
<1>3. at[o] = "cpu" /\ o \in coSet /\ giveUp = FALSE
  BY <1>1, <1>2, RunningFacts DEF WaitForLock, MayYield
<1>. DEFINE to == [at EXCEPT ![o] = "lock"]
<1>4. to \in [Object -> Kinds] /\ to[o] = "lock"
      /\ \A p \in Object \ {o} : to[p] = at[p]
  BY DEF Kinds
<1>. HIDE DEF to
<1>5. waiters \in Seq(Object) /\ Once(waiters) /\ ~In(o, waiters)
      /\ waiters' = Append(waiters, o)
  BY <1>1, <1>2, <1>3 DEF IInv, TypeOK, Distinct, Placed, InSeqs, WaitForLock
<1>6. /\ waiters' \in Seq(Object) /\ Once(waiters')
      /\ \A p : In(p, waiters') <=> In(p, waiters) \/ p = o
  BY <1>5, InAppend
<1>7. TypeOK'
  BY <1>6 DEF IInv, TypeOK, WaitForLock, poolVars
<1>8. Distinct' /\ InPass'
  BY <1>6 DEF IInv, Distinct, InPass, WaitForLock
<1>9. InSets(to)'
  BY <1>1, <1>3, <1>4 DEF Placed, InSets, WaitForLock, poolVars
<1>10. InCells(to)'
  BY <1>1, <1>2, <1>3, <1>4 DEF Placed, InCells, WaitForLock
<1>11. InSeqs(to)'
  BY <1>1, <1>3, <1>4, <1>6 DEF Placed, InSeqs, WaitForLock
<1>12. Resumable(to)' /\ Running(to)'
  BY <1>1, <1>2, <1>3, <1>4
     DEF Placed, Resumable, Running, WaitForLock, MayYield, InUserCode
<1>. QED  BY <1>4, <1>7, <1>8, <1>9, <1>10, <1>11, <1>12 DEF IInv, Placed

LEMMA YieldKeeps == ASSUME IInv, Yield PROVE IInv'
<1>1. PICK at \in [Object -> Kinds] : Placed(at)
  BY DEF IInv
<1>2. cur \in Object /\ at[cur] \in {"lock", "hand", "new"} /\ giveUp = TRUE
  BY <1>1 DEF IInv, TypeOK, Placed, Running, Yield
<1>3. TypeOK'
  BY <1>2 DEF IInv, TypeOK, Yield, SwapToMain, poolVars, wakeVars
<1>4. Distinct' /\ InPass'
  BY DEF IInv, Distinct, InPass, Yield, wakeVars
<1>5. InSets(at)' /\ InSeqs(at)'
  BY <1>1 DEF Placed, InSets, InSeqs, Yield, poolVars, wakeVars
<1>6. InCells(at)'
  BY ProcessorAssumption, <1>1, <1>2 DEF Placed, InCells, Yield, SwapToMain, wakeVars
<1>7. Resumable(at)' /\ Running(at)'
  BY <1>1, <1>2 DEF Placed, Resumable, Running, Yield, SwapToMain, IInv, TypeOK
<1>. QED  BY <1>3, <1>4, <1>5, <1>6, <1>7 DEF IInv, Placed

LEMMA KillCurCoKeeps == ASSUME IInv, KillCurCo PROVE IInv'
<1>1. PICK at \in [Object -> Kinds] : Placed(at)
  BY DEF IInv
<1>2. PICK o \in Object : o = cur
  BY <1>1, RunningFacts DEF KillCurCo, MayYield
<1>3. at[o] = "cpu" /\ status[o] = "RUNNING" /\ giveUp = FALSE
  BY <1>1, <1>2, RunningFacts DEF KillCurCo, MayYield
<1>. DEFINE to == [at EXCEPT ![o] = "removed"]
<1>4. to \in [Object -> Kinds] /\ to[o] = "removed"
      /\ \A p \in Object \ {o} : to[p] = at[p]
  BY DEF Kinds
<1>. HIDE DEF to
<1>5. TypeOK'
  BY <1>2 DEF IInv, TypeOK, KillCurCo, wakeVars
<1>6. Distinct' /\ InPass'
  BY DEF IInv, Distinct, InPass, KillCurCo, wakeVars
<1>7. InSets(to)'
  BY <1>1, <1>2, <1>3, <1>4 DEF Placed, InSets, KillCurCo, wakeVars
<1>8. InCells(to)'
  BY ProcessorAssumption, <1>1, <1>2, <1>3, <1>4 DEF Placed, InCells, KillCurCo, wakeVars
<1>9. InSeqs(to)'
  BY <1>1, <1>3, <1>4 DEF Placed, InSeqs, KillCurCo, wakeVars
<1>10. Resumable(to)' /\ Running(to)'
  BY <1>1, <1>2, <1>3, <1>4 DEF Placed, Resumable, Running, KillCurCo
<1>. QED  BY <1>4, <1>5, <1>6, <1>7, <1>8, <1>9, <1>10 DEF IInv, Placed

-----------------------------------------------------------------------------
(* The loop.                                                               *)

LEMMA QuietLoopKeeps ==
    ASSUME IInv, Poll \/ EndTimers \/ EndDrain \/ EndEvents \/ EndPass PROVE IInv'
<1>1. PICK at \in [Object -> Kinds] : Placed(at)
  BY DEF IInv
<1>2. cur = NoCo
  BY <1>1 DEF Placed, Running, Poll, EndTimers, EndDrain, EndEvents, EndPass, IInv
<1>3. TypeOK'
  <2>1. CASE Poll
    <3>1. act' \subseteq Object
      BY <2>1 DEF Poll, IInv, TypeOK
    <3>. QED  BY <2>1, <3>1 DEF Poll, IInv, TypeOK, poolVars
  <2>2. CASE EndTimers \/ EndDrain \/ EndEvents \/ EndPass
    BY <2>2 DEF EndTimers, EndDrain, EndEvents, EndPass, IInv, TypeOK, poolVars,
       wakeVars
  <2>. QED  BY <2>1, <2>2
<1>4. Distinct'
  BY DEF Poll, EndTimers, EndDrain, EndEvents, EndPass, IInv, Distinct, wakeVars
<1>5. InPass'
  <2>1. CASE Poll
    BY <2>1 DEF Poll, IInv, InPass
  <2>2. CASE EndTimers \/ EndDrain \/ EndEvents \/ EndPass
    BY <2>2 DEF EndTimers, EndDrain, EndEvents, EndPass, IInv, InPass, wakeVars
  <2>. QED  BY <2>1, <2>2
<1>6. InSets(at)' /\ InSeqs(at)'
  BY <1>1 DEF Poll, EndTimers, EndDrain, EndEvents, EndPass, Placed, InSets, InSeqs,
              poolVars, wakeVars
<1>7. InCells(at)'
  BY <1>1 DEF Poll, EndTimers, EndDrain, EndEvents, EndPass, Placed, InCells, wakeVars
<1>8. Resumable(at)' /\ Running(at)'
  BY <1>1, <1>2 DEF Poll, EndTimers, EndDrain, EndEvents, EndPass, Placed, Resumable,
              Running
<1>. QED  BY <1>3, <1>4, <1>5, <1>6, <1>7, <1>8 DEF IInv, Placed

LEMMA GetExpiredKeeps == ASSUME IInv, GetExpired PROVE IInv'
<1>1. PICK at \in [Object -> Kinds] : Placed(at)
  BY DEF IInv
<1>2. PICK due \in SUBSET timers : expired' = due
  BY DEF GetExpired
<1>3. timers' = timers \ due /\ expired = {} /\ timers \subseteq Object
  BY <1>2 DEF GetExpired, IInv, InPass, TypeOK
<1>. DEFINE to == [o \in Object |-> IF o \in due THEN "expired" ELSE at[o]]
<1>4. /\ to \in [Object -> Kinds]
      /\ \A o \in due : o \in Object /\ at[o] = "timer" /\ to[o] = "expired"
      /\ \A o \in Object \ due : to[o] = at[o]
  BY <1>1, <1>3 DEF Kinds, Placed, InSets
<1>. HIDE DEF to
<1>5. TypeOK'
  BY <1>2, <1>3 DEF IInv, TypeOK, GetExpired, poolVars
<1>6. Distinct' /\ InPass'
  BY DEF IInv, Distinct, InPass, GetExpired
<1>7. InSets(to)'
  BY <1>1, <1>2, <1>3, <1>4 DEF Placed, InSets, GetExpired, poolVars
<1>8. InCells(to)'
  BY <1>1, <1>4 DEF Placed, InCells, GetExpired
<1>9. InSeqs(to)'
  BY <1>1, <1>4 DEF Placed, InSeqs, GetExpired
<1>10. Resumable(to)' /\ Running(to)'
  BY <1>1, <1>4 DEF Placed, Resumable, Running, GetExpired, IInv, TypeOK
<1>. QED  BY <1>4, <1>5, <1>6, <1>7, <1>8, <1>9, <1>10 DEF IInv, Placed

\* What the two resume functions do to a coroutine whose turn it is: it passes
\* their tests, runs, and its file, if it waited for one, is not registered.
LEMMA Resumed ==
    ASSUME IInv, NEW at \in [Object -> Kinds], Placed(at), cur = NoCo,
           NEW o \in Object, NEW set \in SUBSET Object, o \in set, Resume(o, set),
           at[o] \in {"expired", "event", "run"}
    PROVE  /\ cur' = o
           /\ status' = [status EXCEPT ![o] = "RUNNING"]
           /\ waitFd' = [waitFd EXCEPT ![o] = NoFd]
           /\ interest' \in [Fd -> Object \union {NoCo}]
           /\ \A f \in Fd : interest'[f] = IF f = waitFd[o] THEN NoCo ELSE interest[f]
           /\ giveUp = FALSE
<1>1. status[o] \in {"READY", "WAITING"} /\ giveUp = FALSE
  BY ProcessorAssumption DEF Placed, Resumable, Running, IInv, TypeOK
<1>. QED  BY <1>1 DEF Resume, RemoveEv, IInv, TypeOK

\* What a resumed coroutine leaves of the invariant, wherever it was.
LEMMA ResumeKeeps ==
    ASSUME IInv, NEW at \in [Object -> Kinds], Placed(at), cur = NoCo,
           NEW o \in Object, NEW set \in SUBSET Object, o \in set, Resume(o, set),
           at[o] \in {"expired", "event", "run"},
           at[o] = "event" => interest[waitFd[o]] = o,
           set = coSet', coSet \subseteq coSet',
           loopPc \in {"timers", "drain", "events"},
           UNCHANGED <<hand, giveUp, loopPc>>,
           NEW to \in [Object -> Kinds], to = [at EXCEPT ![o] = "cpu"]
    PROVE  /\ \A f \in Fd : interest'[f] # NoCo => waitFd'[interest'[f]] = f
           /\ \A f \in Fd : interest[f] # o => interest'[f] = interest[f]
           /\ InCells(to)' /\ Resumable(to)' /\ Running(to)'
<1>1. /\ cur' = o
      /\ status' = [status EXCEPT ![o] = "RUNNING"]
      /\ waitFd' = [waitFd EXCEPT ![o] = NoFd]
      /\ \A f \in Fd : interest'[f] = IF f = waitFd[o] THEN NoCo ELSE interest[f]
      /\ giveUp = FALSE
  BY Resumed
<1>2. to[o] = "cpu" /\ \A p \in Object \ {o} : to[p] = at[p]
  OBVIOUS
<1>3. /\ waitFd \in [Object -> Fd \union {NoFd}] /\ NoFd \notin Fd /\ NoCo \notin Object
      /\ status \in [Object -> {"READY", "RUNNING", "WAITING", "DEAD"}]
      /\ interest \in [Fd -> Object \union {NoCo}]
      /\ \A f \in Fd : interest[f] # NoCo => waitFd[interest[f]] = f
  BY ProcessorAssumption DEF IInv, TypeOK, Distinct
<1>4. \A f \in Fd : interest[f] = o => f = waitFd[o]
  BY <1>3
<1>5. \A f \in Fd : interest'[f] # NoCo => waitFd'[interest'[f]] = f
  BY <1>1, <1>3, <1>4
<1>6. waitFd[o] # NoFd => interest[waitFd[o]] = o
  BY DEF Placed, InCells
<1>7. \A f \in Fd : interest[f] # o => interest'[f] = interest[f]
  BY <1>1, <1>3, <1>6
<1>8. InCells(to)'
  BY <1>1, <1>2, <1>3 DEF Placed, InCells
<1>9. Resumable(to)'
  BY <1>1, <1>2, <1>3 DEF Placed, Resumable
<1>10. Running(to)'
  BY <1>1, <1>3 DEF Running
<1>. QED  BY <1>5, <1>7, <1>8, <1>9, <1>10

LEMMA ResumeExpiredKeeps ==
    ASSUME IInv, NEW o \in Object, ResumeExpired(o) PROVE IInv'
<1>1. PICK at \in [Object -> Kinds] : Placed(at)
  BY DEF IInv
<1>. DEFINE to == [at EXCEPT ![o] = "cpu"]
<1>2. /\ to \in [Object -> Kinds] /\ to[o] = "cpu"
      /\ \A p \in Object \ {o} : to[p] = at[p]
  BY DEF Kinds
<1>3. at[o] = "expired" /\ o \in coSet /\ coSet \in SUBSET Object
  BY <1>1 DEF Placed, InSets, Resumable, ResumeExpired, IInv, TypeOK
<1>4. /\ cur' = o
      /\ status' = [status EXCEPT ![o] = "RUNNING"]
      /\ waitFd' = [waitFd EXCEPT ![o] = NoFd]
      /\ interest' \in [Fd -> Object \union {NoCo}]
  BY <1>1, <1>3, Resumed DEF ResumeExpired
<1>5. /\ \A f \in Fd : interest'[f] # NoCo => waitFd'[interest'[f]] = f
      /\ \A f \in Fd : interest[f] # o => interest'[f] = interest[f]
      /\ InCells(to)' /\ Resumable(to)' /\ Running(to)'
  BY <1>1, <1>2, <1>3, ResumeKeeps DEF ResumeExpired
<1>6. \A f \in Fd : interest[f] # o
  BY ProcessorAssumption, <1>1, <1>3 DEF IInv, Distinct, TypeOK, Placed, InCells
<1>. HIDE DEF to
<1>7. TypeOK'
  BY <1>4 DEF IInv, TypeOK, ResumeExpired, poolVars
<1>8. Distinct'
  BY <1>5 DEF IInv, Distinct, ResumeExpired
<1>9. InPass'
  BY <1>5, <1>6 DEF IInv, InPass, ResumeExpired
<1>10. InSets(to)'
  BY <1>1, <1>2, <1>3 DEF Placed, InSets, ResumeExpired, poolVars
<1>11. InSeqs(to)'
  BY <1>1, <1>2, <1>3 DEF Placed, InSeqs, ResumeExpired
<1>. QED  BY <1>2, <1>5, <1>7, <1>8, <1>9, <1>10, <1>11 DEF IInv, Placed

LEMMA ResumeActiveKeeps ==
    ASSUME IInv, NEW o \in Object, ResumeActive(o) PROVE IInv'
<1>1. PICK at \in [Object -> Kinds] : Placed(at)
  BY DEF IInv
<1>. DEFINE to == [at EXCEPT ![o] = "cpu"]
<1>2. /\ to \in [Object -> Kinds] /\ to[o] = "cpu"
      /\ \A p \in Object \ {o} : to[p] = at[p]
  BY DEF Kinds
<1>3. waitFd[o] \in Fd /\ interest[waitFd[o]] = o
  BY ProcessorAssumption DEF IInv, InPass, Distinct, ResumeActive
<1>4. at[o] = "event" /\ o \in coSet /\ coSet \in SUBSET Object
  BY ProcessorAssumption, <1>1, <1>3
     DEF Placed, InCells, Resumable, ResumeActive, IInv, TypeOK
<1>5. /\ cur' = o
      /\ status' = [status EXCEPT ![o] = "RUNNING"]
      /\ waitFd' = [waitFd EXCEPT ![o] = NoFd]
      /\ interest' \in [Fd -> Object \union {NoCo}]
  BY <1>1, <1>4, Resumed DEF ResumeActive
<1>6. /\ \A f \in Fd : interest'[f] # NoCo => waitFd'[interest'[f]] = f
      /\ \A f \in Fd : interest[f] # o => interest'[f] = interest[f]
      /\ InCells(to)' /\ Resumable(to)' /\ Running(to)'
  BY <1>1, <1>2, <1>3, <1>4, ResumeKeeps DEF ResumeActive
<1>. HIDE DEF to
<1>7. TypeOK'
  BY <1>5 DEF IInv, TypeOK, ResumeActive, poolVars
<1>8. Distinct'
  BY <1>6 DEF IInv, Distinct, ResumeActive
<1>9. InPass'
  BY <1>6 DEF IInv, InPass, ResumeActive
<1>10. InSets(to)'
  BY <1>1, <1>2, <1>4 DEF Placed, InSets, ResumeActive, poolVars
<1>11. InSeqs(to)'
  BY <1>1, <1>2, <1>4 DEF Placed, InSeqs, ResumeActive
<1>. QED  BY <1>2, <1>6, <1>7, <1>8, <1>9, <1>10, <1>11 DEF IInv, Placed

LEMMA RunNewCoKeeps == ASSUME IInv, RunNewCo PROVE IInv'
<1>1. PICK at \in [Object -> Kinds] : Placed(at)
  BY DEF IInv
<1>2. runq \in Seq(Object) /\ runq # <<>> /\ Once(runq)
  BY DEF IInv, TypeOK, Distinct, RunNewCo
<1>3. PICK o \in Object : o = Head(runq)
  BY <1>2, InTail
<1>4. /\ In(o, runq) /\ Once(runq') /\ runq' \in Seq(Object)
      /\ \A p : In(p, runq') <=> In(p, runq) /\ p # o
  <2>1. runq' = Tail(runq)
    BY DEF RunNewCo
  <2>. QED  BY <1>2, <1>3, <2>1, InTail
<1>. DEFINE to == [at EXCEPT ![o] = "cpu"]
<1>5. /\ to \in [Object -> Kinds] /\ to[o] = "cpu"
      /\ \A p \in Object \ {o} : to[p] = at[p]
  BY DEF Kinds
<1>6. /\ at[o] = "run" /\ coSet' = coSet \union {o} /\ coSet' \in SUBSET Object
      /\ Resume(o, coSet')
  BY <1>1, <1>3, <1>4 DEF Placed, InSeqs, RunNewCo, IInv, TypeOK
<1>7. /\ cur' = o
      /\ status' = [status EXCEPT ![o] = "RUNNING"]
      /\ waitFd' = [waitFd EXCEPT ![o] = NoFd]
      /\ interest' \in [Fd -> Object \union {NoCo}]
  BY <1>1, <1>6, Resumed DEF RunNewCo
<1>8. /\ \A f \in Fd : interest'[f] # NoCo => waitFd'[interest'[f]] = f
      /\ \A f \in Fd : interest[f] # o => interest'[f] = interest[f]
      /\ InCells(to)' /\ Resumable(to)' /\ Running(to)'
  BY <1>1, <1>5, <1>6, ResumeKeeps DEF RunNewCo
<1>9. \A f \in Fd : interest[f] # o
  BY ProcessorAssumption, <1>1, <1>6 DEF IInv, Distinct, TypeOK, Placed, InCells
<1>. HIDE DEF to
<1>10. TypeOK'
  BY <1>4, <1>6, <1>7 DEF IInv, TypeOK, RunNewCo, poolVars
<1>11. Distinct'
  BY <1>4, <1>8 DEF IInv, Distinct, RunNewCo
<1>12. InPass'
  BY <1>8, <1>9 DEF IInv, InPass, RunNewCo
<1>13. InSets(to)'
  BY <1>1, <1>5, <1>6 DEF Placed, InSets, RunNewCo, poolVars
<1>14. InSeqs(to)'
  BY <1>1, <1>4, <1>5, <1>6 DEF Placed, InSeqs, RunNewCo
<1>. QED  BY <1>5, <1>8, <1>10, <1>11, <1>12, <1>13, <1>14 DEF IInv, Placed

\* The two queues change places, and with them everybody in newq.
LEMMA FlipKeeps == ASSUME IInv, Flip PROVE IInv'
<1>1. PICK at \in [Object -> Kinds] : Placed(at)
  BY DEF IInv
<1>. DEFINE to == [o \in Object |-> IF at[o] = "new" THEN "run" ELSE at[o]]
<1>2. \A o : ~In(o, runq)
  BY EmptyQueue DEF IInv, InPass, Flip
<1>3. /\ to \in [Object -> Kinds]
      /\ \A o \in Object : IF at[o] = "new" THEN to[o] = "run" ELSE to[o] = at[o]
      /\ \A o \in Object : at[o] # "run"
  BY <1>1, <1>2 DEF Kinds, Placed, InSeqs
<1>. HIDE DEF to
<1>4. cur = NoCo /\ giveUp = FALSE
  BY <1>1 DEF Placed, Running, Flip, IInv, TypeOK
<1>5. TypeOK'
  BY DEF IInv, TypeOK, Flip, poolVars, wakeVars
<1>6. Distinct' /\ InPass'
  BY DEF IInv, Distinct, InPass, Flip, wakeVars
<1>7. InSets(to)'
  BY <1>1, <1>3 DEF Placed, InSets, Flip, poolVars, wakeVars
<1>8. InCells(to)'
  BY <1>1, <1>3 DEF Placed, InCells, Flip, wakeVars
<1>9. InSeqs(to)'
  BY <1>1, <1>2, <1>3 DEF Placed, InSeqs, Flip, wakeVars
<1>10. Resumable(to)' /\ Running(to)'
  BY <1>1, <1>3, <1>4 DEF Placed, Resumable, Running, Flip
<1>. QED  BY <1>3, <1>5, <1>6, <1>7, <1>8, <1>9, <1>10 DEF IInv, Placed

LEMMA DeleteDeadKeeps == ASSUME IInv, NEW o \in Object, DeleteDead(o) PROVE IInv'
<1>1. PICK at \in [Object -> Kinds] : Placed(at)
  BY DEF IInv
<1>. DEFINE to == [at EXCEPT ![o] = "free"]
<1>2. /\ to \in [Object -> Kinds] /\ to[o] = "free" /\ at[o] = "removed"
      /\ \A p \in Object \ {o} : to[p] = at[p]
  BY <1>1 DEF Kinds, Placed, InSets, DeleteDead
<1>. HIDE DEF to
<1>3. cur = NoCo
  BY <1>1 DEF Placed, Running, DeleteDead
<1>4. TypeOK'
  BY DEF IInv, TypeOK, DeleteDead, wakeVars
<1>5. Distinct' /\ InPass'
  BY DEF IInv, Distinct, InPass, DeleteDead, wakeVars
<1>6. InSets(to)'
  BY <1>1, <1>2 DEF Placed, InSets, DeleteDead, wakeVars
<1>7. InCells(to)'
  BY <1>1, <1>2 DEF Placed, InCells, DeleteDead, wakeVars
<1>8. InSeqs(to)'
  BY <1>1, <1>2 DEF Placed, InSeqs, DeleteDead, wakeVars
<1>9. Resumable(to)' /\ Running(to)'
  BY <1>1, <1>2, <1>3 DEF Placed, Resumable, Running, DeleteDead
<1>. QED  BY <1>2, <1>4, <1>5, <1>6, <1>7, <1>8, <1>9 DEF IInv, Placed

LEMMA StandingKeeps == IInv /\ UNCHANGED vars => IInv'
<1> SUFFICES ASSUME IInv, UNCHANGED vars PROVE IInv'
  OBVIOUS
<1>1. PICK at \in [Object -> Kinds] : Placed(at)
  BY DEF IInv
<1>2. TypeOK'
  BY DEF IInv, TypeOK, vars
<1>3. Distinct'
  BY DEF IInv, Distinct, vars
<1>4. InPass'
  BY DEF IInv, InPass, vars
<1>5. InSets(at)'
  BY <1>1 DEF Placed, InSets, vars
<1>6. InCells(at)'
  BY <1>1 DEF Placed, InCells, vars
<1>7. InSeqs(at)'
  BY <1>1 DEF Placed, InSeqs, vars
<1>8. Resumable(at)' /\ Running(at)'
  BY <1>1 DEF Placed, Resumable, Running, vars
<1>. QED  BY <1>1, <1>2, <1>3, <1>4, <1>5, <1>6, <1>7, <1>8 DEF IInv, Placed

-----------------------------------------------------------------------------
\* The inductive invariant holds in every reachable state.
THEOREM Invariance == Spec => []IInv
<1>1. ASSUME IInv, [Next]_vars PROVE IInv'
  <2>1. ASSUME NEW t \in Threads, CallStep(t) PROVE IInv'
    BY <1>1, <2>1, NewObjKeeps, TakeWaiterKeeps, GoCoKeeps DEF CallStep
  <2>2. CASE YieldStep
    BY <1>1, <2>2, WaitKeeps, WaitEventKeeps, WaitForLockKeeps, YieldKeeps,
       KillCurCoKeeps DEF YieldStep
  <2>3. CASE LoopStep
    BY <1>1, <2>3, QuietLoopKeeps, GetExpiredKeeps, ResumeExpiredKeeps,
       ResumeActiveKeeps, RunNewCoKeeps, FlipKeeps, DeleteDeadKeeps DEF LoopStep
  <2>4. CASE UNCHANGED vars
    BY <1>1, <2>4, StandingKeeps
  <2>. QED  BY <1>1, <2>1, <2>2, <2>3, <2>4 DEF Next
<1>. QED  BY InitIInv, <1>1, PTL DEF Spec

\* TypeOK for every instance.
THEOREM TypeCorrect == Spec => []TypeOK
<1>1. IInv => TypeOK
  BY DEF IInv
<1>. QED  BY Invariance, <1>1, PTL

-----------------------------------------------------------------------------
(* Counting the pointers.                                                  *)

\* A coroutine has one position in a queue that holds it once, and none in one
\* that does not hold it.
LEMMA OnePosition ==
    ASSUME NEW s \in Seq(Object), Once(s), NEW o
    PROVE  /\ ~In(o, s) => {i \in DOMAIN s : s[i] = o} = {}
           /\ In(o, s) => \E i : {j \in DOMAIN s : s[j] = o} = {i}
<1>1. DOMAIN s = 1..Len(s)
  BY LenProperties
<1>2. ASSUME NEW i \in 1..Len(s), s[i] = o PROVE {j \in DOMAIN s : s[j] = o} = {i}
  BY <1>1, <1>2 DEF Once
<1>. QED  BY <1>1, <1>2 DEF In

\* Each of the pieces of Places(o) is empty, but for that of o's place.
LEMMA Pieces ==
    ASSUME IInv, NEW at \in [Object -> Kinds], Placed(at), NEW o \in Object
    PROVE  /\ {o} \cap timers = IF at[o] = "timer" THEN {o} ELSE {}
           /\ {o} \cap expired = IF at[o] = "expired" THEN {o} ELSE {}
           /\ {o} \cap removed = IF at[o] = "removed" THEN {o} ELSE {}
           /\ {f \in Fd : interest[f] = o}
                = IF at[o] = "event" /\ ~Deaf(o) THEN {waitFd[o]} ELSE {}
           /\ at[o] # "hand" => {t \in Threads : hand[t] = o} = {}
           /\ at[o] = "hand" => \E t : {u \in Threads : hand[u] = o} = {t}
           /\ at[o] # "lock" => {i \in DOMAIN waiters : waiters[i] = o} = {}
           /\ at[o] = "lock" => \E i : {j \in DOMAIN waiters : waiters[j] = o} = {i}
           /\ at[o] # "new" => {i \in DOMAIN newq : newq[i] = o} = {}
           /\ at[o] = "new" => \E i : {j \in DOMAIN newq : newq[j] = o} = {i}
           /\ at[o] # "run" => {i \in DOMAIN runq : runq[i] = o} = {}
           /\ at[o] = "run" => \E i : {j \in DOMAIN runq : runq[j] = o} = {i}
<1>1. /\ {o} \cap timers = IF at[o] = "timer" THEN {o} ELSE {}
      /\ {o} \cap expired = IF at[o] = "expired" THEN {o} ELSE {}
      /\ {o} \cap removed = IF at[o] = "removed" THEN {o} ELSE {}
  BY DEF Placed, InSets
<1>2. {f \in Fd : interest[f] = o}
        = IF at[o] = "event" /\ ~Deaf(o) THEN {waitFd[o]} ELSE {}
  <2>1. /\ waitFd[o] \in Fd \union {NoFd} /\ NoFd \notin Fd /\ o # NoCo
        /\ \A f \in Fd : interest[f] = o => waitFd[o] = f
        /\ at[o] = "event" <=> waitFd[o] # NoFd
    BY ProcessorAssumption DEF IInv, TypeOK, Distinct, Placed, InCells
  <2>. QED  BY <2>1 DEF Deaf
<1>3. at[o] # "hand" => {t \in Threads : hand[t] = o} = {}
  BY DEF Placed, InCells
<1>4. at[o] = "hand" => \E t : {u \in Threads : hand[u] = o} = {t}
  <2>. SUFFICES ASSUME at[o] = "hand" PROVE \E t : {u \in Threads : hand[u] = o} = {t}
    OBVIOUS
  <2>1. PICK t \in Threads : hand[t] = o
    BY DEF Placed, InCells
  <2>2. {u \in Threads : hand[u] = o} = {t}
    BY ProcessorAssumption, <2>1 DEF IInv, Distinct
  <2>. QED  BY <2>2
<1>5. /\ waiters \in Seq(Object) /\ Once(waiters) /\ (In(o, waiters) <=> at[o] = "lock")
      /\ newq \in Seq(Object) /\ Once(newq) /\ (In(o, newq) <=> at[o] = "new")
      /\ runq \in Seq(Object) /\ Once(runq) /\ (In(o, runq) <=> at[o] = "run")
  BY DEF IInv, TypeOK, Distinct, Placed, InSeqs
<1>6. /\ at[o] # "lock" => {i \in DOMAIN waiters : waiters[i] = o} = {}
      /\ at[o] = "lock" => \E i : {j \in DOMAIN waiters : waiters[j] = o} = {i}
  BY <1>5, OnePosition
<1>7. /\ at[o] # "new" => {i \in DOMAIN newq : newq[i] = o} = {}
      /\ at[o] = "new" => \E i : {j \in DOMAIN newq : newq[j] = o} = {i}
  BY <1>5, OnePosition
<1>8. /\ at[o] # "run" => {i \in DOMAIN runq : runq[i] = o} = {}
      /\ at[o] = "run" => \E i : {j \in DOMAIN runq : runq[j] = o} = {i}
  BY <1>5, OnePosition
<1>. QED  BY <1>1, <1>2, <1>3, <1>4, <1>6, <1>7, <1>8

LEMMA OnePlaceHolds == IInv => OnePlace
<1>. SUFFICES ASSUME IInv PROVE OnePlace
  OBVIOUS
<1>1. PICK at \in [Object -> Kinds] : Placed(at)
  BY DEF IInv
<1>2. ASSUME NEW o \in Object
      PROVE  Cardinality(Places(o)) =
               IF o \in free \/ (o = cur /\ ~giveUp) \/ Deaf(o) THEN 0 ELSE 1
  <2>. DEFINE T == {<<"timer", 0>>   : x \in {o} \cap timers}
              E == {<<"expired", 0>> : x \in {o} \cap expired}
              R == {<<"removed", 0>> : x \in {o} \cap removed}
              V == {<<"event", f>> : f \in {f \in Fd : interest[f] = o}}
              H == {<<"hand", t>>  : t \in {t \in Threads : hand[t] = o}}
              L == {<<"lock", i>>  : i \in {i \in DOMAIN waiters : waiters[i] = o}}
              N == {<<"new", i>>   : i \in {i \in DOMAIN newq : newq[i] = o}}
              Q == {<<"run", i>>   : i \in {i \in DOMAIN runq : runq[i] = o}}
  <2>1. Places(o) = T \union E \union R \union V \union H \union L \union N \union Q
    BY DEF Places
  <2>2. /\ at[o] # "timer" => T = {}
        /\ at[o] # "expired" => E = {}
        /\ at[o] # "removed" => R = {}
        /\ ~(at[o] = "event" /\ ~Deaf(o)) => V = {}
        /\ at[o] # "hand" => H = {}
        /\ at[o] # "lock" => L = {}
        /\ at[o] # "new" => N = {}
        /\ at[o] # "run" => Q = {}
    BY <1>1, Pieces
  <2>3. /\ at[o] = "timer" => \E x : T = {x}
        /\ at[o] = "expired" => \E x : E = {x}
        /\ at[o] = "removed" => \E x : R = {x}
        /\ (at[o] = "event" /\ ~Deaf(o)) => \E x : V = {x}
        /\ at[o] = "hand" => \E x : H = {x}
        /\ at[o] = "lock" => \E x : L = {x}
        /\ at[o] = "new" => \E x : N = {x}
        /\ at[o] = "run" => \E x : Q = {x}
    <3>1. at[o] = "timer" => T = {<<"timer", 0>>}
      BY <1>1, Pieces
    <3>2. at[o] = "expired" => E = {<<"expired", 0>>}
      BY <1>1, Pieces
    <3>3. at[o] = "removed" => R = {<<"removed", 0>>}
      BY <1>1, Pieces
    <3>4. (at[o] = "event" /\ ~Deaf(o)) => V = {<<"event", waitFd[o]>>}
      BY <1>1, Pieces
    <3>5. at[o] = "hand" => \E x : H = {x}
      <4>. SUFFICES ASSUME at[o] = "hand" PROVE \E x : H = {x}
        OBVIOUS
      <4>1. PICK i : {u \in Threads : hand[u] = o} = {i}
        BY <1>1, Pieces
      <4>2. H = {<<"hand", i>>}
        BY <4>1
      <4>. QED  BY <4>2
    <3>6. at[o] = "lock" => \E x : L = {x}
      <4>. SUFFICES ASSUME at[o] = "lock" PROVE \E x : L = {x}
        OBVIOUS
      <4>1. PICK i : {j \in DOMAIN waiters : waiters[j] = o} = {i}
        BY <1>1, Pieces
      <4>2. L = {<<"lock", i>>}
        BY <4>1
      <4>. QED  BY <4>2
    <3>7. at[o] = "new" => \E x : N = {x}
      <4>. SUFFICES ASSUME at[o] = "new" PROVE \E x : N = {x}
        OBVIOUS
      <4>1. PICK i : {j \in DOMAIN newq : newq[j] = o} = {i}
        BY <1>1, Pieces
      <4>2. N = {<<"new", i>>}
        BY <4>1
      <4>. QED  BY <4>2
    <3>8. at[o] = "run" => \E x : Q = {x}
      <4>. SUFFICES ASSUME at[o] = "run" PROVE \E x : Q = {x}
        OBVIOUS
      <4>1. PICK i : {j \in DOMAIN runq : runq[j] = o} = {i}
        BY <1>1, Pieces
      <4>2. Q = {<<"run", i>>}
        BY <4>1
      <4>. QED  BY <4>2
    <3>. HIDE DEF T, E, R, V, H, L, N, Q
    <3>. QED  BY <3>1, <3>2, <3>3, <3>4, <3>5, <3>6, <3>7, <3>8
  <2>4. /\ o \in free <=> at[o] = "free"
        /\ (o = cur /\ ~giveUp) <=> at[o] = "cpu"
        /\ Deaf(o) => at[o] = "event"
        /\ at[o] \in Kinds
    BY <1>1 DEF Placed, InSets, InCells, Deaf
  <2>. HIDE DEF T, E, R, V, H, L, N, Q
  <2>5. CASE o \in free \/ (o = cur /\ ~giveUp) \/ Deaf(o)
    <3>1. Places(o) = {}
      BY <2>1, <2>2, <2>4, <2>5
    <3>. QED  BY <2>5, <3>1, FS_EmptySet
  <2>6. CASE ~(o \in free \/ (o = cur /\ ~giveUp) \/ Deaf(o))
    <3>1. at[o] \in Kinds \ {"free", "cpu"} /\ ~Deaf(o)
      BY <2>4, <2>6
    <3>2. \E x : Places(o) = {x}
      BY <2>1, <2>2, <2>3, <3>1 DEF Kinds
    <3>. QED  BY <2>6, <3>2, FS_Singleton
  <2>. QED  BY <2>5, <2>6
<1>3. ASSUME NEW o \in act PROVE \E f \in Fd : interest[f] = o /\ waitFd[o] = f
  BY ProcessorAssumption DEF IInv, InPass, Distinct, TypeOK
<1>. QED  BY <1>2, <1>3 DEF OnePlace

\* For any number of threads, coroutines and files: whoever is suspended, new
\* or dead is in exactly one list, queue, set or local variable, and no pointer
\* outlives its coroutine (processor.cc:57-71, 152-197).
THEOREM EveryPointerIsTheOnlyOne == Spec => []OnePlace
BY Invariance, OnePlaceHolds, PTL

-----------------------------------------------------------------------------
(* What a step may do.                                                     *)

\* Whom the loop takes up runs, and was new or suspended.
LEMMA TakenUpRuns ==
    ASSUME IInv, NEW o \in Object,
           ResumeExpired(o) \/ ResumeActive(o) \/ (RunNewCo /\ o = Head(runq))
    PROVE  /\ cur = NoCo /\ cur' = o
           /\ status' = [status EXCEPT ![o] = "RUNNING"]
           /\ o \notin free /\ o \notin removed /\ UNCHANGED poolVars
<1>1. PICK at \in [Object -> Kinds] : Placed(at)
  BY DEF IInv
<1>2. CASE ResumeExpired(o)
  <2>1. at[o] = "expired" /\ o \in coSet /\ coSet \in SUBSET Object
    BY <1>1, <1>2 DEF Placed, InSets, Resumable, ResumeExpired, IInv, TypeOK
  <2>2. cur' = o /\ status' = [status EXCEPT ![o] = "RUNNING"]
    BY <1>1, <1>2, <2>1, Resumed DEF ResumeExpired
  <2>. QED  BY <1>1, <1>2, <2>1, <2>2 DEF Placed, InSets, ResumeExpired
<1>3. CASE ResumeActive(o)
  <2>1. waitFd[o] # NoFd
    BY ProcessorAssumption, <1>3 DEF IInv, InPass, Distinct, ResumeActive
  <2>2. at[o] = "event" /\ o \in coSet /\ coSet \in SUBSET Object
    BY <1>1, <1>3, <2>1 DEF Placed, InCells, Resumable, IInv, TypeOK
  <2>3. cur' = o /\ status' = [status EXCEPT ![o] = "RUNNING"]
    BY <1>1, <1>3, <2>2, Resumed DEF ResumeActive
  <2>. QED  BY <1>1, <1>3, <2>2, <2>3 DEF Placed, InSets, ResumeActive
<1>4. CASE RunNewCo /\ o = Head(runq)
  <2>1. runq \in Seq(Object) /\ runq # <<>> /\ Once(runq)
    BY <1>4 DEF IInv, TypeOK, Distinct, RunNewCo
  <2>2. In(o, runq)
    BY <1>4, <2>1, InTail
  <2>3. /\ at[o] = "run" /\ o \in coSet' /\ coSet' \in SUBSET Object
        /\ Resume(o, coSet')
    BY <1>1, <1>4, <2>2 DEF Placed, InSeqs, RunNewCo, IInv, TypeOK
  <2>4. cur' = o /\ status' = [status EXCEPT ![o] = "RUNNING"]
    BY <1>1, <1>4, <2>3, Resumed DEF RunNewCo
  <2>. QED  BY <1>1, <1>4, <2>3, <2>4 DEF Placed, InSets, RunNewCo
<1>. QED  BY <1>2, <1>3, <1>4

\* Whatever the loop takes out of a list or of the queue runs: the tests of
\* coSet_ and of status_ never pass over a wake-up (processor.cc:64-67,
\* coroutine.cc:47-63).
THEOREM NoWakeUpIsPassedOver == Spec => WakesRun
<1>. DEFINE A == /\ \A o \in (expired \ expired') \union (act \ act') : cur' = o
                 /\ loopPc = "drain" /\ runq' # runq => cur' = Head(runq)
<1>1. ASSUME IInv, [Next]_vars PROVE [A]_vars
  <2>1. ASSUME NEW t \in Threads, CallStep(t) PROVE A
    BY <2>1 DEF CallStep, GoCo, TakeWaiter, NewObj, wakeVars
  <2>2. ASSUME YieldStep PROVE A
    BY <2>2 DEF YieldStep, Wait, WaitForLock, Yield, KillCurCo, WaitEvent, wakeVars
  <2>3. ASSUME Poll PROVE A
    BY <1>1, <2>3 DEF Poll, IInv, InPass
  <2>4. ASSUME GetExpired PROVE A
    BY <1>1, <2>4 DEF GetExpired, IInv, InPass
  <2>5. ASSUME EndTimers \/ EndDrain \/ Flip \/ EndEvents \/ EndPass PROVE A
    BY <2>5 DEF EndTimers, EndDrain, Flip, EndEvents, EndPass, wakeVars
  <2>6. ASSUME NEW o \in Object, ResumeExpired(o) PROVE A
    BY <1>1, <2>6, TakenUpRuns DEF ResumeExpired
  <2>7. ASSUME NEW o \in Object, ResumeActive(o) PROVE A
    BY <1>1, <2>7, TakenUpRuns DEF ResumeActive
  <2>8. ASSUME RunNewCo PROVE A
    <3>1. Head(runq) \in Object
      BY <1>1, <2>8, InTail DEF IInv, TypeOK, Distinct, RunNewCo
    <3>. QED  BY <1>1, <2>8, <3>1, TakenUpRuns DEF RunNewCo
  <2>9. ASSUME NEW o \in Object, DeleteDead(o) PROVE A
    BY <2>9 DEF DeleteDead, wakeVars
  <2>. QED  BY <1>1, <2>1, <2>2, <2>3, <2>4, <2>5, <2>6, <2>7, <2>8, <2>9
            DEF Next, LoopStep
<1>. QED  BY Invariance, <1>1, PTL DEF Spec, WakesRun

-----------------------------------------------------------------------------
(* Processor implements CoroutineLife.                                     *)

lifeBar == [o \in Object |->
              CASE o \in free         -> "free"
                [] o \in removed      -> "dead"
                [] o = cur            -> "running"
                [] status[o] = "READY" -> "ready"
                [] OTHER              -> "waiting"]

LifeAt(o) == IF o \in free THEN "free"
             ELSE IF o \in removed THEN "dead"
             ELSE IF o = cur THEN "running"
             ELSE IF status[o] = "READY" THEN "ready"
             ELSE "waiting"

\* The cases of the mapping exclude each other.
LEMMA LifeIs == IInv => lifeBar = [o \in Object |-> LifeAt(o)]
<1>. SUFFICES ASSUME IInv PROVE lifeBar = [o \in Object |-> LifeAt(o)]
  OBVIOUS
<1>1. PICK at \in [Object -> Kinds] : Placed(at)
  BY DEF IInv
<1>2. ASSUME NEW o \in Object
      PROVE  /\ o \in free => o \notin removed /\ o # cur /\ status[o] # "READY"
             /\ o \in removed => o # cur /\ status[o] # "READY"
             /\ o = cur => status[o] # "READY"
  BY ProcessorAssumption, <1>1 DEF Placed, InSets, InCells, Resumable, Running
<1>3. ASSUME NEW o \in Object
      PROVE  (CASE o \in free         -> "free"
                [] o \in removed      -> "dead"
                [] o = cur            -> "running"
                [] status[o] = "READY" -> "ready"
                [] OTHER              -> "waiting") = LifeAt(o)
  BY <1>2 DEF LifeAt
<1>. QED  BY <1>3 DEF lifeBar

LEMMA LifeIsNext == IInv' => (lifeBar = [o \in Object |-> LifeAt(o)])'
BY LifeIs, PTL

\* One object begins another part of its life, the others go on with theirs.
LEMMA Becomes ==
    ASSUME IInv, IInv', NEW o \in Object, NEW from, NEW l,
           LifeAt(o) \in from, LifeAt(o)' = l,
           \A p \in Object \ {o} : LifeAt(p)' = LifeAt(p)
    PROVE  Life!Become(o, from, l)
<1>1. /\ lifeBar = [p \in Object |-> LifeAt(p)]
      /\ lifeBar' = [p \in Object |-> LifeAt(p)']
  BY LifeIs, LifeIsNext
<1>2. lifeBar[o] \in from
  BY <1>1
<1>3. lifeBar' = [lifeBar EXCEPT ![o] = l]
  BY <1>1
<1>. QED  BY <1>2, <1>3 DEF Life!Become, lifeBar

LEMMA LifeStays ==
    ASSUME IInv, IInv', \A o \in Object : LifeAt(o)' = LifeAt(o)
    PROVE  lifeBar' = lifeBar
<1>1. /\ lifeBar = [p \in Object |-> LifeAt(p)]
      /\ lifeBar' = [p \in Object |-> LifeAt(p)']
  BY LifeIs, LifeIsNext
<1>. QED  BY <1>1

\* An object of the pool holds no coroutine, and one that runs is alive.
LEMMA Apart ==
    ASSUME IInv
    PROVE  /\ \A o \in free : o \notin removed /\ o # cur
           /\ \A o \in removed : o \notin free /\ o # cur
           /\ cur # NoCo => /\ cur \in Object \ (free \union removed)
                            /\ status[cur] = "RUNNING"
           /\ giveUp => cur # NoCo
           /\ loopPc \in {"poll", "expire", "flip", "clean"} => cur = NoCo
<1>1. PICK at \in [Object -> Kinds] : Placed(at)
  BY DEF IInv
<1>. QED  BY ProcessorAssumption, <1>1
          DEF Placed, InSets, InCells, Running, IInv, TypeOK

LEMMA StepImplements == ASSUME IInv, IInv', [Next]_vars PROVE [Life!LifeNext]_lifeBar
<1>1. ASSUME NEW o \in Object, NEW t \in Threads, NewObj(t, o) PROVE Life!Create(o)
  <2>1. /\ LifeAt(o) = "free" /\ LifeAt(o)' = "ready"
        /\ \A p \in Object \ {o} : LifeAt(p)' = LifeAt(p)
    BY <1>1, Apart DEF NewObj, LifeAt, IInv, TypeOK
  <2>. QED  BY <2>1, Becomes DEF Life!Create
<1>2. ASSUME Wait \/ (\E f \in Fd : WaitEvent(f)) \/ Yield
      PROVE  \E o \in Object : Life!Suspend(o)
  <2>1. cur # NoCo
    BY <1>2, Apart DEF Wait, WaitEvent, Yield, MayYield, InUserCode
  <2>2. PICK o \in Object : o = cur
    BY <2>1, Apart
  <2>3. /\ status' = [status EXCEPT ![o] = "WAITING"] /\ cur' = NoCo
        /\ UNCHANGED poolVars
    BY <1>2, <2>2 DEF Wait, WaitEvent, Yield, SwapToMain
  <2>4. /\ LifeAt(o) = "running" /\ LifeAt(o)' = "waiting"
        /\ \A p \in Object \ {o} : LifeAt(p)' = LifeAt(p)
    BY ProcessorAssumption, <2>1, <2>2, <2>3, Apart DEF LifeAt, poolVars, IInv, TypeOK
  <2>5. Life!Suspend(o)
    BY <2>4, Becomes DEF Life!Suspend
  <2>. QED  BY <2>5
<1>3. ASSUME KillCurCo PROVE \E o \in Object : Life!End(o)
  <2>1. cur # NoCo
    BY <1>3 DEF KillCurCo, MayYield, InUserCode
  <2>2. PICK o \in Object : o = cur
    BY <2>1, Apart
  <2>3. /\ removed' = removed \union {o} /\ cur' = NoCo /\ free' = free
        /\ status' = status
    BY <1>3, <2>2 DEF KillCurCo
  <2>4. /\ LifeAt(o) = "running" /\ LifeAt(o)' = "dead"
        /\ \A p \in Object \ {o} : LifeAt(p)' = LifeAt(p)
    BY ProcessorAssumption, <2>1, <2>2, <2>3, Apart DEF LifeAt
  <2>5. Life!End(o)
    BY <2>4, Becomes DEF Life!End
  <2>. QED  BY <2>5
<1>4. ASSUME NEW o \in Object,
             ResumeExpired(o) \/ ResumeActive(o) \/ (RunNewCo /\ o = Head(runq))
      PROVE  Life!Run(o)
  <2>1. /\ cur = NoCo /\ cur' = o
        /\ status' = [status EXCEPT ![o] = "RUNNING"]
        /\ o \notin free /\ o \notin removed /\ UNCHANGED poolVars
    BY <1>4, TakenUpRuns
  <2>2. /\ LifeAt(o) \in {"ready", "waiting"} /\ LifeAt(o)' = "running"
        /\ \A p \in Object \ {o} : LifeAt(p)' = LifeAt(p)
    BY ProcessorAssumption, <2>1 DEF LifeAt, poolVars, IInv, TypeOK
  <2>3. \A p \in Object : lifeBar[p] # "running"
    <3>1. \A p \in Object : LifeAt(p) # "running"
      BY ProcessorAssumption, <2>1 DEF LifeAt
    <3>. QED  BY <3>1, LifeIs
  <2>4. Life!Become(o, {"ready", "waiting"}, "running")
    BY <2>2, Becomes
  <2>. QED  BY <2>3, <2>4 DEF Life!Run, lifeBar
<1>5. ASSUME NEW o \in Object, DeleteDead(o) PROVE Life!Reclaim(o)
  <2>1. /\ LifeAt(o) = "dead" /\ LifeAt(o)' = "free"
        /\ \A p \in Object \ {o} : LifeAt(p)' = LifeAt(p)
    BY <1>5, Apart DEF DeleteDead, LifeAt
  <2>. QED  BY <2>1, Becomes DEF Life!Reclaim
<1>6. ASSUME \/ \E t \in Threads : GoCo(t) \/ TakeWaiter(t)
             \/ WaitForLock \/ Poll \/ GetExpired \/ EndTimers \/ EndDrain \/ Flip
             \/ EndEvents \/ EndPass
             \/ UNCHANGED vars
      PROVE  lifeBar' = lifeBar
  <2>1. UNCHANGED <<free, removed, status, cur>>
    BY <1>6 DEF GoCo, TakeWaiter, WaitForLock, Poll, GetExpired, EndTimers, EndDrain,
       Flip, EndEvents, EndPass, vars, poolVars
  <2>2. \A o \in Object : LifeAt(o)' = LifeAt(o)
    BY <2>1 DEF LifeAt
  <2>. QED  BY <2>2, LifeStays
<1>7. RunNewCo => Head(runq) \in Object
  BY InTail DEF IInv, TypeOK, Distinct, RunNewCo
<1>. QED  BY <1>1, <1>2, <1>3, <1>4, <1>5, <1>6, <1>7
          DEF Next, CallStep, YieldStep, LoopStep, Life!LifeNext

\* For any number of threads, objects and files the coroutine in an object is
\* run alone, goes on only where it was suspended, and its object is free again
\* only after its end, off the thread (processor.cc:57-71, 152-197).
THEOREM ProcessorImplementsLife == Spec => ImplementsLife
<1>1. Init => lifeBar = [o \in Object |-> "free"]
  <2>. SUFFICES ASSUME Init PROVE lifeBar = [o \in Object |-> "free"]
    OBVIOUS
  <2>1. lifeBar = [o \in Object |-> LifeAt(o)]
    BY InitIInv, LifeIs
  <2>2. \A o \in Object : LifeAt(o) = "free"
    BY DEF Init, LifeAt
  <2>. QED  BY <2>1, <2>2
<1>2. Init => Life!LifeInit
  BY <1>1 DEF Life!LifeInit, lifeBar
<1>3. IInv /\ IInv' /\ [Next]_vars => [Life!LifeNext]_lifeBar
  BY StepImplements
<1>. QED  BY <1>2, <1>3, Invariance, PTL DEF Spec, ImplementsLife, Life!LifeSpec, lifeBar
=============================================================================
