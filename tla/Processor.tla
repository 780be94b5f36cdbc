------------------------------- MODULE Processor -------------------------------
(***************************************************************************)
(* A processor (processor.cc) and the life of the coroutines it runs: an   *)
(* object from the pool is a new coroutine, is handed to the loop, runs,   *)
(* yields until a timer, an fd or another thread wakes it, ends, and is    *)
(* put back into the pool at the end of the pass, for the next coroutine.  *)
(*                                                                         *)
(* goCo is one step: NewCoQueue shows that its two queues and their lock   *)
(* are one queue in which nothing is lost.  coPool_ is guarded by a        *)
(* spinlock of the same kind, and which free object it gives is left open. *)
(* Nothing in the loop or the coroutine keeps count of who refers to a     *)
(* coroutine: raw pointers are in the queues, the timer heap, the kernel's *)
(* epoll set, the lists of lock waiters and the local variables of wakers. *)
(***************************************************************************)
EXTENDS Naturals, Sequences, FiniteSets

CONSTANTS Others, \* the threads that are not this processor's loop
          Loop,   \* the thread of this processor's loop
          Object, \* coPool_'s objects
          Fd,     \* the files whose events coroutines wait for
          NoCo,   \* no coroutine
          NoFd    \* no file

Threads == Others \union {Loop}

ASSUME ProcessorAssumption ==
    /\ Loop \notin Others
    /\ NoCo \notin Object
    /\ NoFd \notin Fd

VARIABLES
    free,     \* the objects in coPool_'s free list
    status,   \* status_ of each object
    coSet,    \* coSet_
    hand,     \* hand[t]: a coroutine that t is about to give to goCo
    newq,     \* newCoroutines_[!runningNewQue_]
    runq,     \* newCoroutines_[runningNewQue_]
    timers,   \* timerCoHeap_
    expired,  \* what is left of timerExpiredCo_ in this pass
    interest, \* interest[f]: whom epoll has registered for f
    waitFd,   \* waitFd[o]: the file o waits for in waitEvent
    act,      \* what is left of actCoroutines_ in this pass
    waiters,  \* the coroutines that wait for a lock, first come first
    giveUp,   \* the running coroutine is in waiters, and about to yield
    cur,      \* the coroutine on the loop's thread, or NoCo
    removed,  \* removedCo_
    loopPc    \* where the loop is in its pass

poolVars == <<free, removed>>
wakeVars == <<timers, expired, interest, waitFd, act, waiters>>
vars     == <<free, status, coSet, hand, newq, runq, timers, expired, interest,
              waitFd, act, waiters, giveUp, cur, removed, loopPc>>

TypeOK ==
    /\ free \subseteq Object
    /\ status \in [Object -> {"READY", "RUNNING", "WAITING", "DEAD"}]
    /\ coSet \subseteq Object
    /\ hand \in [Threads -> Object \union {NoCo}]
    /\ newq \in Seq(Object)
    /\ runq \in Seq(Object)
    /\ timers \subseteq Object
    /\ expired \subseteq Object
    /\ interest \in [Fd -> Object \union {NoCo}]
    /\ waitFd \in [Object -> Fd \union {NoFd}]
    /\ act \subseteq Object
    /\ waiters \in Seq(Object)
    /\ giveUp \in BOOLEAN
    /\ cur \in Object \union {NoCo}
    /\ removed \subseteq Object
    /\ loopPc \in {"poll", "expire", "timers", "drain", "flip", "events", "clean"}

Init ==
    /\ free = Object
    /\ status = [o \in Object |-> "DEAD"]
    /\ coSet = {}
    /\ hand = [t \in Threads |-> NoCo]
    /\ newq = <<>>
    /\ runq = <<>>
    /\ timers = {}
    /\ expired = {}
    /\ interest = [f \in Fd |-> NoCo]
    /\ waitFd = [o \in Object |-> NoFd]
    /\ act = {}
    /\ waiters = <<>>
    /\ giveUp = FALSE
    /\ cur = NoCo
    /\ removed = {}
    /\ loopPc = "poll"

-----------------------------------------------------------------------------
(* What any thread may do to a processor, and the loop's thread too when   *)
(* the coroutine it runs calls for it.                                     *)

InUserCode == cur # NoCo /\ ~giveUp

MayCall(t) == hand[t] = NoCo /\ (t = Loop => InUserCode)

\* goNewCo: a coroutine is made in a free object; goCo follows.
NewObj(t, o) ==
    /\ MayCall(t)
    /\ o \in free
    /\ free' = free \ {o}
    /\ status' = [status EXCEPT ![o] = "READY"]
    /\ hand' = [hand EXCEPT ![t] = o]
    /\ UNCHANGED <<coSet, newq, runq, wakeVars, giveUp, cur, removed, loopPc>>

\* Mutant: freeLock forgets to pop what it has taken.
TakeWaiterOnly(t) ==
    /\ MayCall(t)
    /\ waiters # <<>>
    /\ hand' = [hand EXCEPT ![t] = Head(waiters)]
    /\ UNCHANGED <<poolVars, status, coSet, newq, runq, wakeVars, giveUp, cur, loopPc>>

\* freeLock takes the first waiter; goCo follows.
TakeWaiter(t) ==
    /\ MayCall(t)
    /\ waiters # <<>>
    /\ hand' = [hand EXCEPT ![t] = Head(waiters)]
    /\ waiters' = Tail(waiters)
    /\ UNCHANGED <<poolVars, status, coSet, newq, runq, timers, expired, interest,
                   waitFd, act, giveUp, cur, loopPc>>

\* Mutant: goCo is called although there is no coroutine.
GoCoAnyway(t) ==
    /\ newq' = Append(newq, hand[t])
    /\ hand' = [hand EXCEPT ![t] = NoCo]
    /\ UNCHANGED <<poolVars, status, coSet, runq, wakeVars, giveUp, cur, loopPc>>

GoCo(t) ==
    /\ hand[t] # NoCo
    /\ newq' = Append(newq, hand[t])
    /\ hand' = [hand EXCEPT ![t] = NoCo]
    /\ UNCHANGED <<poolVars, status, coSet, runq, wakeVars, giveUp, cur, loopPc>>

-----------------------------------------------------------------------------
(* The running coroutine gives up the loop's thread.                       *)

MayYield == InUserCode /\ hand[Loop] = NoCo

\* What yield does: status_ = CO_WAITING, and the main context goes on.
SwapToMain ==
    /\ status' = [status EXCEPT ![cur] = "WAITING"]
    /\ cur' = NoCo

\* co_sleep.
Wait ==
    /\ MayYield
    /\ timers' = timers \union {cur}
    /\ SwapToMain
    /\ UNCHANGED <<poolVars, coSet, hand, newq, runq, expired, interest, waitFd,
                   act, waiters, giveUp, loopPc>>

\* EPOLL_CTL_ADD fails when the file is registered already.
AddEv(o, f) == [interest EXCEPT ![f] = IF @ = NoCo THEN o ELSE @]

\* waitEvent does not look at what addEv returns.
WaitEvent(f) ==
    /\ MayYield
    /\ waitFd' = [waitFd EXCEPT ![cur] = f]
    /\ interest' = AddEv(cur, f)
    /\ SwapToMain
    /\ UNCHANGED <<poolVars, coSet, hand, newq, runq, timers, expired, act,
                   waiters, giveUp, loopPc>>

\* rlock or wlock: from here on any thread may wake the coroutine.
WaitForLock ==
    /\ MayYield
    /\ waiters' = Append(waiters, cur)
    /\ giveUp' = TRUE
    /\ UNCHANGED <<poolVars, status, coSet, hand, newq, runq, timers, expired,
                   interest, waitFd, act, cur, loopPc>>

\* Processor::yield after that, whether it was woken already or not.
Yield ==
    /\ giveUp
    /\ giveUp' = FALSE
    /\ SwapToMain
    /\ UNCHANGED <<poolVars, coSet, hand, newq, runq, wakeVars, loopPc>>

\* Mutant: the object goes back to the pool while its stack is in use.
KillCurCoAtOnce ==
    /\ MayYield
    /\ free' = free \union {cur}
    /\ cur' = NoCo
    /\ UNCHANGED <<status, coSet, hand, newq, runq, wakeVars, giveUp, removed, loopPc>>

\* coWrapFunc's end, and uc_link back to the main context.  status_ stays.
KillCurCo ==
    /\ MayYield
    /\ removed' = removed \union {cur}
    /\ cur' = NoCo
    /\ UNCHANGED <<free, status, coSet, hand, newq, runq, wakeVars, giveUp, loopPc>>

-----------------------------------------------------------------------------
(* The loop.                                                               *)

\* EPOLL_CTL_DEL removes whoever is registered.
RemoveEv(f) == [g \in Fd |-> IF g = f THEN NoCo ELSE interest[g]]

\* Processor::resume and Coroutine::resume: a coroutine that is not in set,
\* or is neither new nor suspended, is passed over.  One that runs on in
\* waitEvent calls removeEv for its file.
Resume(o, set) ==
    IF o \in set /\ status[o] \in {"READY", "WAITING"}
    THEN /\ cur' = o
         /\ status' = [status EXCEPT ![o] = "RUNNING"]
         /\ waitFd' = [waitFd EXCEPT ![o] = NoFd]
         /\ interest' = RemoveEv(waitFd[o])
    ELSE UNCHANGED <<cur, status, waitFd, interest>>

\* epoll_wait: some of the files registered are ready.
Poll ==
    /\ loopPc = "poll"
    /\ \E ready \in SUBSET {f \in Fd : interest[f] # NoCo} :
         act' = {interest[f] : f \in ready}
    /\ loopPc' = "expire"
    /\ UNCHANGED <<poolVars, status, coSet, hand, newq, runq, timers, expired,
                   interest, waitFd, waiters, giveUp, cur>>

\* Time has passed: some of the timers are due.
GetExpired ==
    /\ loopPc = "expire"
    /\ expired' \in SUBSET timers
    /\ timers' = timers \ expired'
    /\ loopPc' = "timers"
    /\ UNCHANGED <<poolVars, status, coSet, hand, newq, runq, interest, waitFd,
                   act, waiters, giveUp, cur>>

ResumeExpired(o) ==
    /\ loopPc = "timers"
    /\ cur = NoCo
    /\ o \in expired
    /\ expired' = expired \ {o}
    /\ Resume(o, coSet)
    /\ UNCHANGED <<poolVars, coSet, hand, newq, runq, timers, act, waiters,
                   giveUp, loopPc>>

EndTimers ==
    /\ loopPc = "timers"
    /\ cur = NoCo
    /\ expired = {}
    /\ loopPc' = "drain"
    /\ UNCHANGED <<poolVars, status, coSet, hand, newq, runq, wakeVars, giveUp, cur>>

\* Mutant: the new coroutine is not entered in coSet_.
RunUnknownCo ==
    /\ loopPc = "drain"
    /\ cur = NoCo
    /\ runq # <<>>
    /\ runq' = Tail(runq)
    /\ Resume(Head(runq), coSet)
    /\ UNCHANGED <<poolVars, coSet, hand, newq, timers, expired, act, waiters,
                   giveUp, loopPc>>

RunNewCo ==
    /\ loopPc = "drain"
    /\ cur = NoCo
    /\ runq # <<>>
    /\ runq' = Tail(runq)
    /\ coSet' = coSet \union {Head(runq)}
    /\ Resume(Head(runq), coSet')
    /\ UNCHANGED <<poolVars, hand, newq, timers, expired, act, waiters, giveUp, loopPc>>

EndDrain ==
    /\ loopPc = "drain"
    /\ cur = NoCo
    /\ runq = <<>>
    /\ loopPc' = "flip"
    /\ UNCHANGED <<poolVars, status, coSet, hand, newq, runq, wakeVars, giveUp, cur>>

\* The emptied queue and the one that was filled change places.
Flip ==
    /\ loopPc = "flip"
    /\ runq' = newq
    /\ newq' = runq
    /\ loopPc' = "events"
    /\ UNCHANGED <<poolVars, status, coSet, hand, wakeVars, giveUp, cur>>

ResumeActive(o) ==
    /\ loopPc = "events"
    /\ cur = NoCo
    /\ o \in act
    /\ act' = act \ {o}
    /\ Resume(o, coSet)
    /\ UNCHANGED <<poolVars, coSet, hand, newq, runq, timers, expired, waiters,
                   giveUp, loopPc>>

\* Mutant: the loop over actCoroutines_ stops early.
EndEventsEarly ==
    /\ loopPc = "events"
    /\ cur = NoCo
    /\ loopPc' = "clean"
    /\ UNCHANGED <<poolVars, status, coSet, hand, newq, runq, wakeVars, giveUp, cur>>

EndEvents ==
    /\ loopPc = "events"
    /\ cur = NoCo
    /\ act = {}
    /\ loopPc' = "clean"
    /\ UNCHANGED <<poolVars, status, coSet, hand, newq, runq, wakeVars, giveUp, cur>>

\* Mutant: the dead are forgotten, not deleted.
ForgetDead(o) ==
    /\ loopPc = "clean"
    /\ o \in removed
    /\ coSet' = coSet \ {o}
    /\ UNCHANGED <<poolVars, status, hand, newq, runq, wakeVars, giveUp, cur, loopPc>>

DeleteDead(o) ==
    /\ loopPc = "clean"
    /\ o \in removed
    /\ removed' = removed \ {o}
    /\ coSet' = coSet \ {o}
    /\ free' = free \union {o}
    /\ UNCHANGED <<status, hand, newq, runq, wakeVars, giveUp, cur, loopPc>>

EndPass ==
    /\ loopPc = "clean"
    /\ removed = {}
    /\ loopPc' = "poll"
    /\ UNCHANGED <<poolVars, status, coSet, hand, newq, runq, wakeVars, giveUp, cur>>

-----------------------------------------------------------------------------
CallStep(t) == GoCo(t) \/ TakeWaiter(t) \/ \E o \in Object : NewObj(t, o)

YieldStep == Wait \/ WaitForLock \/ Yield \/ KillCurCo \/ \E f \in Fd : WaitEvent(f)

LoopStep == \/ Poll \/ GetExpired \/ EndTimers \/ RunNewCo \/ EndDrain \/ Flip
            \/ EndEvents \/ EndPass
            \/ \E o \in Object : ResumeExpired(o) \/ ResumeActive(o) \/ DeleteDead(o)

Next == (\E t \in Threads : CallStep(t)) \/ YieldStep \/ LoopStep

Spec == Init /\ [][Next]_vars

\* The loop's thread is scheduled, epoll_wait has a timeout, a coroutine that
\* runs yields or ends, and a goCo that was begun is ended.
FairSpec ==
    /\ Spec
    /\ WF_vars(LoopStep)
    /\ SF_vars(YieldStep)
    /\ \A t \in Threads : WF_vars(GoCo(t))

-----------------------------------------------------------------------------
(* Properties.                                                             *)

\* o waits for a file that epoll has not registered it for.
Deaf(o) == waitFd[o] # NoFd /\ interest[waitFd[o]] # o

\* The pointers to o that somebody will still follow.
Places(o) ==
    {<<"timer", 0>>   : x \in {o} \cap timers}
    \union {<<"expired", 0>> : x \in {o} \cap expired}
    \union {<<"removed", 0>> : x \in {o} \cap removed}
    \union {<<"event", f>> : f \in {f \in Fd : interest[f] = o}}
    \union {<<"hand", t>>  : t \in {t \in Threads : hand[t] = o}}
    \union {<<"lock", i>>  : i \in {i \in DOMAIN waiters : waiters[i] = o}}
    \union {<<"new", i>>   : i \in {i \in DOMAIN newq : newq[i] = o}}
    \union {<<"run", i>>   : i \in {i \in DOMAIN runq : runq[i] = o}}

\* A coroutine that is suspended, new or dead is in exactly one place, so it
\* is resumed once for each time it yields and deleted once; while it runs,
\* and once its object is free, it is in none, so that no pointer outlives the
\* coroutine and reaches the next one in the same object.  What epoll_wait has
\* returned is still registered (processor.cc:57-71, 152-197).
OnePlace ==
    /\ \A o \in Object :
         Cardinality(Places(o)) =
           IF o \in free \/ (o = cur /\ ~giveUp) \/ Deaf(o) THEN 0 ELSE 1
    /\ \A o \in act : \E f \in Fd : interest[f] = o /\ waitFd[o] = f

\* No wake-up is passed over: whatever the loop takes out of a list or of the
\* queue runs, the tests of coSet_ and of status_ in the two resume functions
\* notwithstanding (processor.cc:64-67, coroutine.cc:47-63).
WakesRun ==
    [][/\ \A o \in (expired \ expired') \union (act \ act') : cur' = o
       /\ loopPc = "drain" /\ runq' # runq => cur' = Head(runq)]_vars

\* The processor gives each coroutine the life it is promised.
Life == INSTANCE CoroutineLife WITH
          life <- [o \in Object |->
                     CASE o \in free         -> "free"
                       [] o \in removed      -> "dead"
                       [] o = cur            -> "running"
                       [] status[o] = "READY" -> "ready"
                       [] OTHER              -> "waiting"]

ImplementsLife == Life!LifeSpec

\* What is handed over is run, what is due or ready in a pass is resumed, and
\* what has ended goes back to the pool, whatever coroutines keep doing.
Due(o) == \/ o \in expired \union act
          \/ \E i \in DOMAIN runq : runq[i] = o
          \/ \E i \in DOMAIN newq : newq[i] = o

DueRuns == \A o \in Object : Due(o) ~> cur = o

DeadReclaimed == \A o \in Object : o \in removed ~> o \in free

\* "waitEvent: wait until the event on fd returns" (processor.h:71).  Not what
\* the code does when another coroutine of this processor waits for the same
\* fd: addEv fails, waitEvent yields all the same, and nothing resumes it.
EventIsAwaited == \A o \in Object : ~Deaf(o)
===============================================================================
