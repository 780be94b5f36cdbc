------------------------------ MODULE NewCoQueue ------------------------------
(***************************************************************************)
(* The double-buffered queue through which coroutines reach a processor    *)
(* (processor.cc:94-204, processor.h:99-105, spinlock.h:34-46).            *)
(*                                                                         *)
(* Any thread may call goCo or goCoBatch: under newQueLock_ it appends to  *)
(* newCoroutines_[!runningNewQue_], the queue that is not being run, and   *)
(* then makes the timerfd readable so that the loop leaves epoll_wait.     *)
(* The loop drains newCoroutines_[runningNewQue_] WITHOUT the lock, one    *)
(* coroutine at a time, and takes the lock only to flip the index.         *)
(*                                                                         *)
(* A coroutine that the loop runs is user code on the loop's thread: it    *)
(* may call goCo itself, and it may make itself known to a waker (a list   *)
(* of lock waiters, mutex.cc:33,62) before it yields, so that another      *)
(* thread can hand it over while it still runs.                            *)
(***************************************************************************)
EXTENDS Naturals, Sequences

CONSTANTS Producers, \* the threads that are not this processor's loop
          Loop,      \* the thread of this processor's loop
          Coroutine,
          Batches,   \* what one goCo or goCoBatch hands over
          NoCo       \* the loop's main context runs, not a coroutine

Threads == Producers \union {Loop}

\* One call hands over a coroutine at most once, as every caller does.
NoRepeat(b) == \A i, j \in 1..Len(b) : b[i] = b[j] => i = j

ASSUME NewCoQueueAssumption ==
    /\ Loop \notin Producers
    /\ NoCo \notin Coroutine
    /\ Batches \subseteq Seq(Coroutine)
    /\ \A b \in Batches : NoRepeat(b)

VARIABLES
    que,           \* newCoroutines_[0..1]
    runningNewQue, \* runningNewQue_: the queue being run
    sem,           \* newQueLock_'s semaphore: 1 free, 0 taken
    pc,            \* where each thread is inside goCo or goCoBatch
    todo,          \* what is left to push of the call's coroutines
    idx,           \* the !runningNewQue_ that the thread has just read
    loopPc,        \* where the loop is in its pass
    runningQue,    \* the loop's local runningQue
    cur,           \* the coroutine running on the loop's thread, or NoCo
    known,         \* the running coroutine has made itself known to a waker
    parked,        \* the coroutines somebody may hand over or resume
    act,           \* actCoroutines_: what this pass resumes for an event
    expired        \* timerExpiredCo_: what it resumes for a timer

queVars  == <<que, runningNewQue>>
callVars == <<pc, todo, idx>>
loopVars == <<loopPc, runningQue>>
coVars   == <<cur, known, parked, act, expired>>
vars     == <<que, runningNewQue, sem, pc, todo, idx, loopPc, runningQue, cur,
              known, parked, act, expired>>

CallPcs == {"idle", "lock", "index", "push", "wake"}
LoopPcs == {"poll", "expire", "timers", "drain", "flip", "flipping",
            "flipped", "events"}

TypeOK ==
    /\ que \in [{0, 1} -> Seq(Coroutine)]
    /\ runningNewQue \in {0, 1}
    /\ sem \in {0, 1}
    /\ pc \in [Threads -> CallPcs]
    /\ todo \in [Threads -> Seq(Coroutine)]
    /\ idx \in [Threads -> {0, 1}]
    /\ loopPc \in LoopPcs
    /\ runningQue \in {0, 1}
    /\ cur \in Coroutine \union {NoCo}
    /\ known \in BOOLEAN
    /\ parked \subseteq Coroutine
    /\ act \subseteq Coroutine
    /\ expired \subseteq Coroutine

Init ==
    /\ que = [i \in {0, 1} |-> <<>>]
    /\ runningNewQue = 0
    /\ sem = 1
    /\ pc = [t \in Threads |-> "idle"]
    /\ todo = [t \in Threads |-> <<>>]
    /\ idx = [t \in Threads |-> 0]
    /\ loopPc = "poll"
    /\ runningQue = 0
    /\ cur = NoCo
    /\ known = FALSE
    /\ parked = Coroutine
    /\ act = {}
    /\ expired = {}

-----------------------------------------------------------------------------
(* goCo and goCoBatch, in any thread.                                      *)

\* The loop's thread calls goCo only from the coroutine it runs, and that
\* coroutine yields as soon as it has made itself known to a waker.
MayCall(t) == t = Loop => cur # NoCo /\ ~known

GoCo(t, b) ==
    /\ pc[t] = "idle"
    /\ MayCall(t)
    /\ \A i \in 1..Len(b) : b[i] \in parked
    /\ parked' = {c \in parked : \A i \in 1..Len(b) : c # b[i]}
    /\ todo' = [todo EXCEPT ![t] = b]
    /\ pc' = [pc EXCEPT ![t] = "lock"]
    /\ UNCHANGED <<queVars, sem, idx, loopVars, cur, known, act, expired>>

\* compare_exchange_strong(1, 0) of the spinlock; a failed attempt spins.
Lock(t) ==
    /\ pc[t] = "lock"
    /\ sem = 1
    /\ sem' = 0
    /\ pc' = [pc EXCEPT ![t] = "index"]
    /\ UNCHANGED <<queVars, todo, idx, loopVars, coVars>>

\* Mutant: the negation of the index is forgotten.
ReadRunningIndex(t) ==
    /\ pc[t] = "index"
    /\ todo[t] # <<>>
    /\ idx' = [idx EXCEPT ![t] = runningNewQue]
    /\ pc' = [pc EXCEPT ![t] = "push"]
    /\ UNCHANGED <<queVars, sem, todo, loopVars, coVars>>

ReadIndex(t) ==
    /\ pc[t] = "index"
    /\ todo[t] # <<>>
    /\ idx' = [idx EXCEPT ![t] = 1 - runningNewQue]
    /\ pc' = [pc EXCEPT ![t] = "push"]
    /\ UNCHANGED <<queVars, sem, todo, loopVars, coVars>>

Push(t) ==
    /\ pc[t] = "push"
    /\ que' = [que EXCEPT ![idx[t]] = Append(@, Head(todo[t]))]
    /\ todo' = [todo EXCEPT ![t] = Tail(@)]
    /\ pc' = [pc EXCEPT ![t] = "index"]
    /\ UNCHANGED <<runningNewQue, sem, idx, loopVars, coVars>>

Unlock(t) ==
    /\ pc[t] = "index"
    /\ todo[t] = <<>>
    /\ sem' = 1
    /\ pc' = [pc EXCEPT ![t] = "wake"]
    /\ UNCHANGED <<queVars, todo, idx, loopVars, coVars>>

\* The wake-up cuts the wait in epoll_wait short, which may end at any time
\* here; the timerfd is in Timer.
WakeUpEpoller(t) ==
    /\ pc[t] = "wake"
    /\ pc' = [pc EXCEPT ![t] = "idle"]
    /\ UNCHANGED <<queVars, sem, todo, idx, loopVars, coVars>>

-----------------------------------------------------------------------------
(* Coroutines on the loop's thread.                                        *)

InUserCode == cur # NoCo /\ pc[Loop] = "idle"

\* The running coroutine puts itself where a waker finds it, still running.
MakeKnown ==
    /\ InUserCode
    /\ ~known
    /\ known' = TRUE
    /\ parked' = parked \union {cur}
    /\ UNCHANGED <<queVars, sem, callVars, loopVars, cur, act, expired>>

\* The running coroutine yields or ends; its object can then come back, by
\* an event, a timer, a waker, or as a new coroutine out of the pool.
SwapToMain ==
    /\ InUserCode
    /\ cur' = NoCo
    /\ known' = FALSE
    /\ parked' = IF known THEN parked ELSE parked \union {cur}
    /\ UNCHANGED <<queVars, sem, callVars, loopVars, act, expired>>

ResumeExpired(c) ==
    /\ loopPc = "timers"
    /\ cur = NoCo
    /\ c \in expired
    /\ cur' = c
    /\ expired' = expired \ {c}
    /\ UNCHANGED <<queVars, sem, callVars, loopVars, known, parked, act>>

ResumeActive(c) ==
    /\ loopPc = "events"
    /\ cur = NoCo
    /\ c \in act
    /\ cur' = c
    /\ act' = act \ {c}
    /\ UNCHANGED <<queVars, sem, callVars, loopVars, known, parked, expired>>

-----------------------------------------------------------------------------
(* The loop.                                                               *)

\* epoll_wait returns: the timerfd is readable, or some coroutines' fds are,
\* or epollTimeOutMs has passed.  Nobody else wakes a coroutine that waits
\* for an event or a timer, so those leave the parked ones.
Poll ==
    /\ loopPc = "poll"
    /\ act' \in SUBSET parked
    /\ parked' = parked \ act'
    /\ loopPc' = "expire"
    /\ UNCHANGED <<queVars, sem, callVars, runningQue, cur, known, expired>>

\* getExpiredCoroutines takes the due timers.
GetExpired ==
    /\ loopPc = "expire"
    /\ expired' \in SUBSET parked
    /\ parked' = parked \ expired'
    /\ loopPc' = "timers"
    /\ UNCHANGED <<queVars, sem, callVars, runningQue, cur, known, act>>

BeginDrain ==
    /\ loopPc = "timers"
    /\ cur = NoCo
    /\ expired = {}
    /\ runningQue' = runningNewQue
    /\ loopPc' = "drain"
    /\ UNCHANGED <<queVars, sem, callVars, coVars>>

RunNewCo ==
    /\ loopPc = "drain"
    /\ cur = NoCo
    /\ que[runningQue] # <<>>
    /\ cur' = Head(que[runningQue])
    /\ que' = [que EXCEPT ![runningQue] = Tail(@)]
    /\ UNCHANGED <<runningNewQue, sem, callVars, loopVars, known, parked, act,
                   expired>>

\* Mutant: the drain may stop before its queue is empty.
EndDrainEarly ==
    /\ loopPc = "drain"
    /\ cur = NoCo
    /\ loopPc' = "flip"
    /\ UNCHANGED <<queVars, sem, callVars, runningQue, coVars>>

EndDrain ==
    /\ loopPc = "drain"
    /\ cur = NoCo
    /\ que[runningQue] = <<>>
    /\ loopPc' = "flip"
    /\ UNCHANGED <<queVars, sem, callVars, runningQue, coVars>>

FlipLock ==
    /\ loopPc = "flip"
    /\ sem = 1
    /\ sem' = 0
    /\ loopPc' = "flipping"
    /\ UNCHANGED <<queVars, callVars, runningQue, coVars>>

\* Mutant: the index does not change.
FlipToSame ==
    /\ loopPc = "flipping"
    /\ runningNewQue' = runningQue
    /\ loopPc' = "flipped"
    /\ UNCHANGED <<que, sem, callVars, runningQue, coVars>>

Flip ==
    /\ loopPc = "flipping"
    /\ runningNewQue' = 1 - runningQue
    /\ loopPc' = "flipped"
    /\ UNCHANGED <<que, sem, callVars, runningQue, coVars>>

FlipUnlock ==
    /\ loopPc = "flipped"
    /\ sem' = 1
    /\ loopPc' = "events"
    /\ UNCHANGED <<queVars, callVars, runningQue, coVars>>

EndPass ==
    /\ loopPc = "events"
    /\ cur = NoCo
    /\ act = {}
    /\ loopPc' = "poll"
    /\ UNCHANGED <<queVars, sem, callVars, runningQue, coVars>>

-----------------------------------------------------------------------------
CallStep(t) == \/ Lock(t)
               \/ ReadIndex(t)
               \/ Push(t)
               \/ Unlock(t)
               \/ WakeUpEpoller(t)

LoopStep == \/ Poll
            \/ GetExpired
            \/ BeginDrain
            \/ RunNewCo
            \/ EndDrain
            \/ FlipLock
            \/ Flip
            \/ FlipUnlock
            \/ EndPass
            \/ \E c \in Coroutine : ResumeExpired(c) \/ ResumeActive(c)

Next == \/ \E t \in Threads : CallStep(t) \/ \E b \in Batches : GoCo(t, b)
        \/ LoopStep
        \/ MakeKnown
        \/ SwapToMain

Spec == Init /\ [][Next]_vars

\* Every thread is scheduled, epoll_wait has a timeout, and a coroutine that
\* runs yields or ends.  Nobody has to call goCo.
Fairness == /\ \A t \in Threads : WF_vars(CallStep(t))
            /\ WF_vars(LoopStep)
            /\ WF_vars(SwapToMain)

FairSpec == Spec /\ Fairness

-----------------------------------------------------------------------------
(* Properties.                                                             *)

Holds(t) == pc[t] \in {"index", "push"}
LoopHolds == loopPc \in {"flipping", "flipped"}

\* newQueLock_ excludes: at most one thread is between lock and unlock, the
\* loop's flip included, and the semaphore says so (spinlock.h:34-46).
LockExcludes ==
    /\ \A t, u \in Threads : Holds(t) /\ Holds(u) => t = u
    /\ \A t \in Threads : Holds(t) => ~LoopHolds
    /\ sem = 0 <=> LoopHolds \/ \E t \in Threads : Holds(t)

\* std::queue is not thread-safe, and the loop empties its queue without the
\* lock (processor.cc:165-171): nobody may push to the queue that the loop is
\* draining, also not the loop's own coroutines, and the index a pusher has
\* read must still be the right one when it uses it.
NoQueueRace ==
    \A t \in Threads : pc[t] = "push" =>
        /\ idx[t] = 1 - runningNewQue
        /\ loopPc \in {"drain", "flip"} => idx[t] # runningQue
        /\ ~LoopHolds

\* The queue that the flip puts aside is empty, otherwise what is left in it
\* would be overtaken by what comes later (processor.cc:165-178).
FlipLeavesNothing ==
    loopPc \in {"flip", "flipping", "flipped"} => que[runningQue] = <<>>

\* The inductive invariant behind the three above.
Inv == /\ TypeOK
       /\ LockExcludes
       /\ NoQueueRace
       /\ FlipLeavesNothing
       /\ loopPc \in {"drain", "flip", "flipping"} => runningQue = runningNewQue
       /\ loopPc = "flipped" => runningNewQue = 1 - runningQue
       /\ \A t \in Threads : pc[t] = "push" => todo[t] # <<>>
       /\ \A t \in Threads : pc[t] = "lock" => todo[t] \in Batches

\* The coroutines of the call that holds the lock and has not pushed them yet.
InFlight == IF \E t \in Threads : Holds(t)
            THEN todo[CHOOSE t \in Threads : Holds(t)]
            ELSE <<>>

\* The two queues, the lock and the index implement one first-in-first-out
\* queue into which a batch goes as a whole, at the moment its thread takes
\* the lock (processor.cc:94-117, 161-178).
Fifo == INSTANCE FifoQueue WITH
            q <- que[runningNewQue] \o que[1 - runningNewQue] \o InFlight,
            taken <- IF loopPc = "drain" THEN cur ELSE NoCo

ImplementsFifo == Fifo!FifoSpec

Within(c, s) == \E i \in 1..Len(s) : s[i] = c

Queued(c) == \E i \in {0, 1} : Within(c, que[i])

\* Every coroutine in a queue is taken out of it and run, whatever coroutines
\* and other threads keep handing over meanwhile (processor.cc:165-178).  (A
\* thread that spins for the lock is promised nothing, as the spinlock has no
\* queue: a call still at the lock may wait for ever, and so would the flip if
\* somebody called goCoBatch with no coroutines again and again.)
QueuedRuns == \A c \in Coroutine : Queued(c) ~> cur = c /\ ~Queued(c)

\* One pass does not run new coroutines for ever, even if each of them spawns
\* or wakes another before it yields: those go to the other queue, and the
\* loop gets to the events and to epoll_wait (processor.cc:101,113,165-185).
DrainEnds == loopPc = "drain" ~> loopPc = "events"
=============================================================================
