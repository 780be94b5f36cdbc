------------------------------- MODULE RWMutex -------------------------------
(***************************************************************************)
(* RWMutex (mutex.h, mutex.cc): a lock for coroutines.  lock_ is a         *)
(* spinlock that protects state_, readingNum_ and waitingCo_ for a few     *)
(* instructions; a coroutine that does not get the lock puts itself into   *)
(* waitingCo_, releases lock_, yields to its processor's loop, and calls   *)
(* rlock or wlock again when it is resumed.  freeLock hands every waiter   *)
(* to its own processor with goCo.                                         *)
(*                                                                         *)
(* A processor's loop runs one coroutine at a time.  Its queue of new      *)
(* coroutines is the FIFO queue that NewCoQueue implements, so goCo is one *)
(* step here.  A coroutine may also yield outside the lock's own code, for *)
(* an event or a timer, holding the lock or not.                           *)
(***************************************************************************)
EXTENDS Integers, Sequences, FiniteSets

CONSTANTS Coroutine,
          Processor,
          Home,     \* Home[c]: the processor c belongs to, getMyProcessor()
          MaxLocks, \* how often a coroutine locks before it ends
          NoCo      \* a processor runs its main context

ASSUME RWMutexAssumption ==
    /\ IsFiniteSet(Coroutine)
    /\ Home \in [Coroutine -> Processor]
    /\ MaxLocks \in Nat
    /\ NoCo \notin Coroutine

VARIABLES
    state,      \* state_: "FREE", "READING" or "WRITING"
    readingNum, \* readingNum_
    sem,        \* lock_'s semaphore: 1 free, 0 taken
    waitingCo,  \* waitingCo_
    pc,         \* where each coroutine is
    want,       \* "read" or "write": which of the two it locks or holds
    left,       \* how often it will still lock
    running,    \* running[p]: the coroutine on p's thread, or NoCo
    runq,       \* runq[p]: the coroutines handed to p with goCo
    away        \* yielded for an event or a timer, outside the lock's code

lockVars  == <<state, readingNum, waitingCo>>
schedVars == <<running, runq, away>>
vars      == <<state, readingNum, sem, waitingCo, pc, want, left, running,
               runq, away>>

Pcs == {"out",    \* does not hold the lock
        "spin",   \* in rlock or wlock, wants lock_
        "test",   \* has lock_, about to test state_
        "get",    \* state_ allows it to take the lock
        "push",   \* state_ does not
        "yield",  \* is in waitingCo_, has released lock_, still runs
        "asleep", \* has yielded
        "in",     \* holds the lock
        "rel",    \* in runlock or wunlock, wants lock_
        "dec",    \* a reader, has lock_, about to decrement readingNum_
        "free",   \* at the start of freeLock
        "wake",   \* in the loop of freeLock
        "exit",   \* about to release lock_ and to return
        "done"}

TypeOK ==
    /\ state \in {"FREE", "READING", "WRITING"}
    /\ readingNum \in Nat
    /\ sem \in {0, 1}
    /\ waitingCo \in Seq(Coroutine)
    /\ pc \in [Coroutine -> Pcs]
    /\ want \in [Coroutine -> {"read", "write"}]
    /\ left \in [Coroutine -> 0..MaxLocks]
    /\ running \in [Processor -> Coroutine \union {NoCo}]
    /\ runq \in [Processor -> Seq(Coroutine)]
    /\ away \subseteq Coroutine

Init ==
    /\ state = "FREE"
    /\ readingNum = 0
    /\ sem = 1
    /\ waitingCo = <<>>
    /\ pc = [c \in Coroutine |-> "out"]
    /\ want = [c \in Coroutine |-> "read"]
    /\ left = [c \in Coroutine |-> MaxLocks]
    /\ running = [p \in Processor |-> NoCo]
    /\ runq = [p \in Processor |-> <<>>]
    /\ away = Coroutine

OnCpu(c) == running[Home[c]] = c
Goto(c, l) == pc' = [pc EXCEPT ![c] = l]

-----------------------------------------------------------------------------
(* rlock and wlock.                                                        *)

Call(c, m) ==
    /\ OnCpu(c)
    /\ pc[c] = "out"
    /\ left[c] > 0
    /\ left' = [left EXCEPT ![c] = @ - 1]
    /\ want' = [want EXCEPT ![c] = m]
    /\ Goto(c, "spin")
    /\ UNCHANGED <<lockVars, sem, schedVars>>

\* SpinlockGuard l(lock_) at the top of rlock and wlock.
SpinToLock(c) ==
    /\ OnCpu(c)
    /\ pc[c] = "spin"
    /\ sem = 1
    /\ sem' = 0
    /\ Goto(c, "test")
    /\ UNCHANGED <<lockVars, want, left, schedVars>>

\* Mutant: a writer does not wait for readers.
GrantableUnlessWritten(m) == state # "WRITING"

Grantable(m) == state = "FREE" \/ (m = "read" /\ state = "READING")

Test(c) ==
    /\ OnCpu(c)
    /\ pc[c] = "test"
    /\ Goto(c, IF Grantable(want[c]) THEN "get" ELSE "push")
    /\ UNCHANGED <<lockVars, sem, want, left, schedVars>>

\* Mutant: a reader is not counted.
RGetUncounted(c) ==
    /\ OnCpu(c)
    /\ pc[c] = "get"
    /\ want[c] = "read"
    /\ state' = "READING"
    /\ sem' = 1
    /\ Goto(c, "in")
    /\ UNCHANGED <<readingNum, waitingCo, want, left, schedVars>>

RGet(c) ==
    /\ OnCpu(c)
    /\ pc[c] = "get"
    /\ want[c] = "read"
    /\ readingNum' = readingNum + 1
    /\ state' = "READING"
    /\ sem' = 1
    /\ Goto(c, "in")
    /\ UNCHANGED <<waitingCo, want, left, schedVars>>

WGet(c) ==
    /\ OnCpu(c)
    /\ pc[c] = "get"
    /\ want[c] = "write"
    /\ state' = "WRITING"
    /\ sem' = 1
    /\ Goto(c, "in")
    /\ UNCHANGED <<readingNum, waitingCo, want, left, schedVars>>

\* The coroutine is in waitingCo_ and lock_ is free before it has yielded.
PushSelf(c) ==
    /\ OnCpu(c)
    /\ pc[c] = "push"
    /\ waitingCo' = Append(waitingCo, c)
    /\ sem' = 1
    /\ Goto(c, "yield")
    /\ UNCHANGED <<state, readingNum, want, left, schedVars>>

Yield(c) ==
    /\ OnCpu(c)
    /\ pc[c] = "yield"
    /\ Goto(c, "asleep")
    /\ running' = [running EXCEPT ![Home[c]] = NoCo]
    /\ UNCHANGED <<lockVars, sem, want, left, runq, away>>

-----------------------------------------------------------------------------
(* runlock and wunlock.                                                    *)

Unlock(c) ==
    /\ OnCpu(c)
    /\ pc[c] = "in"
    /\ Goto(c, "rel")
    /\ UNCHANGED <<lockVars, sem, want, left, schedVars>>

SpinToUnlock(c) ==
    /\ OnCpu(c)
    /\ pc[c] = "rel"
    /\ sem = 1
    /\ sem' = 0
    /\ Goto(c, IF want[c] = "read" THEN "dec" ELSE "free")
    /\ UNCHANGED <<lockVars, want, left, schedVars>>

\* Mutant: the old value of readingNum_ is taken for the new one.
DecrementToZero(c) ==
    /\ OnCpu(c)
    /\ pc[c] = "dec"
    /\ readingNum' = readingNum - 1
    /\ Goto(c, IF readingNum = 0 THEN "free" ELSE "exit")
    /\ UNCHANGED <<state, waitingCo, sem, want, left, schedVars>>

Decrement(c) ==
    /\ OnCpu(c)
    /\ pc[c] = "dec"
    /\ readingNum' = readingNum - 1
    /\ Goto(c, IF readingNum = 1 THEN "free" ELSE "exit")
    /\ UNCHANGED <<state, waitingCo, sem, want, left, schedVars>>

FreeLock(c) ==
    /\ OnCpu(c)
    /\ pc[c] = "free"
    /\ state' = "FREE"
    /\ Goto(c, "wake")
    /\ UNCHANGED <<readingNum, waitingCo, sem, want, left, schedVars>>

\* Mutant: the waiter goes to the processor of whoever wakes it.
WakeOneHere(c) ==
    /\ OnCpu(c)
    /\ pc[c] = "wake"
    /\ waitingCo # <<>>
    /\ waitingCo' = Tail(waitingCo)
    /\ runq' = [runq EXCEPT ![Home[c]] = Append(@, Head(waitingCo))]
    /\ UNCHANGED <<state, readingNum, sem, pc, want, left, running, away>>

\* One turn of freeLock's loop: the first waiter goes to its own processor.
WakeOne(c) ==
    /\ OnCpu(c)
    /\ pc[c] = "wake"
    /\ waitingCo # <<>>
    /\ waitingCo' = Tail(waitingCo)
    /\ runq' = [runq EXCEPT ![Home[Head(waitingCo)]] = Append(@, Head(waitingCo))]
    /\ UNCHANGED <<state, readingNum, sem, pc, want, left, running, away>>

\* Mutant: freeLock may return before everybody is woken.
SomeWoken(c) ==
    /\ OnCpu(c)
    /\ pc[c] = "wake"
    /\ Goto(c, "exit")
    /\ UNCHANGED <<lockVars, sem, want, left, schedVars>>

AllWoken(c) ==
    /\ OnCpu(c)
    /\ pc[c] = "wake"
    /\ waitingCo = <<>>
    /\ Goto(c, "exit")
    /\ UNCHANGED <<lockVars, sem, want, left, schedVars>>

Exit(c) ==
    /\ OnCpu(c)
    /\ pc[c] = "exit"
    /\ sem' = 1
    /\ Goto(c, "out")
    /\ UNCHANGED <<lockVars, want, left, schedVars>>

-----------------------------------------------------------------------------
(* The processors.                                                         *)

\* A coroutine that yielded in rlock or wlock calls it again; one that has
\* not yielded there goes on where it is.
RunNewCo(p) ==
    /\ running[p] = NoCo
    /\ runq[p] # <<>>
    /\ running' = [running EXCEPT ![p] = Head(runq[p])]
    /\ runq' = [runq EXCEPT ![p] = Tail(@)]
    /\ pc' = [pc EXCEPT ![Head(runq[p])] = IF @ = "asleep" THEN "spin" ELSE @]
    /\ UNCHANGED <<lockVars, sem, want, left, away>>

\* The coroutine waits for an event or a timer; it may hold the lock.
Leave(c) ==
    /\ OnCpu(c)
    /\ pc[c] \in {"out", "in"}
    /\ away' = away \union {c}
    /\ running' = [running EXCEPT ![Home[c]] = NoCo]
    /\ UNCHANGED <<lockVars, sem, pc, want, left, runq>>

Resume(c) ==
    /\ c \in away
    /\ running[Home[c]] = NoCo
    /\ running' = [running EXCEPT ![Home[c]] = c]
    /\ away' = away \ {c}
    /\ UNCHANGED <<lockVars, sem, pc, want, left, runq>>

Finish(c) ==
    /\ OnCpu(c)
    /\ pc[c] = "out"
    /\ left[c] = 0
    /\ Goto(c, "done")
    /\ running' = [running EXCEPT ![Home[c]] = NoCo]
    /\ UNCHANGED <<lockVars, sem, want, left, runq, away>>

-----------------------------------------------------------------------------
\* The steps that a coroutine takes once it runs in the lock's code.
LockCode(c) == \/ SpinToLock(c) \/ Test(c) \/ RGet(c) \/ WGet(c)
               \/ PushSelf(c) \/ Yield(c)
               \/ SpinToUnlock(c) \/ Decrement(c) \/ FreeLock(c)
               \/ WakeOne(c) \/ AllWoken(c) \/ Exit(c)

UserCode(c) == \/ \E m \in {"read", "write"} : Call(c, m)
               \/ Unlock(c)
               \/ Finish(c)

\* Everybody has ended: nothing is left to do.
Terminated == (\A c \in Coroutine : pc[c] = "done") /\ UNCHANGED vars

Next == \/ \E c \in Coroutine : LockCode(c) \/ UserCode(c) \/ Leave(c) \/ Resume(c)
        \/ \E p \in Processor : RunNewCo(p)
        \/ Terminated

Spec == Init /\ [][Next]_vars

\* Every thread is scheduled; a coroutine that waits for an event or a timer
\* is resumed and goes on in the end, so that a holder unlocks; and every loop
\* gets to the coroutines in its queue (NewCoQueue's QueuedRuns).  Nobody has
\* to yield outside the lock's code.
Fairness ==
    /\ \A c \in Coroutine : /\ WF_vars(LockCode(c))
                            /\ SF_vars(UserCode(c))
                            /\ SF_vars(Resume(c))
    /\ \A p \in Processor : SF_vars(RunNewCo(p))

FairSpec == Spec /\ Fairness

-----------------------------------------------------------------------------
(* Properties.                                                             *)

\* c runs between SpinlockGuard's constructor and its destructor.
InLock(c) == pc[c] \in {"test", "get", "push", "dec", "free", "wake", "exit"}

\* How c holds the RWMutex: from the moment that rlock or wlock sets state_
\* until runlock has decremented, or freeLock has set state_ for wunlock.
Mode(c) == IF \/ pc[c] \in {"in", "rel", "dec"}
              \/ pc[c] = "free" /\ want[c] = "write"
           THEN want[c] ELSE "none"

Readers == {c \in Coroutine : Mode(c) = "read"}
Writers == {c \in Coroutine : Mode(c) = "write"}

\* lock_ excludes and its semaphore says so, although waiters are handed to
\* other processors inside the critical section (mutex.cc:22-74).
SpinlockExcludes ==
    /\ \A c, d \in Coroutine : InLock(c) /\ InLock(d) => c = d
    /\ sem = 0 <=> \E c \in Coroutine : InLock(c)

\* state_ and readingNum_ always agree with who holds the lock: the count is
\* the number of readers also while the last of them is in freeLock, and a
\* writer is alone (mutex.cc:22-85).
StateAgrees ==
    /\ readingNum = Cardinality(Readers)
    /\ state = "WRITING" <=> Writers # {}
    /\ state = "READING" <=>
           Readers # {} \/ \E c \in Coroutine : pc[c] = "free" /\ want[c] = "read"

Occurrences(c, s) == Cardinality({i \in 1..Len(s) : s[i] = c})

\* A coroutine that gave up waits in exactly one place: in waitingCo_ or, once
\* woken, in the queue of its own processor, also when it was woken between
\* the release of lock_ and its yield; and nobody else is there.  Otherwise it
\* would never run again, or run on two threads (mutex.cc:33-37, 62-66, 80-84).
WaitsInOnePlace ==
    \A c \in Coroutine :
        /\ Occurrences(c, waitingCo) + Occurrences(c, runq[Home[c]])
             = IF pc[c] \in {"yield", "asleep"} THEN 1 ELSE 0
        /\ \A p \in Processor \ {Home[c]} : Occurrences(c, runq[p]) = 0
        /\ pc[c] = "asleep" => ~OnCpu(c)

\* Nobody waits for a lock that is free (mutex.cc:76-85).
NoWaiterLeftBehind == sem = 1 /\ state = "FREE" => waitingCo = <<>>

\* RWMutex implements a readers-writer lock (mutex.h:32-50).
RW == INSTANCE RWLock WITH mode <- [c \in Coroutine |-> Mode(c)]

ImplementsRWLock == RW!RWSpec

\* A workload in which everybody locks MaxLocks times comes to an end: no
\* wake-up is lost, nobody waits for ever (mutex.cc; the spinlock alone would
\* not promise that much to an unbounded workload).
EverybodyEnds == <>(\A c \in Coroutine : pc[c] = "done")
=============================================================================
