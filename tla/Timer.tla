-------------------------------- MODULE Timer --------------------------------
(***************************************************************************)
(* A processor's timers (timer.cc): a heap of deadlines on the loop's      *)
(* thread, and the one timerfd by which the kernel makes epoll_wait        *)
(* return, which the loop sets for the first deadline and any other        *)
(* thread, in goCo, for now.                                               *)
(*                                                                         *)
(* Deadlines are wall-clock times and the timerfd counts monotonic time.   *)
(* All times are relative: left[c] is what the wall clock shows until c's  *)
(* deadline, and fd what the timerfd counts until it fires.  A setting of  *)
(* the timerfd replaces the one before it and takes an expiry that has not *)
(* been read back.                                                         *)
(***************************************************************************)
EXTENDS Integers

CONSTANTS Sleeper, \* the coroutines that call co_sleep
          Waker,   \* the threads that call goCo
          Delays,  \* for how many ms coroutines sleep
          Timeout, \* epollTimeOutMs
          MaxBack, \* by how many ms the wall clock is set back
          MaxLag,  \* how long the loop is preempted before timerfd_settime
          Off      \* the timerfd is not set

ASSUME TimerAssumption ==
    /\ Delays \subseteq Nat
    /\ Timeout \in Nat
    /\ MaxBack \in Nat
    /\ MaxLag \in Nat
    /\ Off \notin Int

VARIABLES
    sleeping, \* the coroutines in timerCoHeap_
    left,     \* left[c]: ms until c's deadline, for c in the heap
    fd,       \* the timerfd: ms until it fires, or Off
    ready,    \* it has fired and was not read
    loopPc,   \* where the loop is
    patience, \* ms until epoll_wait returns anyway
    ivl,      \* the interval that the loop is about to set
    lag,      \* how long it has been about to
    pc,       \* where each waker is in wakeUp
    stamp,    \* stamp[w]: ms until the time that w took for now
    ivlOf,    \* ivlOf[w]: the interval that w is about to set
    jumped,   \* the wall clock was set back
    skew,     \* the lag of the setting the timerfd runs under
    called    \* a wakeUp has set the timerfd since the loop entered epoll_wait

heapVars  == <<sleeping, left>>
fdVars    == <<fd, ready, skew>>
loopVars  == <<patience, ivl, lag>>
wakerVars == <<pc, stamp, ivlOf>>
vars      == <<sleeping, left, fd, ready, loopPc, patience, ivl, lag, pc, stamp,
               ivlOf, jumped, skew, called>>

TypeOK ==
    /\ sleeping \subseteq Sleeper
    /\ left \in [Sleeper -> Int]
    /\ fd \in Nat \union {Off}
    /\ ready \in BOOLEAN
    /\ loopPc \in {"init", "dead", "poll", "expire", "read", "clock", "set", "run"}
    /\ patience \in 0..Timeout
    /\ ivl \in Nat
    /\ lag \in 0..MaxLag
    /\ pc \in [Waker -> {"idle", "clock", "set"}]
    /\ stamp \in [Waker -> Int]
    /\ ivlOf \in [Waker -> Nat]
    /\ jumped \in BOOLEAN
    /\ skew \in 0..MaxLag
    /\ called \in BOOLEAN

Init ==
    /\ sleeping = {}
    /\ left = [c \in Sleeper |-> 0]
    /\ fd = Off
    /\ ready = FALSE
    /\ loopPc = "init"
    /\ patience = Timeout
    /\ ivl = 0
    /\ lag = 0
    /\ pc = [w \in Waker |-> "idle"]
    /\ stamp = [w \in Waker |-> 0]
    /\ ivlOf = [w \in Waker |-> 0]
    /\ jumped = FALSE
    /\ skew = 0
    /\ called = FALSE

-----------------------------------------------------------------------------
(* Time.                                                                   *)

\* A deadline that has passed stays passed whatever the clock is set back by.
Elapse(ms) == IF ms > -MaxBack THEN ms - 1 ELSE ms

\* One ms.  The timerfd fires on time.
Tick ==
    /\ fd # 0
    /\ loopPc = "set" => lag < MaxLag
    /\ fd' = IF fd = Off THEN Off ELSE fd - 1
    /\ lag' = IF loopPc = "set" THEN lag + 1 ELSE lag
    /\ left' = [c \in Sleeper |-> IF c \in sleeping THEN Elapse(left[c]) ELSE 0]
    /\ stamp' = [w \in Waker |-> IF pc[w] = "clock" THEN Elapse(stamp[w]) ELSE 0]
    /\ patience' = IF loopPc = "poll" /\ patience > 0 THEN patience - 1 ELSE patience
    /\ UNCHANGED <<sleeping, ready, loopPc, ivl, pc, ivlOf, jumped, skew, called>>

Fire ==
    /\ fd = 0
    /\ fd' = Off
    /\ ready' = TRUE
    /\ UNCHANGED <<heapVars, loopPc, loopVars, wakerVars, jumped, skew, called>>

\* gettimeofday is set back once.
SetBack(ms) ==
    /\ ~jumped
    /\ jumped' = TRUE
    /\ left' = [c \in Sleeper |-> IF c \in sleeping THEN left[c] + ms ELSE 0]
    /\ stamp' = [w \in Waker |-> IF pc[w] = "clock" THEN stamp[w] + ms ELSE 0]
    /\ UNCHANGED <<sleeping, fdVars, loopPc, loopVars, pc, ivlOf, called>>

-----------------------------------------------------------------------------
(* timeIntervalFromNow, and the order of the heap.                         *)

\* Mutant: an interval of 0, which stops the timerfd.
IntervalOrOff(ms) == IF ms < 1 THEN Off ELSE ms

\* 1 us, which is less than the ms of this clock, when the time has passed.
Interval(ms) == IF ms < 1 THEN 0 ELSE ms

\* Mutant: the heap of std::priority_queue without std::greater.
Later(m, n) == m >= n

\* m comes out of the heap no later than n.
Sooner(m, n) == m <= n

\* Mutant: == for <= in the test of the deadline.
DueNow(ms) == ms = 0

Due(ms) == ms <= 0

-----------------------------------------------------------------------------
(* The loop.                                                               *)

\* Epoller::init and Timer::init succeed, or the thread ends.
InitTimer ==
    /\ loopPc = "init"
    /\ loopPc' \in {"poll", "dead"}
    /\ UNCHANGED <<heapVars, fdVars, loopVars, wakerVars, jumped, called>>

Poll ==
    /\ loopPc = "poll"
    /\ loopPc' = "expire"
    /\ called' = FALSE
    /\ UNCHANGED <<heapVars, fdVars, loopVars, wakerVars, jumped>>

PollTimer   == ready /\ Poll
PollTimeout == patience = 0 /\ Poll

\* getExpiredCoroutines pops while the top is due.
GetExpired ==
    /\ loopPc = "expire"
    /\ sleeping' = {c \in sleeping :
                      \E d \in sleeping : Sooner(left[d], left[c]) /\ ~Due(left[d])}
    /\ loopPc' = "read"
    /\ UNCHANGED <<left, fdVars, loopVars, wakerVars, jumped, called>>

ReadTimeFd ==
    /\ loopPc = "read"
    /\ ready' = FALSE
    /\ loopPc' = IF sleeping = {} THEN "run" ELSE "clock"
    /\ UNCHANGED <<heapVars, fd, skew, loopVars, wakerVars, jumped, called>>

\* resetTimeOfTimefd for the top of the heap: the interval is computed ...
ReadClock ==
    /\ loopPc = "clock"
    /\ \E c \in sleeping :
         /\ \A d \in sleeping : Sooner(left[c], left[d])
         /\ ivl' = Interval(left[c])
    /\ lag' = 0
    /\ loopPc' = "set"
    /\ UNCHANGED <<heapVars, fdVars, patience, wakerVars, jumped, called>>

\* ... and set.
SetTime ==
    /\ loopPc = "set"
    /\ fd' = ivl
    /\ ready' = FALSE
    /\ skew' = lag
    /\ ivl' = 0
    /\ lag' = 0
    /\ loopPc' = "run"
    /\ UNCHANGED <<heapVars, patience, wakerVars, jumped, called>>

\* A coroutine calls co_sleep.
RunAfter(c, ms) ==
    /\ loopPc = "run"
    /\ c \in Sleeper \ sleeping
    /\ sleeping' = sleeping \union {c}
    /\ left' = [left EXCEPT ![c] = ms]
    /\ loopPc' = IF \A d \in sleeping : Sooner(ms, left[d]) THEN "clock" ELSE "run"
    /\ UNCHANGED <<fdVars, loopVars, wakerVars, jumped, called>>

EndPass ==
    /\ loopPc = "run"
    /\ loopPc' = "poll"
    /\ patience' = Timeout
    /\ UNCHANGED <<heapVars, fdVars, ivl, lag, wakerVars, jumped, called>>

-----------------------------------------------------------------------------
(* wakeUp, in any thread.                                                  *)

WakeUp(w) ==
    /\ pc[w] = "idle"
    /\ stamp' = [stamp EXCEPT ![w] = 0]
    /\ pc' = [pc EXCEPT ![w] = "clock"]
    /\ UNCHANGED <<heapVars, fdVars, loopPc, loopVars, ivlOf, jumped, called>>

WakerReadClock(w) ==
    /\ pc[w] = "clock"
    /\ ivlOf' = [ivlOf EXCEPT ![w] = Interval(stamp[w])]
    /\ stamp' = [stamp EXCEPT ![w] = 0]
    /\ pc' = [pc EXCEPT ![w] = "set"]
    /\ UNCHANGED <<heapVars, fdVars, loopPc, loopVars, jumped, called>>

\* There is no timerfd before Timer::init.
WakerSetTime(w) ==
    /\ pc[w] = "set"
    /\ pc' = [pc EXCEPT ![w] = "idle"]
    /\ ivlOf' = [ivlOf EXCEPT ![w] = 0]
    /\ IF loopPc \in {"init", "dead"}
       THEN UNCHANGED <<fdVars, called>>
       ELSE /\ fd' = ivlOf[w]
            /\ ready' = FALSE
            /\ skew' = 0
            /\ called' = (called \/ loopPc = "poll")
    /\ UNCHANGED <<heapVars, loopPc, loopVars, stamp, jumped>>

-----------------------------------------------------------------------------
LoopStep == PollTimer \/ PollTimeout \/ GetExpired \/ ReadTimeFd \/ ReadClock
            \/ SetTime \/ EndPass

Next ==
    \/ Tick
    \/ Fire
    \/ \E ms \in 1..MaxBack : SetBack(ms)
    \/ InitTimer
    \/ Poll
    \/ LoopStep
    \/ \E c \in Sleeper, ms \in Delays : RunAfter(c, ms)
    \/ \E w \in Waker : WakeUp(w) \/ WakerReadClock(w) \/ WakerSetTime(w)

Spec == Init /\ [][Next]_vars

\* Time passes, the loop's thread is scheduled, and its coroutines yield.
FairSpec == Spec /\ SF_vars(Tick) /\ WF_vars(Fire) /\ WF_vars(LoopStep)

-----------------------------------------------------------------------------
(* Properties.                                                             *)

\* How long c still has to sleep.
Rest(c) == Interval(left[c])

\* Unless the clock was set back, the timerfd has fired or will fire by the
\* first deadline whenever the loop is not about to set it, so that epoll_wait
\* does not sleep through a deadline whatever wakers do to the timerfd
\* (timer.cc:51-115).  The time for which the loop's thread is preempted
\* between the clock and timerfd_settime comes on top.
ArmedForEarliest ==
    ~jumped /\ sleeping # {} /\ loopPc \in {"poll", "expire", "run"} =>
      ready \/ (fd # Off /\ \A c \in sleeping : fd <= Rest(c) + skew)

\* A wakeUp that comes while the loop is in epoll_wait gets it out of there at
\* once: only a wakeUp that comes during a pass can be taken back by the loop
\* (timer.cc:65-82,112-115).
WakeUpEndsPoll == ~jumped /\ called => ready \/ fd = 0

\* Whoever sleeps is taken out of the heap in the end, whoever else sleeps,
\* however often the timerfd is set for something else, and also when the
\* clock was set back (timer.cc:51-110).
SleeperExpires == \A c \in Sleeper : c \in sleeping ~> c \notin sleeping
=============================================================================
