----------------------------- MODULE PartsProofs -----------------------------
(***************************************************************************)
(* What a processor is built from.                                         *)
(*                                                                         *)
(* timer_, for any number of coroutines and threads, any delays and any    *)
(* bounds: while the wall clock is not set back, the timerfd is set for    *)
(* the first deadline at the latest, and a wakeUp ends the epoll_wait it   *)
(* finds.                                                                  *)
(*                                                                         *)
(* coPool_, for any number of threads and blocks of any size: every node   *)
(* is in the free list once, in use or in one thread's hand, although the  *)
(* list's links are where the objects are.                                 *)
(*                                                                         *)
(* Time, for every time, however far ahead: the two loops of toLocalTime   *)
(* end where they must, the one over the months inside the table days, and *)
(* the fields of struct tm are in their ranges and those of the given      *)
(* time.                                                                   *)
(***************************************************************************)
EXTENDS Timer, Calendar, Pool, FiniteSetTheorems, WellFoundedInduction, TLAPS

\* The timerfd will end an epoll_wait by every deadline.
Armed == sleeping # {} =>
           ready \/ (fd # Off /\ \A c \in sleeping : fd <= Rest(c) + skew)

\* What wakers are about to set is now, since the clock does not go back.
WakersSetNow ==
    \A w \in Waker : /\ pc[w] = "clock" => stamp[w] <= 0
                     /\ pc[w] = "set" => ivlOf[w] = 0

\* What the loop is about to set is no later than the first deadline was when
\* it read the clock.
AboutToArm == loopPc = "set" => \A c \in sleeping : ivl <= Rest(c) + lag

\* The inductive invariant: Armed wherever the loop may be found waiting or
\* running coroutines, and what makes it so after the settings to come.
TimerInv ==
    /\ loopPc = "init" => sleeping = {}
    /\ called => loopPc = "poll"
    /\ ~jumped =>
         /\ WakersSetNow
         /\ AboutToArm
         /\ loopPc \in {"poll", "expire", "run"} => Armed
         /\ called => ready \/ fd = 0

\* The interval is what is left, and not less than nothing.
LEMMA IntervalBounds ==
    \A m \in Int : Interval(m) \in Nat /\ m <= Interval(m) /\ (m < 1 => Interval(m) = 0)
BY DEF Interval

\* An ms brings no interval down by more than 1.
LEMMA IntervalElapse ==
    \A m \in Int : /\ Elapse(m) \in Int /\ Elapse(m) <= m
                   /\ Interval(m) <= Interval(Elapse(m)) + 1
BY TimerAssumption DEF Interval, Elapse

LEMMA IntervalMonotone ==
    \A m, n \in Int : m <= n => Interval(m) <= Interval(n)
BY DEF Interval

\* Where the counters start.
LEMMA Bounds == 0 \in 0..MaxLag /\ 0 \in Nat /\ 0 \in Int /\ Timeout \in 0..Timeout
BY TimerAssumption

LEMMA TypeInit == Init => TypeOK
<1> SUFFICES ASSUME Init PROVE TypeOK
  OBVIOUS
<1>1. left \in [Sleeper -> Int] /\ stamp \in [Waker -> Int] /\ ivlOf \in [Waker -> Nat]
  BY DEF Init
<1>2. pc \in [Waker -> {"idle", "clock", "set"}]
  BY DEF Init
<1> QED
  BY <1>1, <1>2, Bounds DEF Init, TypeOK

LEMMA TypeStep == TypeOK /\ [Next]_vars => TypeOK'
<1> SUFFICES ASSUME TypeOK, [Next]_vars PROVE TypeOK'
  OBVIOUS
<1> USE TimerAssumption DEF TypeOK
<1>1. CASE Tick
  <2>1. /\ fd' \in Nat \union {Off}
        /\ lag' \in 0..MaxLag
        /\ patience' \in 0..Timeout
    BY <1>1 DEF Tick
  <2>2. left' \in [Sleeper -> Int] /\ stamp' \in [Waker -> Int]
    BY <1>1, IntervalElapse DEF Tick
  <2> QED
    BY <1>1, <2>1, <2>2 DEF Tick
<1>2. CASE Fire
  BY <1>2 DEF Fire, heapVars, loopVars, wakerVars
<1>3. ASSUME NEW ms \in 1..MaxBack, SetBack(ms) PROVE TypeOK'
  BY <1>3 DEF SetBack, fdVars, loopVars
<1>4. CASE InitTimer
  BY <1>4 DEF InitTimer, heapVars, fdVars, loopVars, wakerVars
<1>5. CASE Poll
  BY <1>5 DEF Poll, heapVars, fdVars, loopVars, wakerVars
<1>6. CASE GetExpired
  BY <1>6 DEF GetExpired, fdVars, loopVars, wakerVars
<1>7. CASE ReadTimeFd
  BY <1>7 DEF ReadTimeFd, heapVars, loopVars, wakerVars
<1>8. CASE ReadClock
  BY <1>8, IntervalBounds DEF ReadClock, heapVars, fdVars, wakerVars
<1>9. CASE SetTime
  BY <1>9, Bounds DEF SetTime, heapVars, wakerVars
<1>10. CASE EndPass
  BY <1>10 DEF EndPass, heapVars, fdVars, wakerVars
<1>11. ASSUME NEW c \in Sleeper, NEW ms \in Delays, RunAfter(c, ms) PROVE TypeOK'
  BY <1>11 DEF RunAfter, fdVars, loopVars, wakerVars
<1>12. ASSUME NEW w \in Waker, WakeUp(w) PROVE TypeOK'
  BY <1>12 DEF WakeUp, heapVars, fdVars, loopVars
<1>13. ASSUME NEW w \in Waker, WakerReadClock(w) PROVE TypeOK'
  <2>1. ivlOf' \in [Waker -> Nat]
    BY <1>13, IntervalBounds DEF WakerReadClock
  <2> QED
    BY <1>13, <2>1 DEF WakerReadClock, heapVars, fdVars, loopVars
<1>14. ASSUME NEW w \in Waker, WakerSetTime(w) PROVE TypeOK'
  <2>1. /\ fd' \in Nat \union {Off} /\ ready' \in BOOLEAN /\ called' \in BOOLEAN
        /\ skew' \in 0..MaxLag
    BY <1>14, Bounds DEF WakerSetTime, fdVars
  <2> QED
    BY <1>14, <2>1 DEF WakerSetTime, heapVars, loopVars
<1>15. CASE UNCHANGED vars
  BY <1>15 DEF vars
<1> QED
  BY <1>1, <1>2, <1>3, <1>4, <1>5, <1>6, <1>7, <1>8, <1>9, <1>10, <1>11, <1>12,
     <1>13, <1>14, <1>15
  DEF Next, LoopStep, PollTimer, PollTimeout

\* The variables keep their types (timer.cc); an interval is never negative.
THEOREM TimerTypeCorrect == Spec => []TypeOK
<1>1. Init => TypeOK
  BY TypeInit
<1>2. TypeOK /\ [Next]_vars => TypeOK'
  BY TypeStep
<1> QED
  BY <1>1, <1>2, PTL DEF Spec

-----------------------------------------------------------------------------
\* No timer is set yet.
LEMMA InvInit == Init => TimerInv
BY DEF Init, TimerInv, WakersSetNow, AboutToArm, Armed

\* An ms passes: what is left of deadlines and of the timerfd go down together.
LEMMA TickKeeps == TypeOK /\ TimerInv /\ Tick => TimerInv'
<1> SUFFICES ASSUME TypeOK, TimerInv, Tick, ~jumped
             PROVE  TimerInv'
  BY DEF Tick, TimerInv
<1> USE DEF TypeOK
<1>0. /\ loopPc' = loopPc /\ sleeping' = sleeping /\ ready' = ready
      /\ skew' = skew /\ jumped' = jumped /\ called' = called /\ ivl' = ivl
  BY DEF Tick
<1>1. \A c \in sleeping : Rest(c) <= Rest(c)' + 1 /\ Rest(c) \in Nat /\ Rest(c)' \in Nat
  BY IntervalElapse, IntervalBounds DEF Tick, Rest
<1>2. WakersSetNow'
  <2> SUFFICES ASSUME NEW w \in Waker
               PROVE /\ pc'[w] = "clock" => stamp'[w] <= 0
                     /\ pc'[w] = "set" => ivlOf'[w] = 0
    BY DEF WakersSetNow
  <2>1. Elapse(stamp[w]) <= stamp[w] /\ Elapse(stamp[w]) \in Int
    BY IntervalElapse
  <2> QED
    BY <2>1 DEF TimerInv, WakersSetNow, Tick
<1>3. AboutToArm'
  <2> SUFFICES ASSUME loopPc = "set", NEW c \in sleeping
               PROVE ivl <= Rest(c)' + lag'
    BY <1>0 DEF AboutToArm
  <2>1. ivl <= Rest(c) + lag /\ lag' = lag + 1
    BY DEF TimerInv, AboutToArm, Tick
  <2> QED
    BY <2>1, <1>1
<1>4. ASSUME loopPc \in {"poll", "expire", "run"} PROVE Armed'
  <2> SUFFICES ASSUME sleeping # {}, ~ready
               PROVE fd' # Off /\ \A c \in sleeping : fd' <= Rest(c)' + skew
    BY <1>0 DEF Armed
  <2>1. fd # Off /\ \A c \in sleeping : fd <= Rest(c) + skew
    BY <1>4 DEF TimerInv, Armed
  <2>2. fd' = fd - 1 /\ fd \in Nat \ {0}
    BY <2>1 DEF Tick
  <2>3. fd' # Off
    BY <2>2, TimerAssumption
  <2> QED
    BY <2>1, <2>2, <2>3, <1>1
<1>5. called => ready
  BY DEF TimerInv, Tick
<1> QED
  BY <1>0, <1>2, <1>3, <1>4, <1>5 DEF TimerInv

\* One step per action.
LEMMA InvStep == TypeOK /\ TimerInv /\ [Next]_vars => TimerInv'
<1> SUFFICES ASSUME TypeOK, TimerInv, [Next]_vars PROVE TimerInv'
  OBVIOUS
<1> USE DEF TypeOK
<1>1. CASE Tick
  BY <1>1, TickKeeps
<1>2. CASE Fire
  BY <1>2 DEF Fire, heapVars, loopVars, wakerVars, TimerInv, WakersSetNow,
              AboutToArm, Armed, Rest
<1>3. ASSUME NEW ms \in 1..MaxBack, SetBack(ms) PROVE TimerInv'
  BY <1>3 DEF SetBack, TimerInv
<1>4. CASE InitTimer
  BY <1>4 DEF InitTimer, heapVars, fdVars, loopVars, wakerVars, TimerInv,
              WakersSetNow, AboutToArm, Armed
<1>5. CASE Poll
  BY <1>5 DEF Poll, heapVars, fdVars, loopVars, wakerVars, TimerInv,
              WakersSetNow, AboutToArm, Armed, Rest
<1>6. CASE GetExpired
  BY <1>6 DEF GetExpired, fdVars, loopVars, wakerVars, TimerInv, WakersSetNow,
              AboutToArm
<1>7. CASE ReadTimeFd
  BY <1>7 DEF ReadTimeFd, heapVars, loopVars, wakerVars, TimerInv, WakersSetNow,
              AboutToArm, Armed
<1>8. CASE ReadClock
  <2>1. PICK c \in sleeping :
          /\ \A d \in sleeping : Sooner(left[c], left[d])
          /\ ivl' = Interval(left[c])
    BY <1>8 DEF ReadClock
  <2>2. \A d \in sleeping : ivl' <= Rest(d) /\ Rest(d) \in Nat
    BY <2>1, IntervalMonotone, IntervalBounds DEF Sooner, Rest
  <2>3. sleeping' = sleeping /\ (\A d \in sleeping : Rest(d)' = Rest(d)) /\ lag' = 0
    BY <1>8 DEF ReadClock, heapVars, Rest
  <2>4. AboutToArm'
    BY <2>2, <2>3 DEF AboutToArm
  <2> QED
    BY <1>8, <2>4 DEF ReadClock, heapVars, fdVars, wakerVars, TimerInv, WakersSetNow
<1>9. CASE SetTime
  <2>1. sleeping' = sleeping /\ \A d \in sleeping : Rest(d)' = Rest(d)
    BY <1>9 DEF SetTime, heapVars, Rest
  <2>2. ~jumped => Armed'
    BY <1>9, <2>1, TimerAssumption DEF SetTime, TimerInv, AboutToArm, Armed
  <2> QED
    BY <1>9, <2>2 DEF SetTime, heapVars, wakerVars, TimerInv, WakersSetNow, AboutToArm
<1>10. CASE EndPass
  BY <1>10 DEF EndPass, heapVars, fdVars, wakerVars, TimerInv, WakersSetNow,
               AboutToArm, Armed, Rest
<1>11. ASSUME NEW c \in Sleeper, NEW ms \in Delays, RunAfter(c, ms) PROVE TimerInv'
  <2> USE <1>11
  <2>1. CASE \A d \in sleeping : Sooner(ms, left[d])
    BY <2>1 DEF RunAfter, fdVars, loopVars, wakerVars, TimerInv, WakersSetNow,
                AboutToArm
  <2>2. ASSUME NEW d \in sleeping, ~Sooner(ms, left[d]), ~jumped PROVE Armed'
    <3>1. c # d /\ ms \in Nat /\ left[d] < ms
      BY <2>2, TimerAssumption DEF RunAfter, Sooner
    <3>2. Rest(d) <= Rest(c)' /\ Rest(d) \in Nat /\ Rest(c)' \in Nat
      BY <3>1, IntervalMonotone, IntervalBounds DEF RunAfter, Rest
    <3>3. \A e \in sleeping : Rest(e)' = Rest(e)
      BY DEF RunAfter, Rest
    <3>4. sleeping' = sleeping \union {c} /\ ready' = ready /\ fd' = fd /\ skew' = skew
      BY DEF RunAfter, fdVars
    <3>5. ready \/ (fd # Off /\ \A e \in sleeping : fd <= Rest(e) + skew)
      BY <2>2 DEF TimerInv, Armed, RunAfter
    <3> QED
      BY <3>2, <3>3, <3>4, <3>5 DEF Armed
  <2>3. CASE \E d \in sleeping : ~Sooner(ms, left[d])
    BY <2>2, <2>3 DEF RunAfter, fdVars, loopVars, wakerVars, TimerInv,
                      WakersSetNow, AboutToArm
  <2> QED
    BY <2>1, <2>3
<1>12. ASSUME NEW w \in Waker, WakeUp(w) PROVE TimerInv'
  BY <1>12 DEF WakeUp, heapVars, fdVars, loopVars, TimerInv, WakersSetNow,
               AboutToArm, Armed, Rest
<1>13. ASSUME NEW w \in Waker, WakerReadClock(w) PROVE TimerInv'
  <2>1. ~jumped => WakersSetNow'
    BY <1>13, IntervalBounds DEF WakerReadClock, TimerInv, WakersSetNow
  <2> QED
    BY <1>13, <2>1 DEF WakerReadClock, heapVars, fdVars, loopVars, TimerInv,
                       AboutToArm, Armed, Rest
<1>14. ASSUME NEW w \in Waker, WakerSetTime(w) PROVE TimerInv'
  <2>1. ~jumped => WakersSetNow'
    BY <1>14 DEF WakerSetTime, TimerInv, WakersSetNow
  <2>2. \A c \in sleeping : Rest(c) \in Nat /\ Rest(c)' = Rest(c)
    BY <1>14, IntervalBounds DEF WakerSetTime, heapVars, Rest
  <2>3. CASE loopPc \in {"init", "dead"}
    BY <1>14, <2>1, <2>3 DEF WakerSetTime, heapVars, fdVars, loopVars, TimerInv,
                             AboutToArm
  <2>4. CASE loopPc \notin {"init", "dead"}
    <3>1. ~jumped => fd' = 0 /\ skew' = 0 /\ 0 # Off
      BY <1>14, <2>4, TimerAssumption DEF WakerSetTime, TimerInv, WakersSetNow
    <3>2. ~jumped => Armed'
      BY <1>14, <2>2, <3>1 DEF WakerSetTime, heapVars, Armed
    <3> QED
      BY <1>14, <2>1, <2>2, <2>4, <3>1, <3>2
      DEF WakerSetTime, heapVars, loopVars, TimerInv, AboutToArm
  <2> QED
    BY <2>3, <2>4
<1>15. CASE UNCHANGED vars
  BY <1>15 DEF vars, TimerInv, WakersSetNow, AboutToArm, Armed, Rest
<1> QED
  BY <1>1, <1>2, <1>3, <1>4, <1>5, <1>6, <1>7, <1>8, <1>9, <1>10, <1>11, <1>12,
     <1>13, <1>14, <1>15
  DEF Next, LoopStep, PollTimer, PollTimeout

LEMMA TimerInvariance == Spec => [](TypeOK /\ TimerInv)
<1>1. Init => TypeOK /\ TimerInv
  BY TypeInit, InvInit
<1>2. TypeOK /\ TimerInv /\ [Next]_vars => (TypeOK /\ TimerInv)'
  BY TypeStep, InvStep
<1> QED
  BY <1>1, <1>2, PTL DEF Spec

\* No epoll_wait sleeps through a deadline, whatever wakers do to the timerfd
\* and whichever coroutines sleep meanwhile (timer.cc:51-115).
THEOREM NeverArmedLate == Spec => []ArmedForEarliest
<1>1. TypeOK /\ TimerInv => ArmedForEarliest
  BY DEF TimerInv, Armed, ArmedForEarliest
<1> QED
  BY <1>1, TimerInvariance, PTL

\* A wakeUp ends the epoll_wait it finds the loop in (timer.cc:112-115).
THEOREM WakeUpHeard == Spec => []WakeUpEndsPoll
<1>1. TypeOK /\ TimerInv => WakeUpEndsPoll
  BY DEF TimerInv, WakeUpEndsPoll
<1> QED
  BY <1>1, TimerInvariance, PTL

-----------------------------------------------------------------------------
(* toLocalTime.                                                            *)

LEMMA MonthFound ==
    ASSUME NEW day \in 1..365
    PROVE  \E m \in 0..11 : IsMonthOf(m, day)
<1> USE DEF IsMonthOf, daysBefore
<1>1. CASE day <= 181
  <2>1. CASE day <= 31
    BY <2>1
  <2>2. CASE 31 < day /\ day <= 59
    BY <2>2
  <2>3. CASE 59 < day /\ day <= 90
    BY <2>3
  <2>4. CASE 90 < day /\ day <= 120
    BY <2>4
  <2>5. CASE 120 < day /\ day <= 151
    BY <2>5
  <2>6. CASE 151 < day
    BY <1>1, <2>6
  <2> QED
    BY <2>1, <2>2, <2>3, <2>4, <2>5, <2>6
<1>2. CASE 181 < day
  <2>1. CASE day <= 212
    BY <1>2, <2>1
  <2>2. CASE 212 < day /\ day <= 243
    BY <2>2
  <2>3. CASE 243 < day /\ day <= 273
    BY <2>3
  <2>4. CASE 273 < day /\ day <= 304
    BY <2>4
  <2>5. CASE 304 < day /\ day <= 334
    BY <2>5
  <2>6. CASE 334 < day
    BY <2>6
  <2> QED
    BY <2>1, <2>2, <2>3, <2>4, <2>5, <2>6
<1> QED
  BY <1>1, <1>2

\* The day of the month is one that the month has, and the sum of the days
\* before it leads back to the day of the year.
LEMMA MonthAndDayInRange ==
    ASSUME NEW day \in 1..365
    PROVE  /\ MonthAndDay(day).mon \in 0..11
           /\ MonthAndDay(day).mday \in 1..DaysOf(MonthAndDay(day).mon + 1, FALSE)
           /\ daysBefore[MonthAndDay(day).mon + 1] + MonthAndDay(day).mday = day
<1> DEFINE mon == CHOOSE m \in 0..11 : IsMonthOf(m, day)
<1>1. mon \in 0..11 /\ IsMonthOf(mon, day)
  BY MonthFound
<1>2. MonthAndDay(day) = [mon |-> mon, mday |-> day - daysBefore[mon + 1]]
  BY DEF MonthAndDay
<1> HIDE DEF mon
<1>3. \A m \in 0..11 : IsMonthOf(m, day) =>
        /\ day - daysBefore[m + 1] \in 1..DaysOf(m + 1, FALSE)
        /\ daysBefore[m + 1] + (day - daysBefore[m + 1]) = day
  <2> SUFFICES ASSUME NEW m \in 0..11, IsMonthOf(m, day)
               PROVE  /\ day - daysBefore[m + 1] \in 1..DaysOf(m + 1, FALSE)
                      /\ daysBefore[m + 1] + (day - daysBefore[m + 1]) = day
    OBVIOUS
  <2> DEFINE a == daysBefore[m + 1]
             b == daysBefore[m + 2]
             d == DaysOf(m + 1, FALSE)
  <2>1. a \in Nat /\ b \in Nat /\ b - a = d /\ d \in Nat
    BY DEF daysBefore, DaysOf
  <2>2. a < day /\ day <= b
    BY DEF IsMonthOf
  <2> HIDE DEF a, b, d
  <2>3. day - a \in 1..d /\ a + (day - a) = day
    BY <2>1, <2>2
  <2> QED
    BY <2>3 DEF a, d
<1>4. MonthAndDay(day).mon = mon /\ MonthAndDay(day).mday = day - daysBefore[mon + 1]
  BY <1>2
<1>5. /\ day - daysBefore[mon + 1] \in 1..DaysOf(mon + 1, FALSE)
      /\ daysBefore[mon + 1] + (day - daysBefore[mon + 1]) = day
  BY <1>1, <1>3
<1> QED
  BY <1>1, <1>4, <1>5, Zenon

\* Every term of four years has its leap year at the third place.
LEMMA HoursOfTerm ==
    ASSUME NEW q \in Nat
    PROVE  LET first == 70 + 4 * q IN
           /\ HoursOf(first, 0) = 0
           /\ HoursOf(first, 1) = 8760
           /\ HoursOf(first, 2) = 17520
           /\ HoursOf(first, 3) = 26304
           /\ HoursOf(first, 4) = 35064
           /\ ~IsLeap(first) /\ ~IsLeap(first + 1)
           /\ IsLeap(first + 2) /\ ~IsLeap(first + 3)
<1> DEFINE first == 70 + 4 * q
<1>0. first \in Nat
  OBVIOUS
<1>1. /\ first % 4 = 2 /\ (first + 1) % 4 = 3
      /\ (first + 2) % 4 = 0 /\ (first + 3) % 4 = 1
  OBVIOUS
<1>2. /\ ~IsLeap(first) /\ ~IsLeap(first + 1)
      /\ IsLeap(first + 2) /\ ~IsLeap(first + 3)
  BY <1>1 DEF IsLeap
<1> HIDE DEF first
<1>3. /\ \A year \in first..(first + 0 - 1) : FALSE
      /\ \A year \in first..(first + 1 - 1) : year = first
      /\ \A year \in first..(first + 2 - 1) : year = first \/ year = first + 1
      /\ first + 2 \in first..(first + 3 - 1)
      /\ first + 2 \in first..(first + 4 - 1)
  BY <1>0
<1> QED
  BY <1>2, <1>3 DEF HoursOf, first

\* The loop over the years ends within the term of four years.
LEMMA YearInTerm ==
    ASSUME NEW q \in Nat, NEW rest \in Nat, rest < 35064
    PROVE  \E m \in 0..3 : IsYearOf(m, 70 + 4 * q, rest)
<1> DEFINE until(m) == HoursOf(70 + 4 * q, m)
<1>1. /\ until(0) = 0 /\ until(1) = 8760 /\ until(2) = 17520
      /\ until(3) = 26304 /\ until(4) = 35064
  BY HoursOfTerm
<1>2. \A m \in 0..3 :
        until(m) <= rest /\ rest < until(m + 1) => IsYearOf(m, 70 + 4 * q, rest)
  BY DEF IsYearOf
<1> HIDE DEF until
<1>3. \E m \in 0..3 : until(m) <= rest /\ rest < until(m + 1)
  <2>1. 0 + 1 = 1 /\ 1 + 1 = 2 /\ 2 + 1 = 3 /\ 3 + 1 = 4
    OBVIOUS
  <2>2. CASE rest < 8760
    <3>1. until(0) <= rest /\ rest < until(0 + 1)
      BY <1>1, <2>1, <2>2
    <3> QED
      BY <3>1
  <2>3. CASE 8760 <= rest /\ rest < 17520
    <3>1. until(1) <= rest /\ rest < until(1 + 1)
      BY <1>1, <2>1, <2>3
    <3> QED
      BY <3>1
  <2>4. CASE 17520 <= rest /\ rest < 26304
    <3>1. until(2) <= rest /\ rest < until(2 + 1)
      BY <1>1, <2>1, <2>4
    <3> QED
      BY <3>1
  <2>5. CASE 26304 <= rest
    <3>1. until(3) <= rest /\ rest < until(3 + 1)
      BY <1>1, <2>1, <2>5
    <3> QED
      BY <3>1
  <2> QED
    BY <2>2, <2>3, <2>4, <2>5
<1> QED
  BY <1>2, <1>3

LEMMA YearFound ==
    ASSUME NEW hours \in Nat
    PROVE  /\ YearsPast(hours) \in 0..3
           /\ IsYearOf(YearsPast(hours), FirstYear(hours), hours % (1461 * 24))
<1>1. /\ hours \div (1461 * 24) \in Nat
      /\ hours % (1461 * 24) \in Nat
      /\ hours % (1461 * 24) < 35064
  OBVIOUS
<1>2. \E m \in 0..3 : IsYearOf(m, FirstYear(hours), hours % (1461 * 24))
  BY <1>1, YearInTerm DEF FirstYear
<1> QED
  BY <1>2 DEF YearsPast

\* toLocalTime never looks past the end of days, and fills in a month, a day
\* that this month has in this year, and an hour; and they are those of the
\* given time, as the hours until then are as many (mstime.cc:64-107).
THEOREM DateInRange ==
    ASSUME NEW hours \in Nat
    PROVE  LET t == LocalDate(hours) IN
           /\ t.year - 70 \in Nat
           /\ t.mon \in 0..11
           /\ t.mday \in 1..DaysOf(t.mon + 1, IsLeap(t.year))
           /\ t.hour \in 0..23
           /\ HoursUntil(t) = hours
<1> DEFINE q     == hours \div (1461 * 24)
           rest  == hours % (1461 * 24)
           n     == YearsPast(hours)
           year  == FirstYear(hours) + n
           hour  == rest - HoursOf(FirstYear(hours), n)
           day   == 1 + hour \div 24
           month == IF IsLeap(year) THEN MonthAndDayOfLeapYear(day) ELSE MonthAndDay(day)
<1>1. q \in Nat /\ rest \in Nat /\ rest < 35064 /\ FirstYear(hours) = 70 + 4 * q
  BY DEF FirstYear
<1>2. n \in 0..3 /\ IsYearOf(n, FirstYear(hours), rest)
  BY YearFound
<1>3. LocalDate(hours) = [year |-> year, mon |-> month.mon,
                          mday |-> month.mday, hour |-> hour % 24]
  BY DEF LocalDate
<1>4. hours = 35064 * q + rest
  OBVIOUS
<1> HIDE DEF q, rest, n
<1>5. year - 70 \in Nat
  BY <1>1, <1>2
<1>6. hour \in Nat /\ hour < (IF IsLeap(year) THEN 8784 ELSE 8760)
  <2>1. CASE n = 0
    BY <1>1, <1>2, <2>1, HoursOfTerm DEF IsYearOf
  <2>2. CASE n = 1
    BY <1>1, <1>2, <2>2, HoursOfTerm DEF IsYearOf
  <2>3. CASE n = 2
    BY <1>1, <1>2, <2>3, HoursOfTerm DEF IsYearOf
  <2>4. CASE n = 3
    BY <1>1, <1>2, <2>4, HoursOfTerm DEF IsYearOf
  <2> QED
    BY <1>2, <2>1, <2>2, <2>3, <2>4
<1>7. /\ year \in Nat
      /\ hours = 24 * (365 * (year - 70) + (year - 69) \div 4) + hour
  <2>0. (1 + 4 * q) \div 4 = q /\ (2 + 4 * q) \div 4 = q
        /\ (3 + 4 * q) \div 4 = q /\ (4 + 4 * q) \div 4 = q + 1
    BY <1>1
  <2>1. CASE n = 0
    <3>1. year = 70 + 4 * q /\ hour = rest
      BY <1>1, <2>1, HoursOfTerm
    <3> HIDE DEF year, hour
    <3>2. year - 69 = 1 + 4 * q /\ year - 70 = 4 * q
      BY <1>1, <3>1
    <3> QED
      BY <1>4, <1>1, <2>0, <3>1, <3>2
  <2>2. CASE n = 1
    BY <1>4, <1>1, <2>0, <2>2, HoursOfTerm
  <2>3. CASE n = 2
    BY <1>4, <1>1, <2>0, <2>3, HoursOfTerm
  <2>4. CASE n = 3
    BY <1>4, <1>1, <2>0, <2>4, HoursOfTerm
  <2> QED
    BY <1>2, <2>1, <2>2, <2>3, <2>4
<1> HIDE DEF year, hour
<1>8. /\ hour \div 24 \in Nat /\ hour % 24 \in Nat
      /\ hour = 24 * (hour \div 24) + (hour % 24)
  <2>1. hour \in Nat
    BY <1>6
  <2> QED
    BY <2>1
<1>9. hour % 24 \in 0..23 /\ day \in 1..(IF IsLeap(year) THEN 366 ELSE 365)
  BY <1>6
<1> HIDE DEF day
<1>10. day = hour \div 24 + 1
  BY <1>8 DEF day
<1> DEFINE extra == IF month.mon > 1 /\ IsLeap(year) THEN 1 ELSE 0
<1>11. /\ month.mon \in 0..11
      /\ month.mday \in 1..DaysOf(month.mon + 1, IsLeap(year))
      /\ daysBefore[month.mon + 1] + month.mday + extra = day
  <2>1. CASE ~IsLeap(year)
    <3>1. month = MonthAndDay(day) /\ extra = 0 /\ day \in 1..365
      BY <1>9, <2>1
    <3>2. /\ month.mon \in 0..11
          /\ month.mday \in 1..DaysOf(month.mon + 1, FALSE)
          /\ daysBefore[month.mon + 1] + month.mday = day
      BY <3>1, MonthAndDayInRange
    <3> HIDE DEF month, extra
    <3> QED
      BY <2>1, <3>1, <3>2 DEF DaysOf
  <2>2. CASE IsLeap(year)
    <3>1. CASE day = 60
      <4>1. month = [mon |-> 1, mday |-> 29]
        BY <2>2, <3>1 DEF MonthAndDayOfLeapYear
      <4> HIDE DEF month
      <4> QED
        BY <2>2, <3>1, <4>1 DEF DaysOf, daysBefore
    <3>2. CASE day > 60
      <4>1. month = MonthAndDay(day - 1) /\ day - 1 \in 1..365
        BY <1>9, <2>2, <3>2 DEF MonthAndDayOfLeapYear
      <4>2. /\ month.mon \in 0..11
            /\ month.mday \in 1..DaysOf(month.mon + 1, FALSE)
            /\ daysBefore[month.mon + 1] + month.mday = day - 1
        BY <4>1, MonthAndDayInRange
      <4> HIDE DEF month
      <4>3. month.mon > 1
        <5>1. month.mon # 0
          BY <3>2, <4>1, <4>2 DEF DaysOf, daysBefore
        <5>2. month.mon # 1
          BY <3>2, <4>1, <4>2 DEF DaysOf, daysBefore
        <5> QED
          BY <4>2, <5>1, <5>2
      <4> QED
        BY <1>9, <2>2, <4>2, <4>3 DEF DaysOf, daysBefore
    <3>3. CASE day < 60
      <4>1. month = MonthAndDay(day) /\ day \in 1..365
        BY <1>9, <2>2, <3>3 DEF MonthAndDayOfLeapYear
      <4>2. /\ month.mon \in 0..11
            /\ month.mday \in 1..DaysOf(month.mon + 1, FALSE)
            /\ daysBefore[month.mon + 1] + month.mday = day
        BY <4>1, MonthAndDayInRange
      <4> HIDE DEF month
      <4>3. ~(month.mon > 1)
        <5>1. month.mon > 1 => daysBefore[month.mon + 1] >= 59
          BY <4>2 DEF daysBefore
        <5>2. month.mday \in Nat \ {0} /\ daysBefore[month.mon + 1] \in Nat
          BY <4>2 DEF DaysOf, daysBefore
        <5> QED
          BY <3>3, <4>1, <4>2, <5>1, <5>2
      <4> QED
        BY <1>9, <2>2, <4>2, <4>3 DEF DaysOf, daysBefore
    <3> HIDE DEF month, extra
    <3>4. day = 60 \/ day > 60 \/ day < 60
      BY <1>9, <2>2
    <3> QED
      BY <3>1, <3>2, <3>3, <3>4, Zenon
  <2> QED
    BY <2>1, <2>2
<1> DEFINE t == LocalDate(hours)
<1> HIDE DEF month
<1>12. t.year = year /\ t.mon = month.mon /\ t.mday = month.mday /\ t.hour = hour % 24
  BY <1>3
<1> HIDE DEF t
<1>13. HoursUntil(t) = 24 * (365 * (year - 70) + (year - 69) \div 4 + day - 1) + (hour % 24)
  <2>1. daysBefore[t.mon + 1] + t.mday + (IF t.mon > 1 /\ IsLeap(t.year) THEN 1 ELSE 0) = day
    BY <1>11, <1>12
  <2> QED
    BY <1>12, <2>1, Zenon DEF HoursUntil
<1>14. HoursUntil(t) = hours
  <2> DEFINE past == 365 * (year - 70) + (year - 69) \div 4
             d    == hour \div 24
             h    == hour % 24
  <2>1. past \in Int
    BY <1>7
  <2>2. /\ HoursUntil(t) = 24 * (past + day - 1) + h
        /\ hours = 24 * past + hour /\ hour = 24 * d + h /\ day = d + 1
        /\ d \in Nat /\ h \in Nat
    BY <1>7, <1>8, <1>10, <1>13
  <2> HIDE DEF past, d, h
  <2> QED
    BY <2>1, <2>2
<1> QED
  BY <1>5, <1>9, <1>11, <1>12, <1>14 DEF t

-----------------------------------------------------------------------------
(* coPool_.                                                                *)

Below == {p \in Nat \X Nat : p[1] < p[2]}

\* Induction, for a set of natural numbers.
LEMMA Induction ==
  ASSUME NEW P, P \subseteq Nat, 0 \in P, \A k \in P : k + 1 \in P
  PROVE  P = Nat
<1> SUFFICES ASSUME Nat \ P # {} PROVE FALSE
  OBVIOUS
<1>1. IsWellFoundedOn(Below, Nat)
  BY NatLessThanWellFounded DEF OpToRel, Below
<1>2. PICK k \in Nat \ P : \A i \in Nat \ P : <<i, k>> \notin Below
  <2>. DEFINE T == Nat \ P
  <2>1. T \subseteq Nat /\ T # {}
    OBVIOUS
  <2>. HIDE DEF T
  <2>2. \E k \in T : \A i \in T : <<i, k>> \notin Below
    BY <1>1, <2>1, WFMin
  <2>. QED  BY <2>2 DEF T
<1>3. k # 0 /\ k - 1 \in Nat /\ k - 1 < k /\ (k - 1) + 1 = k
  OBVIOUS
<1>4. k - 1 \in P
  BY <1>2, <1>3 DEF Below
<1>. QED  BY <1>2, <1>3, <1>4

\* The free list is s[0], ..., s[n - 1], and s[n] is the end.
IsFreeList(s, n) ==
    /\ s \in [0..n -> 0..made]
    /\ s[0] = head /\ s[n] = Null
    /\ \A i \in 0..n - 1 : s[i] # Null /\ mem[s[i]] = s[i + 1]
    /\ \A i, j \in 0..n - 1 : s[i] = s[j] => i = j

Nodes(s, n) == {s[i] : i \in 0..n - 1}

\* The nodes that belong in the list.
Free == {m \in 1..made : mem[m] # Data /\ \A t \in Threads : m \notin InHand(t)}

HasLock(t) == at[t] \in {"alloc", "pop", "build", "destroy", "link", "push", "unlock"}

Excluded ==
    /\ \A t \in Threads : HasLock(t) => locked
    /\ \A t, u \in Threads : HasLock(t) /\ HasLock(u) => t = u

\* What a thread does with its node.
InOrder ==
    \A t \in Threads :
      /\ at[t] \in {"build", "destroy", "link", "push"} => obj[t] # Null
      /\ at[t] = "pop" => obj[t] = head /\ head # Null
      /\ at[t] = "delete" => t = Loop /\ obj[t] \in Live
      /\ at[t] = "push" => mem[obj[t]] = head

\* The list ends, has no node twice, and has all that are free.
PoolInv ==
    /\ PoolTypeOK
    /\ Excluded
    /\ InOrder
    /\ \E n \in Nat : \E s : IsFreeList(s, n) /\ Nodes(s, n) = Free

\* There are no nodes yet.
LEMMA PoolInitInv == PoolInit => PoolInv
<1> SUFFICES ASSUME PoolInit PROVE PoolInv
  OBVIOUS
<1> USE DEF PoolInit, Null
<1>1. PoolTypeOK
  <2>1. 1..made = {} /\ mem \in [1..made -> (0..made) \union {Data}]
    OBVIOUS
  <2>2. /\ at \in [Threads -> {"idle", "new", "alloc", "pop", "build",
                               "delete", "destroy", "link", "push", "unlock"}]
        /\ locked \in BOOLEAN /\ made \in Nat /\ mallocTimes \in Nat
    OBVIOUS
  <2>3. obj \in [Threads -> 0..made] /\ head \in 0..made
    <3>1. made = 0 /\ head = 0 /\ 0 \in 0..0
      OBVIOUS
    <3>2. obj \in [Threads -> {0}]
      OBVIOUS
    <3>. QED  BY <3>1, <3>2
  <2>. QED  BY <2>1, <2>2, <2>3 DEF PoolTypeOK
<1>3. Excluded /\ InOrder
  BY DEF Excluded, InOrder, HasLock
<1>2. \E s : IsFreeList(s, 0) /\ Nodes(s, 0) = Free
  <2>. DEFINE s == [i \in 0..0 |-> 0]
  <2>1. s \in [0..0 -> 0..made] /\ s[0] = 0 /\ \A i \in 0..0 - 1 : FALSE
    OBVIOUS
  <2>2. Free = {} /\ Nodes(s, 0) = {}
    BY <2>1 DEF Free, Nodes
  <2>3. IsFreeList(s, 0)
    BY <2>1 DEF IsFreeList
  <2>. QED  BY <2>2, <2>3
<1>. QED  BY <1>1, <1>2, <1>3 DEF PoolInv

\* The first of the list is free: nobody else's, and no object.
LEMMA HeadIsFree == ASSUME PoolInv, head # Null PROVE head \in Free
<1>1. PICK n \in Nat : \E s : IsFreeList(s, n) /\ Nodes(s, n) = Free
  BY DEF PoolInv
<1>2. PICK s : IsFreeList(s, n) /\ Nodes(s, n) = Free
  BY <1>1
<1>3. n # 0 /\ s[0] = head /\ 0 \in 0..n - 1
  BY <1>2 DEF IsFreeList
<1>. QED  BY <1>2, <1>3 DEF Nodes

\* Links lead to nodes, whichever step is next.
LEMMA PoolTypesKept == ASSUME PoolInv, [PoolNext]_poolVars PROVE PoolTypeOK'
<1>1. /\ PoolTypeOK /\ made \in Nat /\ mallocTimes \in Nat /\ MallocCnt \in Nat /\ Data \notin Nat
      /\ \A t \in Threads : /\ at[t] = "pop" => head # Null
                            /\ at[t] \in {"link", "push", "build"} => obj[t] \in 1..made
  BY PoolAssumption DEF PoolInv, PoolTypeOK, InOrder, Null
<1>2. ASSUME NEW t \in Threads, NewObj(t) \/ Lock(t) \/ Unlock(t) \/ Take(t) \/ Destroy(t)
      PROVE  PoolTypeOK'
  <2>1. UNCHANGED <<made, mallocTimes, mem, head>> /\ locked' \in BOOLEAN
    BY <1>1, <1>2 DEF NewObj, Lock, Unlock, Take, Destroy, PoolTypeOK
  <2>2. \E l \in {"idle", "new", "alloc", "pop", "link", "destroy"} : at' = [at EXCEPT ![t] = l]
    BY <1>2 DEF NewObj, Lock, Unlock, Take, Destroy, Goto, Enter
  <2>3. \E m \in 0..made : obj' = obj \/ obj' = [obj EXCEPT ![t] = m]
    BY <1>1, <1>2 DEF NewObj, Lock, Unlock, Take, Destroy, PoolTypeOK, Null
  <2>. QED  BY <1>1, <2>1, <2>2, <2>3 DEF PoolTypeOK
<1>3. ASSUME NEW t \in Threads, Grow(t) PROVE PoolTypeOK'
  <2>1. /\ made' = made + MallocCnt + mallocTimes /\ mallocTimes' = mallocTimes + 1
        /\ head' = made' /\ UNCHANGED <<locked, at, obj>> /\ head = 0
        /\ mem' = [m \in 1..made' |-> CASE m <= made     -> mem[m]
                                        [] m = made + 1 -> head
                                        [] m > made + 1 -> m - 1]
    BY <1>3 DEF Grow, Null
  <2>2. made' \in Nat /\ made <= made' /\ mallocTimes' \in Nat
    BY <1>1, <2>1
  <2>3. ASSUME NEW m \in 1..made' PROVE mem'[m] \in (0..made') \union {Data}
    <3>1. CASE m <= made
      <4>1. mem[m] \in (0..made) \union {Data}
        BY <1>1, <3>1 DEF PoolTypeOK
      <4>. QED  BY <1>1, <2>1, <2>2, <3>1, <4>1
    <3>2. CASE m = made + 1
      BY <1>1, <2>1, <2>2, <3>2
    <3>3. CASE m > made + 1
      BY <1>1, <2>1, <2>2, <3>3
    <3>. QED  BY <1>1, <3>1, <3>2, <3>3
  <2>4. mem' \in [1..made' -> (0..made') \union {Data}]
    BY <2>1, <2>3
  <2>5. obj' \in [Threads -> 0..made'] /\ head' \in 0..made'
    <3>1. obj \in [Threads -> 0..made] /\ 0..made \subseteq 0..made'
      BY <1>1, <2>2 DEF PoolTypeOK
    <3>. QED  BY <2>1, <2>2, <3>1
  <2>. QED  BY <1>1, <2>1, <2>2, <2>4, <2>5 DEF PoolTypeOK
<1>4. ASSUME NEW t \in Threads, Pop(t) PROVE PoolTypeOK'
  <2>1. head' = mem[head] /\ head \in 1..made /\ UNCHANGED <<made, mallocTimes, mem, locked, obj>>
        /\ at' = [at EXCEPT ![t] = "build"]
    BY <1>1, <1>4 DEF Pop, Goto, PoolTypeOK, Null
  <2>2. mem[head] # Data
    BY <2>1, HeadIsFree DEF Free, Null
  <2>. QED  BY <1>1, <2>1, <2>2 DEF PoolTypeOK
<1>5. ASSUME NEW t \in Threads, Build(t) \/ Link(t) \/ Push(t) PROVE PoolTypeOK'
  <2>1. UNCHANGED <<made, mallocTimes, locked, obj>> /\ obj[t] \in 1..made
    BY <1>1, <1>5 DEF Build, Link, Push
  <2>2. \E l \in {"unlock", "push"} : at' = [at EXCEPT ![t] = l]
    BY <1>5 DEF Build, Link, Push, Goto
  <2>3. mem' = mem \/ \E v \in {Data, head} : mem' = [mem EXCEPT ![obj[t]] = v]
    BY <1>5 DEF Build, Link, Push
  <2>4. head' \in 0..made
    BY <1>1, <1>5, <2>1 DEF Build, Link, Push, PoolTypeOK
  <2>5. mem' \in [1..made -> (0..made) \union {Data}]
    BY <1>1, <2>1, <2>3 DEF PoolTypeOK
  <2>. QED  BY <1>1, <2>1, <2>2, <2>4, <2>5 DEF PoolTypeOK
<1>6. ASSUME NEW m \in 1..made, DeleteObj(m) PROVE PoolTypeOK'
  <2>1. /\ UNCHANGED <<made, mallocTimes, mem, head, locked>> /\ m \in 0..made
        /\ obj' = [obj EXCEPT ![Loop] = m] /\ at' = [at EXCEPT ![Loop] = "delete"]
    BY <1>1, <1>6 DEF DeleteObj, Goto
  <2>. QED  BY <1>1, <2>1 DEF PoolTypeOK
<1>7. CASE UNCHANGED poolVars
  BY <1>1, <1>7 DEF poolVars, PoolTypeOK
<1>. QED  BY <1>2, <1>3, <1>4, <1>5, <1>6, <1>7 DEF PoolNext

\* The lock: who has it, and that nobody else does.
LEMMA ExcludedKept == ASSUME PoolInv, [PoolNext]_poolVars PROVE Excluded'
<1>1. /\ at \in [Threads -> {"idle", "new", "alloc", "pop", "build",
                             "delete", "destroy", "link", "push", "unlock"}]
      /\ Loop \in Threads
      /\ \A t \in Threads : HasLock(t) => locked
      /\ \A t, u \in Threads : HasLock(t) /\ HasLock(u) => t = u
  BY DEF PoolInv, PoolTypeOK, Excluded, Threads
<1>2. ASSUME NEW t \in Threads, NEW l, at' = [at EXCEPT ![t] = l], locked' = locked,
             l \in {"alloc", "pop", "build", "destroy", "link", "push", "unlock"} => HasLock(t)
      PROVE  Excluded'
  BY <1>1, <1>2 DEF Excluded, HasLock
<1>3. ASSUME NEW t \in Threads, Lock(t) PROVE Excluded'
  <2>1. \A u \in Threads : HasLock(u)' => u = t
    BY <1>1, <1>3 DEF Lock, Enter, Goto, HasLock
  <2>. QED  BY <1>3, <2>1 DEF Lock, Excluded
<1>4. ASSUME NEW t \in Threads, Unlock(t) PROVE Excluded'
  <2>1. HasLock(t) /\ \A u \in Threads : HasLock(u)' => HasLock(u) /\ u # t
    BY <1>1, <1>4 DEF Unlock, Goto, HasLock
  <2>. QED  BY <1>1, <2>1 DEF Excluded
<1>5. ASSUME NEW t \in Threads, NewObj(t) \/ Take(t) \/ Pop(t) \/ Build(t) \/ Destroy(t) \/ Link(t) \/ Push(t)
      PROVE  Excluded'
  <2>1. locked' = locked
    BY <1>5 DEF NewObj, Take, Pop, Build, Destroy, Link, Push
  <2>2. \/ at' = [at EXCEPT ![t] = "new"]
        \/ HasLock(t) /\ \E l : at' = [at EXCEPT ![t] = l]
    BY <1>5 DEF NewObj, Take, Pop, Build, Destroy, Link, Push, Goto, HasLock
  <2>. QED  BY <1>2, <2>1, <2>2
<1>6. ASSUME NEW t \in Threads, Grow(t) PROVE Excluded'
  BY <1>1, <1>6 DEF Grow, Excluded, HasLock
<1>7. ASSUME NEW m \in 1..made, DeleteObj(m) PROVE Excluded'
  BY <1>1, <1>2, <1>7 DEF DeleteObj, Goto
<1>8. CASE UNCHANGED poolVars
  BY <1>1, <1>8 DEF poolVars, Excluded, HasLock
<1>. QED  BY <1>3, <1>4, <1>5, <1>6, <1>7, <1>8 DEF PoolNext

\* Whose hand a node is in, when only the steps and the nodes of t change.
LEMMA OthersHands ==
  ASSUME NEW t \in Threads,
         \A u \in Threads \ {t} : at'[u] = at[u] /\ obj'[u] = obj[u]
  PROVE  \A u \in Threads \ {t} : InHand(u)' = InHand(u)
BY DEF InHand

\* The object that the loop is about to delete stays one.
LEMMA LiveStays ==
  ASSUME PoolInv, NEW t \in Threads, NEW m \in Live,
         \A u \in Threads \ {t} : at'[u] = at[u] /\ obj'[u] = obj[u],
         mem'[m] = mem[m], made' \in Nat, made <= made',
         m \notin InHand(t)'
  PROVE  m \in Live'
<1>1. m \in 1..made /\ mem[m] = Data /\ \A u \in Threads : m \notin InHand(u)
  BY DEF Live
<1>2. m \in 1..made' /\ mem'[m] = Data
  BY <1>1 DEF PoolInv, PoolTypeOK
<1>3. \A u \in Threads : m \notin InHand(u)'
  BY <1>1, OthersHands
<1>. QED  BY <1>2, <1>3 DEF Live, InHand

\* What a thread may rely on.
Ordered(t) ==
    /\ at[t] \in {"build", "destroy", "link", "push"} => obj[t] # Null
    /\ at[t] = "pop" => obj[t] = head /\ head # Null
    /\ at[t] = "delete" => t = Loop /\ obj[t] \in Live
    /\ at[t] = "push" => mem[obj[t]] = head

LEMMA OrderKept == ASSUME PoolInv, [PoolNext]_poolVars PROVE InOrder'
<1>1. /\ at \in [Threads -> {"idle", "new", "alloc", "pop", "build",
                             "delete", "destroy", "link", "push", "unlock"}]
      /\ obj \in [Threads -> 0..made] /\ mem \in [1..made -> (0..made) \union {Data}]
      /\ made \in Nat /\ mallocTimes \in Nat /\ MallocCnt \in Nat \ {0}
      /\ Loop \in Threads /\ Data \notin Nat /\ Null = 0
      /\ \A t \in Threads : Ordered(t)
      /\ \A t, u \in Threads : HasLock(t) /\ HasLock(u) => t = u
  BY PoolAssumption DEF PoolInv, PoolTypeOK, Excluded, Threads, Null, InOrder, Ordered
<1>2. \A t \in Threads : at[t] = "delete" => t = Loop /\ obj[t] \in Live /\ obj[t] \notin InHand(t)
  BY <1>1 DEF Ordered, InHand
<1>3. ASSUME NEW t \in Threads, NEW u \in Threads, u # t, HasLock(t) \/ UNCHANGED <<mem, head>>,
             at'[u] = at[u], obj'[u] = obj[u], at[u] = "delete" => obj[u] \in Live'
      PROVE  Ordered(u)'
  BY <1>1, <1>2, <1>3 DEF Ordered, HasLock
<1>4. ASSUME NEW t \in Threads, HasLock(t) \/ UNCHANGED <<mem, head>>,
             \A u \in Threads \ {t} : at'[u] = at[u] /\ obj'[u] = obj[u],
             t # Loop => \A m \in Live : mem'[m] = mem[m] /\ m \notin InHand(t)',
             made' \in Nat, made <= made',
             Ordered(t)'
      PROVE  InOrder'
  <2>1. ASSUME NEW u \in Threads, u # t PROVE Ordered(u)'
    <3>1. ASSUME at[u] = "delete" PROVE obj[u] \in Live'
      <4>1. obj[u] \in Live /\ t # Loop
        BY <1>2, <2>1, <3>1
      <4>. QED  BY <1>4, <4>1, LiveStays
    <3>. QED  BY <1>3, <1>4, <2>1, <3>1
  <2>. QED  BY <1>4, <2>1 DEF InOrder, Ordered
\* Nobody takes a live node in hand but the loop, and none is written to.
<1>5. ASSUME NEW t \in Threads, NEW m \in Live
      PROVE  /\ m \notin InHand(t) /\ mem[m] = Data /\ m # head /\ m \in 1..made
             /\ at[t] \in {"build", "destroy", "link", "push"} => m # obj[t]
  <2>1. m \notin InHand(t) /\ mem[m] = Data /\ m \in 1..made
    BY <1>5 DEF Live
  <2>2. m # head
    BY <1>1, <2>1, HeadIsFree DEF Free
  <2>. QED  BY <2>1, <2>2 DEF InHand
<1>6. ASSUME NEW t \in Threads,
             NewObj(t) \/ Lock(t) \/ Unlock(t) \/ Take(t) \/ Destroy(t)
      PROVE  InOrder'
  <2>1. UNCHANGED <<made, mem, head>> /\ \A u \in Threads \ {t} : at'[u] = at[u] /\ obj'[u] = obj[u]
    BY <1>1, <1>6 DEF NewObj, Lock, Unlock, Take, Destroy, Goto, Enter
  <2>2. /\ at'[t] \in {"new", "alloc", "destroy", "idle", "pop", "link"}
        /\ at'[t] = "pop" => obj'[t] = head' /\ head' # Null
        /\ at'[t] \in {"destroy", "link"} => at[t] \in {"delete", "destroy"} /\ obj'[t] = obj[t]
    BY <1>1, <1>6, <2>1 DEF NewObj, Lock, Unlock, Take, Destroy, Goto, Enter
  <2>3. at[t] \in {"delete", "destroy"} => obj[t] # Null
    BY <1>1 DEF Ordered, Live
  <2>4. Ordered(t)'
    BY <2>2, <2>3 DEF Ordered
  <2>5. ASSUME t # Loop, NEW m \in Live PROVE mem'[m] = mem[m] /\ m \notin InHand(t)'
    BY <1>2, <1>5, <2>1, <2>2, <2>5 DEF InHand
  <2>. QED  BY <1>1, <1>4, <2>1, <2>4, <2>5
<1>7. ASSUME NEW t \in Threads, Grow(t) PROVE InOrder'
  <2>1. /\ at[t] = "alloc" /\ UNCHANGED <<at, obj>> /\ made' = made + MallocCnt + mallocTimes
        /\ \A m \in 1..made : m \in 1..made' /\ mem'[m] = mem[m]
    BY <1>1, <1>7 DEF Grow
  <2>2. made' \in Nat /\ made <= made' /\ HasLock(t)
    BY <1>1, <2>1 DEF HasLock
  <2>3. Ordered(t)' /\ \A m \in Live : mem'[m] = mem[m] /\ m \notin InHand(t)'
    BY <1>5, <2>1 DEF Ordered, InHand
  <2>. QED  BY <1>4, <2>1, <2>2, <2>3
<1>8. ASSUME NEW t \in Threads, Pop(t) \/ Build(t) \/ Link(t) \/ Push(t) PROVE InOrder'
  <2>1. /\ HasLock(t) /\ UNCHANGED <<made, obj>>
        /\ \A u \in Threads \ {t} : at'[u] = at[u]
    BY <1>1, <1>8 DEF Pop, Build, Link, Push, Goto, HasLock
  <2>2. /\ at[t] = "pop" /\ at'[t] = "build" /\ obj[t] = head /\ head # Null /\ mem' = mem
        \/ /\ at[t] \in {"build", "push"} /\ at'[t] = "unlock"
           /\ mem' = mem \/ (at[t] = "build" /\ mem' = [mem EXCEPT ![obj[t]] = Data])
        \/ /\ at[t] = "link" /\ at'[t] = "push" /\ obj[t] \in 1..made /\ head' = head
           /\ mem' = [mem EXCEPT ![obj[t]] = head]
    BY <1>1, <1>8 DEF Pop, Build, Link, Push, Goto, Ordered
  <2>3. Ordered(t)'
    BY <1>1, <2>1, <2>2 DEF Ordered
  <2>4. ASSUME NEW m \in Live PROVE mem'[m] = mem[m] /\ m \notin InHand(t)'
    BY <1>1, <1>5, <2>1, <2>2 DEF InHand
  <2>. QED  BY <1>1, <1>4, <2>1, <2>3, <2>4
<1>9. ASSUME NEW m \in 1..made, DeleteObj(m) PROVE InOrder'
  <2>1. /\ UNCHANGED <<made, mem, head>> /\ m \in Live
        /\ at'[Loop] = "delete" /\ obj'[Loop] = m
        /\ \A u \in Threads \ {Loop} : at'[u] = at[u] /\ obj'[u] = obj[u]
    BY <1>1, <1>9 DEF DeleteObj, Goto
  <2>2. m \in Live'
    BY <1>1, <2>1, LiveStays DEF InHand
  <2>3. Ordered(Loop)'
    BY <2>1, <2>2 DEF Ordered
  <2>. QED  BY <1>1, <1>4, <2>1, <2>3
<1>10. CASE UNCHANGED poolVars
  <2>1. Live' = Live
    BY <1>10 DEF poolVars, Live, InHand
  <2>. QED  BY <1>1, <1>10, <2>1 DEF poolVars, InOrder, Ordered
<1>. QED  BY <1>6, <1>7, <1>8, <1>9, <1>10 DEF PoolNext

\* Steps that leave the links of the free nodes alone.
LEMMA SameList ==
  ASSUME NEW n \in Nat, NEW s, IsFreeList(s, n), Nodes(s, n) = Free,
         made' = made, head' = head, Free' = Free, \A m \in Free : mem'[m] = mem[m]
  PROVE  IsFreeList(s, n)' /\ Nodes(s, n)' = Free'
<1>1. \A i \in 0..n - 1 : s[i] \in Free
  BY DEF Nodes
<1>. QED  BY <1>1 DEF IsFreeList, Nodes

\* Which nodes are free, when only t does something.
LEMMA FreeAgain ==
  ASSUME NEW t \in Threads, made' = made,
         \A u \in Threads \ {t} : at'[u] = at[u] /\ obj'[u] = obj[u],
         NEW m \in 1..made
  PROVE  m \in Free' <=> mem'[m] # Data /\ m \notin InHand(t)' /\
                         \A u \in Threads \ {t} : m \notin InHand(u)
<1>1. \A u \in Threads \ {t} : InHand(u)' = InHand(u)
  BY OthersHands
<1>2. m \in Free' <=> mem'[m] # Data /\ m \notin InHand(t)' /\
                      \A u \in Threads \ {t} : m \notin InHand(u)'
  BY DEF Free, InHand
<1>. QED  BY <1>1, <1>2

\* The list after a step: it is as before, has grown from nothing, has lost its
\* first node, or has a new one.
LEMMA ListKept ==
  ASSUME PoolInv, [PoolNext]_poolVars
  PROVE  \E n \in Nat : \E s : IsFreeList(s, n)' /\ Nodes(s, n)' = Free'
<1>1. PICK n \in Nat : \E s : IsFreeList(s, n) /\ Nodes(s, n) = Free
  BY DEF PoolInv
<1>2. PICK s : IsFreeList(s, n) /\ Nodes(s, n) = Free
  BY <1>1
<1>3. /\ at \in [Threads -> {"idle", "new", "alloc", "pop", "build",
                             "delete", "destroy", "link", "push", "unlock"}]
      /\ obj \in [Threads -> 0..made] /\ mem \in [1..made -> (0..made) \union {Data}]
      /\ made \in Nat /\ mallocTimes \in Nat /\ MallocCnt \in Nat \ {0} /\ head \in 0..made
      /\ Loop \in Threads /\ Data \notin Nat /\ Null = 0
  BY PoolAssumption DEF PoolInv, PoolTypeOK, Threads, Null
<1>4. ASSUME NEW t \in Threads, made' = made, head' = head,
             \A u \in Threads \ {t} : at'[u] = at[u] /\ obj'[u] = obj[u],
             \A m \in 1..made : mem'[m] # Data /\ m \notin InHand(t)' <=>
                                mem[m] # Data /\ m \notin InHand(t),
             \A m \in Free : mem'[m] = mem[m]
      PROVE  \E n1 \in Nat : \E s1 : IsFreeList(s1, n1)' /\ Nodes(s1, n1)' = Free'
  <2>1. \A m \in 1..made : m \in Free' <=> m \in Free
    BY <1>4, FreeAgain DEF Free
  <2>2. Free' \subseteq 1..made /\ Free \subseteq 1..made
    BY <1>4 DEF Free
  <2>3. Free' = Free
    BY <2>1, <2>2
  <2>. QED  BY <1>2, <1>4, <2>3, SameList
<1>5. ASSUME NEW t \in Threads, NewObj(t) \/ Lock(t) \/ Unlock(t) \/ Take(t) \/ Destroy(t)
      PROVE  \E n1 \in Nat : \E s1 : IsFreeList(s1, n1)' /\ Nodes(s1, n1)' = Free'
  <2>1. UNCHANGED <<made, mem, head>> /\ \A u \in Threads \ {t} : at'[u] = at[u] /\ obj'[u] = obj[u]
    BY <1>3, <1>5 DEF NewObj, Lock, Unlock, Take, Destroy, Goto, Enter
  <2>2. \/ at[t] = "delete" /\ at'[t] = "destroy" /\ obj'[t] = obj[t] /\ obj[t] \in Live
        \/ at[t] = "destroy" /\ at'[t] = "link" /\ obj'[t] = obj[t]
        \/ /\ at[t] \in {"idle", "new", "unlock", "alloc"}
           /\ at'[t] \in {"new", "alloc", "idle", "pop"}
    BY <1>3, <1>5 DEF NewObj, Lock, Unlock, Take, Destroy, Goto, Enter, PoolInv, InOrder
  <2>3. ASSUME NEW m \in 1..made
        PROVE  mem'[m] # Data /\ m \notin InHand(t)' <=> mem[m] # Data /\ m \notin InHand(t)
    BY <2>1, <2>2 DEF InHand, Live
  <2>. QED  BY <1>4, <2>1, <2>3
<1>6. ASSUME NEW m \in 1..made, DeleteObj(m)
      PROVE  \E n1 \in Nat : \E s1 : IsFreeList(s1, n1)' /\ Nodes(s1, n1)' = Free'
  <2>1. /\ UNCHANGED <<made, mem, head>> /\ at[Loop] = "idle" /\ at'[Loop] = "delete"
        /\ \A u \in Threads \ {Loop} : at'[u] = at[u] /\ obj'[u] = obj[u]
    BY <1>3, <1>6 DEF DeleteObj, Goto
  <2>2. InHand(Loop) = {} /\ InHand(Loop)' = {}
    BY <2>1 DEF InHand
  <2>. QED  BY <1>3, <1>4, <2>1, <2>2
<1>7. ASSUME NEW t \in Threads, Build(t) \/ Link(t)
      PROVE  \E n1 \in Nat : \E s1 : IsFreeList(s1, n1)' /\ Nodes(s1, n1)' = Free'
  <2>1. /\ UNCHANGED <<made, head, obj>> /\ \A u \in Threads \ {t} : at'[u] = at[u]
        /\ InHand(t) = {obj[t]}
        /\ \A m \in 1..made : m # obj[t] => mem'[m] = mem[m]
    BY <1>3, <1>7 DEF Build, Link, Goto, InHand
  <2>2. \/ InHand(t)' = {obj[t]}
        \/ InHand(t)' = {} /\ (obj[t] \in 1..made => mem'[obj[t]] = Data)
    BY <1>3, <1>7 DEF Build, Link, Goto, InHand
  <2>3. ASSUME NEW m \in 1..made
        PROVE  mem'[m] # Data /\ m \notin InHand(t)' <=> mem[m] # Data /\ m \notin InHand(t)
    BY <2>1, <2>2
  <2>4. \A m \in Free : mem'[m] = mem[m]
    BY <2>1 DEF Free
  <2>. QED  BY <1>4, <2>1, <2>3, <2>4

<1>8. ASSUME NEW t \in Threads, Grow(t)
      PROVE  \E n1 \in Nat : \E s1 : IsFreeList(s1, n1)' /\ Nodes(s1, n1)' = Free'
  <2>01. PICK c : c = MallocCnt + mallocTimes
    OBVIOUS
  <2>02. PICK s1 : s1 = [i \in 0..c |-> IF i < c THEN made' - i ELSE 0]
    OBVIOUS
  <2>1. /\ made' = made + c /\ c \in Nat \ {0} /\ head = 0 /\ head' = made' /\ UNCHANGED <<at, obj>>
        /\ at[t] = "alloc"
        /\ mem' = [m \in 1..made' |-> CASE m <= made     -> mem[m]
                                        [] m = made + 1 -> head
                                        [] m > made + 1 -> m - 1]
    BY <1>3, <1>8, <2>01 DEF Grow
  <2>2. /\ made \in Nat /\ c \in Nat \ {0} /\ made' \in Nat /\ made' = made + c
        /\ \A i \in 0..c : s1[i] = IF i < c THEN made' - i ELSE 0
    BY <1>3, <2>02, <2>1
  <2>3. /\ \A m \in 1..made : m \in 1..made' /\ mem'[m] = mem[m]
        /\ made + 1 \in 1..made' /\ mem'[made + 1] = 0
        /\ \A m \in 1..made' : m > made + 1 => mem'[m] = m - 1
    BY <2>1, <2>2
  <2>4. \A u \in Threads : InHand(u) = {} /\ InHand(u)' = {}
    <3>1. \A u \in Threads : HasLock(u) => u = t
      BY <2>1 DEF PoolInv, Excluded, HasLock
    <3>. QED  BY <2>1, <3>1 DEF InHand, HasLock
  <2>5. Free = {}
    <3>1. n = 0
      BY <1>2, <1>3, <2>1 DEF IsFreeList
    <3>. QED  BY <1>2, <3>1 DEF Nodes
  <2>6. \A m \in 1..made : mem'[m] = Data
    BY <2>3, <2>4, <2>5 DEF Free
  <2>7. Free' = made + 1..made'
    <3>1. \A m \in 1..made' : m \in Free' <=> mem'[m] # Data
      BY <2>4 DEF Free
    <3>2. ASSUME NEW m \in 1..made' PROVE mem'[m] # Data <=> m \in made + 1..made'
      <4>1. m \in 1..made \/ m = made + 1 \/ m > made + 1
        BY <2>2
      <4>2. mem'[m] # Data <=> m \notin 1..made
        <5>1. CASE m \in 1..made
          BY <2>6, <5>1
        <5>2. CASE m = made + 1
          BY <1>3, <2>2, <2>3, <5>2
        <5>3. CASE m > made + 1
          BY <1>3, <2>2, <2>3, <5>3
        <5>. QED  BY <4>1, <5>1, <5>2, <5>3
      <4>. QED  BY <2>2, <4>2
    <3>3. Free' \subseteq 1..made' /\ made + 1..made' \subseteq 1..made'
      BY <2>2 DEF Free
    <3>. QED  BY <3>1, <3>2, <3>3
  <2>8. Nodes(s1, c)' = made + 1..made'
    <3>1. ASSUME NEW i \in 0..c - 1 PROVE s1[i] \in made + 1..made'
      BY <2>2
    <3>2. ASSUME NEW m \in made + 1..made' PROVE \E i \in 0..c - 1 : s1[i] = m
      <4>1. /\ made' - m \in 0..c - 1 /\ made' - m \in 0..c /\ made' - m < c
            /\ made' - (made' - m) = m
        BY <2>2
      <4>2. s1[made' - m] = made' - (made' - m)
        BY <2>2, <4>1
      <4>. QED  BY <4>1, <4>2
    <3>. QED  BY <3>1, <3>2 DEF Nodes
  <2>9. IsFreeList(s1, c)'
    <3>1. s1 \in [0..c -> 0..made']
      <4>1. ASSUME NEW i \in 0..c PROVE s1[i] \in 0..made'
        BY <2>2
      <4>. QED  BY <2>02, <4>1
    <3>2. s1[0] = head' /\ s1[c] = 0
      BY <2>1, <2>2
    <3>3. ASSUME NEW i \in 0..c - 1 PROVE s1[i] # 0 /\ mem'[s1[i]] = s1[i + 1]
      <4>1. s1[i] = made' - i /\ made' - i \in 1..made' /\ i + 1 \in 0..c
        BY <2>2
      <4>2. CASE i + 1 < c
        <5>1. made' - i > made + 1 /\ s1[i + 1] = made' - (i + 1)
              /\ made' - (i + 1) = (made' - i) - 1
          BY <2>2, <4>1, <4>2
        <5>. QED  BY <2>2, <2>3, <4>1, <5>1
      <4>3. CASE i + 1 = c
        <5>1. made' - i = made + 1 /\ s1[i + 1] = 0
          BY <2>2, <4>1, <4>3
        <5>. QED  BY <2>2, <2>3, <4>1, <5>1
      <4>. QED  BY <2>2, <4>2, <4>3
    <3>4. ASSUME NEW i \in 0..c - 1, NEW j \in 0..c - 1, s1[i] = s1[j] PROVE i = j
      BY <2>2, <3>4
    <3>. QED  BY <1>3, <3>1, <3>2, <3>3, <3>4 DEF IsFreeList
  <2>. QED  BY <2>2, <2>7, <2>8, <2>9
<1>9. ASSUME NEW t \in Threads, Pop(t)
      PROVE  \E n1 \in Nat : \E s1 : IsFreeList(s1, n1)' /\ Nodes(s1, n1)' = Free'
  <2>0. PICK s1 : s1 = [i \in 0..n - 1 |-> s[i + 1]]
    OBVIOUS
  <2>1. /\ at[t] = "pop" /\ head # 0 /\ obj[t] = head /\ at'[t] = "build"
        /\ head' = mem[head] /\ UNCHANGED <<made, mem, obj>>
        /\ \A u \in Threads \ {t} : at'[u] = at[u] /\ obj'[u] = obj[u]
    BY <1>3, <1>9 DEF Pop, Goto, PoolInv, InOrder
  <2>2. n - 1 \in Nat /\ s[0] = head /\ mem[head] = s[1] /\ 0 \in 0..n - 1
    <3>1. n # 0 /\ s[0] = head
      BY <1>2, <1>3, <2>1 DEF IsFreeList
    <3>2. 0 \in 0..n - 1 /\ 0 + 1 = 1 /\ n - 1 \in Nat
      BY <3>1
    <3>3. mem[s[0]] = s[0 + 1]
      BY <1>2, <3>2 DEF IsFreeList
    <3>. QED  BY <3>1, <3>2, <3>3
  <2>3. Free' = Free \ {head}
    <3>1. InHand(t) = {} /\ InHand(t)' = {head}
      BY <2>1 DEF InHand
    <3>2. \A m \in 1..made : m \in Free' <=> m \in Free /\ m # head
      BY <2>1, <3>1, FreeAgain DEF Free
    <3>3. Free' \subseteq 1..made /\ Free \subseteq 1..made
      BY <2>1 DEF Free
    <3>. QED  BY <3>2, <3>3
  <2>4. Nodes(s1, n - 1)' = Free \ {head}
    <3>1. ASSUME NEW i \in 0..(n - 1) - 1 PROVE s1[i] \in Free \ {head}
      <4>1. i \in 0..n - 1 /\ i + 1 \in 0..n - 1 /\ i + 1 # 0
        BY <2>2
      <4>. QED  BY <1>2, <2>0, <2>2, <4>1 DEF IsFreeList, Nodes
    <3>2. ASSUME NEW m \in Free \ {head} PROVE \E i \in 0..(n - 1) - 1 : s1[i] = m
      <4>1. PICK i \in 0..n - 1 : s[i] = m
        BY <1>2 DEF Nodes
      <4>2. i - 1 \in 0..(n - 1) - 1 /\ (i - 1) + 1 = i /\ i - 1 \in 0..n - 1
        BY <2>2, <4>1
      <4>. QED  BY <2>0, <4>1, <4>2
    <3>. QED  BY <3>1, <3>2 DEF Nodes
  <2>5. IsFreeList(s1, n - 1)'
    <3>1. ASSUME NEW i \in 0..n - 1 PROVE s1[i] = s[i + 1] /\ i + 1 \in 0..n
      BY <2>0, <2>2
    <3>2. s1 \in [0..n - 1 -> 0..made']
      BY <1>2, <2>0, <2>1, <3>1 DEF IsFreeList
    <3>3. s1[0] = head' /\ s1[n - 1] = 0
      <4>1. s1[0] = s[0 + 1] /\ s1[n - 1] = s[(n - 1) + 1] /\ (n - 1) + 1 = n
        BY <2>2, <3>1
      <4>. QED  BY <1>2, <1>3, <2>1, <2>2, <4>1 DEF IsFreeList
    <3>4. ASSUME NEW i \in 0..(n - 1) - 1 PROVE s1[i] # 0 /\ mem'[s1[i]] = s1[i + 1]
      <4>1. i \in 0..n - 1 /\ i + 1 \in 0..n - 1
        BY <2>2
      <4>2. s1[i] = s[i + 1] /\ s1[i + 1] = s[(i + 1) + 1]
        BY <3>1, <4>1
      <4>. QED  BY <1>2, <1>3, <2>1, <4>1, <4>2 DEF IsFreeList
    <3>5. ASSUME NEW i \in 0..(n - 1) - 1, NEW j \in 0..(n - 1) - 1, s1[i] = s1[j] PROVE i = j
      <4>1. /\ i \in 0..n - 1 /\ j \in 0..n - 1
            /\ i + 1 \in 0..n - 1 /\ j + 1 \in 0..n - 1
        BY <2>2
      <4>2. i + 1 = j + 1
        BY <1>2, <3>1, <3>5, <4>1 DEF IsFreeList
      <4>. QED  BY <2>2, <4>2
    <3>. QED  BY <1>3, <3>2, <3>3, <3>4, <3>5 DEF IsFreeList
  <2>. QED  BY <2>2, <2>3, <2>4, <2>5
<1>10. ASSUME NEW t \in Threads, Push(t)
       PROVE  \E n1 \in Nat : \E s1 : IsFreeList(s1, n1)' /\ Nodes(s1, n1)' = Free'
  <2>0. PICK s1 : s1 = [i \in 0..n + 1 |-> IF i = 0 THEN obj[t] ELSE s[i - 1]]
    OBVIOUS
  <2>1. /\ at[t] = "push" /\ mem[obj[t]] = head /\ obj[t] \in 1..made /\ at'[t] = "unlock"
        /\ head' = obj[t] /\ UNCHANGED <<made, mem, obj>>
        /\ \A u \in Threads \ {t} : at'[u] = at[u] /\ obj'[u] = obj[u]
    BY <1>3, <1>10 DEF Push, Goto, PoolInv, InOrder
  <2>2. InHand(t) = {obj[t]} /\ InHand(t)' = {}
    BY <2>1 DEF InHand
  <2>3. obj[t] \notin Free
    BY <2>2 DEF Free
  <2>4. Free' = Free \union {obj[t]}
    <3>1. \A u \in Threads \ {t} : obj[t] \notin InHand(u)
      BY <2>1 DEF PoolInv, Excluded, HasLock, InHand
    <3>2. ASSUME NEW m \in 1..made PROVE m \in Free' <=> m \in Free \/ m = obj[t]
      <4>1. m \in Free' <=> mem[m] # Data /\ \A u \in Threads \ {t} : m \notin InHand(u)
        BY <2>1, <2>2, FreeAgain
      <4>2. m \in Free <=> mem[m] # Data /\ m # obj[t] /\ \A u \in Threads \ {t} : m \notin InHand(u)
        BY <2>2 DEF Free
      <4>3. mem[obj[t]] # Data
        BY <1>3, <2>1
      <4>. QED  BY <3>1, <4>1, <4>2, <4>3
    <3>3. Free' \subseteq 1..made /\ Free \subseteq 1..made
      BY <2>1 DEF Free
    <3>. QED  BY <2>1, <3>2, <3>3
  <2>5. /\ s1[0] = obj[t] /\ n + 1 \in Nat
        /\ \A i \in 1..n + 1 : s1[i] = s[i - 1] /\ i - 1 \in 0..n
        /\ \A i \in 1..n : i - 1 \in 0..n - 1
    BY <2>0
  <2>6. s1 \in [0..n + 1 -> 0..made]
    <3>1. ASSUME NEW i \in 0..n + 1 PROVE s1[i] \in 0..made
      <4>1. CASE i = 0
        BY <1>3, <2>1, <2>5, <4>1
      <4>2. CASE i # 0
        BY <1>2, <2>5, <4>2 DEF IsFreeList
      <4>. QED  BY <4>1, <4>2
    <3>. QED  BY <2>0, <3>1
  <2>7. Nodes(s1, n + 1)' = Free \union {obj[t]}
    <3>1. ASSUME NEW i \in 0..(n + 1) - 1 PROVE s1[i] \in Free \union {obj[t]}
      <4>1. i = 0 \/ i \in 1..n
        OBVIOUS
      <4>. QED  BY <1>2, <2>5, <4>1 DEF Nodes
    <3>2. ASSUME NEW m \in Free PROVE \E i \in 0..(n + 1) - 1 : s1[i] = m
      <4>1. PICK i \in 0..n - 1 : s[i] = m
        BY <1>2 DEF Nodes
      <4>2. i + 1 \in 0..(n + 1) - 1 /\ i + 1 \in 1..n + 1 /\ (i + 1) - 1 = i
        BY <4>1
      <4>. QED  BY <2>5, <4>1, <4>2
    <3>3. 0 \in 0..(n + 1) - 1
      OBVIOUS
    <3>. QED  BY <2>5, <3>1, <3>2, <3>3 DEF Nodes
  <2>8. IsFreeList(s1, n + 1)'
    <3>1. s1[0] = head' /\ s1[n + 1] = 0
      BY <1>2, <1>3, <2>1, <2>5 DEF IsFreeList
    <3>2. ASSUME NEW i \in 0..(n + 1) - 1 PROVE s1[i] # 0 /\ mem'[s1[i]] = s1[i + 1]
      <4>1. CASE i = 0
        <5>1. s1[i + 1] = s[0] /\ s[0] = head
          BY <1>2, <2>5, <4>1 DEF IsFreeList
        <5>. QED  BY <1>3, <2>1, <2>5, <4>1, <5>1
      <4>2. CASE i # 0
        <5>1. i \in 1..n /\ i \in 1..n + 1 /\ i + 1 \in 1..n + 1
              /\ (i + 1) - 1 = i /\ (i - 1) + 1 = i
          BY <4>2
        <5>2. s1[i] = s[i - 1] /\ s1[i + 1] = s[i] /\ i - 1 \in 0..n - 1
          BY <2>5, <5>1
        <5>3. s[i - 1] # 0 /\ mem[s[i - 1]] = s[(i - 1) + 1]
          BY <1>2, <1>3, <5>2 DEF IsFreeList
        <5>. QED  BY <2>1, <5>1, <5>2, <5>3
      <4>. QED  BY <4>1, <4>2
    <3>3. ASSUME NEW i \in 0..(n + 1) - 1, NEW j \in 0..(n + 1) - 1, s1[i] = s1[j] PROVE i = j
      <4>1. \A k \in 0..(n + 1) - 1 : k # 0 => /\ k \in 1..n /\ k \in 1..n + 1 /\ k - 1 \in 0..n - 1
                                               /\ s1[k] = s[k - 1]
        BY <2>5
      <4>2. \A k \in 0..(n + 1) - 1 : k # 0 => s1[k] # obj[t]
        BY <1>2, <2>3, <4>1 DEF Nodes
      <4>3. CASE i = 0 \/ j = 0
        BY <2>5, <3>3, <4>2, <4>3
      <4>4. CASE i # 0 /\ j # 0
        <5>1. i - 1 = j - 1
          BY <1>2, <3>3, <4>1, <4>4 DEF IsFreeList
        <5>. QED  BY <5>1
      <4>. QED  BY <4>3, <4>4
    <3>. QED  BY <1>3, <2>1, <2>6, <3>1, <3>2, <3>3 DEF IsFreeList
  <2>. QED  BY <2>4, <2>5, <2>7, <2>8
<1>11. CASE UNCHANGED poolVars
  <2>1. Free' = Free
    BY <1>11 DEF poolVars, Free, InHand
  <2>. QED  BY <1>2, <1>11, <2>1, SameList DEF poolVars
<1>. QED  BY <1>5, <1>6, <1>7, <1>8, <1>9, <1>10, <1>11 DEF PoolNext

-----------------------------------------------------------------------------
\* The inductive invariant of the pool.
THEOREM PoolInvariance == PoolSpec => []PoolInv
<1>1. PoolInv /\ [PoolNext]_poolVars => PoolInv'
  BY PoolTypesKept, ExcludedKept, OrderKept, ListKept DEF PoolInv
<1>. QED  BY PoolInitInv, <1>1, PTL DEF PoolSpec

\* The links stay links to nodes there are, or the first bytes of an object.
THEOREM PoolTypeCorrect == PoolSpec => []PoolTypeOK
<1>1. PoolInv => PoolTypeOK
  BY DEF PoolInv
<1>. QED  BY PoolInvariance, <1>1, PTL

\* Nth follows the links: by induction over the list.
LEMMA NthOfList ==
  ASSUME PoolTypeOK, NEW n \in Nat, NEW s, IsFreeList(s, n)
  PROVE  \A k \in Nat : Nth[k] = IF k <= n THEN s[k] ELSE Null
<1>. DEFINE list == [k \in Nat |-> IF k <= n THEN s[k] ELSE Null]
            After(m) == IF m \in DOMAIN mem THEN mem[m] ELSE Null
<1>1. DOMAIN mem = 1..made /\ made \in Nat /\ Null = 0
  BY DEF PoolTypeOK, Null
<1>2. ASSUME NEW k \in Nat
      PROVE  list[k] = IF k = 0 THEN head ELSE After(list[k - 1])
  <2>1. CASE k = 0
    BY <2>1 DEF IsFreeList
  <2>2. CASE k # 0 /\ k <= n
    <3>1. k - 1 \in Nat /\ k - 1 <= n /\ k - 1 \in 0..n - 1 /\ (k - 1) + 1 = k /\ k - 1 \in 0..n
      BY <2>2
    <3>2. s[k - 1] \in 1..made /\ mem[s[k - 1]] = s[k]
      BY <1>1, <3>1 DEF IsFreeList
    <3>3. list[k - 1] = s[k - 1] /\ list[k] = s[k]
      BY <2>2, <3>1
    <3>. QED  BY <1>1, <2>2, <3>2, <3>3
  <2>3. CASE k > n
    <3>1. k # 0 /\ k - 1 \in Nat /\ (k - 1 <= n => k - 1 = n)
      BY <2>3
    <3>2. list[k - 1] = Null /\ list[k] = Null
      <4>1. list[k] = Null
        BY <2>3
      <4>2. list[k - 1] = IF k - 1 <= n THEN s[k - 1] ELSE Null
        BY <3>1
      <4>3. s[n] = Null
        BY DEF IsFreeList
      <4>. QED  BY <3>1, <4>1, <4>2, <4>3
    <3>. QED  BY <1>1, <3>1, <3>2
  <2>. QED  BY <2>1, <2>2, <2>3
<1>3. list = [k \in Nat |-> IF k = 0 THEN head ELSE After(list[k - 1])]
  <2>1. \A k \in Nat : list[k] = IF k = 0 THEN head ELSE After(list[k - 1])
    BY <1>2
  <2>2. list = [k \in Nat |-> list[k]]
    OBVIOUS
  <2>. HIDE DEF list, After
  <2>. QED  BY <2>1, <2>2
<1>4. Nth = [k \in Nat |-> IF k = 0 THEN head ELSE After(Nth[k - 1])]
  <2>. HIDE DEF list
  <2>. QED  BY <1>3 DEF Nth
<1>. DEFINE P == {k \in Nat : Nth[k] = list[k]}
<1>5. P = Nat
  <2>1. 0 \in P
    BY <1>2, <1>4
  <2>2. ASSUME NEW k \in P PROVE k + 1 \in P
    <3>1. k \in Nat /\ k + 1 \in Nat /\ (k + 1) - 1 = k /\ k + 1 # 0 /\ Nth[k] = list[k]
      BY <2>2
    <3>2. Nth[k + 1] = After(Nth[k]) /\ list[k + 1] = After(list[k])
      <4>. HIDE DEF list, After
      <4>. QED  BY <1>2, <1>4, <3>1
    <3>. HIDE DEF list, After
    <3>. QED  BY <3>1, <3>2
  <2>. HIDE DEF list
  <2>3. P \subseteq Nat
    OBVIOUS
  <2>. HIDE DEF P
  <2>. QED  BY <2>1, <2>2, <2>3, Induction
<1>. QED  BY <1>5

\* The list is not longer than there are nodes.
LEMMA ListFits ==
  ASSUME PoolTypeOK, NEW n \in Nat, NEW s, IsFreeList(s, n)
  PROVE  n <= made
<1>. DEFINE S == 0..n - 1
            f == [i \in S |-> s[i]]
<1>1. made \in Nat /\ Null = 0
  BY DEF PoolTypeOK, Null
<1>2. \A i \in S : s[i] \in 1..made
  BY <1>1 DEF IsFreeList
<1>3. f \in Injection(S, 1..made)
  BY <1>2 DEF Injection, IsInjective, IsFreeList
<1>4. /\ IsFiniteSet(1..made) /\ Cardinality(1..made) = made
      /\ Cardinality(S) = n
  <2>1. Cardinality(1..made) = (IF 1 > made THEN 0 ELSE made - 1 + 1) /\ IsFiniteSet(1..made)
    BY <1>1, FS_Interval
  <2>2. Cardinality(S) = IF 0 > n - 1 THEN 0 ELSE (n - 1) - 0 + 1
    BY FS_Interval
  <2>. QED  BY <1>1, <2>1, <2>2
<1>. HIDE DEF S, f
<1>5. Cardinality(S) <= Cardinality(1..made)
  BY <1>3, <1>4, FS_Injection
<1>. QED  BY <1>4, <1>5

\* Every node is in one place, for any number of threads, any sizes of the
\* blocks and any bound (mempool.h:79-114, processor.cc:188-196, 233-250).
THEOREM NoNodeTwice == PoolSpec => []EachNodeOnce
<1>1. ASSUME PoolInv, NEW m \in 1..made
      PROVE  Cardinality(   {<<"list", k>> : k \in {k \in 0..made : Nth[k] = m}}
                     \union {<<"live", x>> : x \in {m} \cap Live}
                     \union {<<"hand", t>> : t \in {t \in Threads : m \in InHand(t)}}) = 1
  <2>. DEFINE A == {<<"list", k>> : k \in {k \in 0..made : Nth[k] = m}}
              B == {<<"live", x>> : x \in {m} \cap Live}
              C == {<<"hand", t>> : t \in {t \in Threads : m \in InHand(t)}}
  <2>1. PICK n \in Nat : \E s : IsFreeList(s, n) /\ Nodes(s, n) = Free
    BY <1>1 DEF PoolInv
  <2>2. PICK s : IsFreeList(s, n) /\ Nodes(s, n) = Free
    BY <2>1
  <2>3. made \in Nat /\ n <= made /\ m # Null
    BY <1>1, <2>2, ListFits DEF PoolInv, PoolTypeOK, Null
  <2>4. \A k \in Nat : Nth[k] = m <=> k \in 0..n - 1 /\ s[k] = m
    <3>1. \A k \in Nat : Nth[k] = IF k <= n THEN s[k] ELSE Null
      BY <1>1, <2>2, NthOfList DEF PoolInv
    <3>2. s[n] = Null
      BY <2>2 DEF IsFreeList
    <3>3. ASSUME NEW k \in Nat PROVE k \in 0..n - 1 <=> k <= n /\ k # n
      OBVIOUS
    <3>. QED  BY <2>3, <3>1, <3>2, <3>3
  <2>5. m \in Free <=> \E k \in 0..n - 1 : s[k] = m
    BY <2>2 DEF Nodes
  <2>6. \A t, u \in Threads : m \in InHand(t) /\ m \in InHand(u) => t = u
    BY <1>1 DEF PoolInv, Excluded, HasLock, InHand
  <2>7. \E p : A \union B \union C = {p}
    <3>1. CASE m \in Free
      <4>1. PICK k \in 0..n - 1 : s[k] = m
        BY <2>5, <3>1
      <4>2. k \in 0..made /\ k \in Nat /\ 0..made \subseteq Nat
        BY <2>3
      <4>3. \A j \in 0..n - 1 : s[j] = m => j = k
        BY <2>2, <4>1 DEF IsFreeList
      <4>4. \A j \in 0..made : Nth[j] = m <=> j = k
        BY <2>4, <4>1, <4>2, <4>3
      <4>5. A = {<<"list", k>>}
        BY <4>2, <4>4
      <4>6. B = {} /\ C = {}
        BY <3>1 DEF Free, Live
      <4>. HIDE DEF A, B, C
      <4>. QED  BY <4>5, <4>6
    <3>2. CASE m \notin Free
      <4>1. A = {}
        <5>1. \A k \in 0..made : Nth[k] # m
          BY <2>3, <2>4, <2>5, <3>2
        <5>. QED  BY <5>1
      <4>2. CASE \E t \in Threads : m \in InHand(t)
        <5>1. PICK t \in Threads : m \in InHand(t)
          BY <4>2
        <5>2. B = {}
          BY <5>1 DEF Live
        <5>3. C = {<<"hand", t>>}
          BY <2>6, <5>1
        <5>. HIDE DEF A, B, C
        <5>. QED  BY <4>1, <5>2, <5>3
      <4>3. CASE \A t \in Threads : m \notin InHand(t)
        <5>1. m \in Live
          BY <1>1, <3>2, <4>3 DEF Free, Live
        <5>2. B = {<<"live", m>>}
          BY <5>1
        <5>3. C = {}
          BY <4>3
        <5>. HIDE DEF A, B, C
        <5>. QED  BY <4>1, <5>2, <5>3
      <4>. QED  BY <4>2, <4>3
    <3>. QED  BY <3>1, <3>2
  <2>. HIDE DEF A, B, C
  <2>8. Cardinality(A \union B \union C) = 1
    BY <2>7, FS_Singleton
  <2>. QED  BY <2>8 DEF A, B, C
<1>2. PoolInv => EachNodeOnce
  BY <1>1 DEF EachNodeOnce
<1>. QED  BY PoolInvariance, <1>2, PTL

\* malloc is called only when there is an object in every node (mempool.h:82-98).
THEOREM GrowthFollowsUse == PoolSpec => GrowsOnlyWhenFull
<1>1. ASSUME PoolInv, NEW t \in Threads, Grow(t) PROVE Cardinality(Live) = made
  <2>1. made \in Nat /\ head = Null /\ at[t] = "alloc"
    BY <1>1 DEF PoolInv, PoolTypeOK, Grow
  <2>2. Free = {}
    <3>1. PICK n \in Nat : \E s : IsFreeList(s, n) /\ Nodes(s, n) = Free
      BY <1>1 DEF PoolInv
    <3>2. PICK s : IsFreeList(s, n) /\ Nodes(s, n) = Free
      BY <3>1
    <3>3. n = 0
      BY <2>1, <3>2 DEF IsFreeList
    <3>. QED  BY <3>2, <3>3 DEF Nodes
  <2>3. \A u \in Threads : InHand(u) = {}
    <3>1. \A u \in Threads : HasLock(u) => u = t
      BY <1>1, <2>1 DEF PoolInv, Excluded, HasLock
    <3>. QED  BY <2>1, <3>1 DEF InHand, HasLock
  <2>4. Live = 1..made
    BY <2>2, <2>3 DEF Live, Free
  <2>5. Cardinality(1..made) = IF 1 > made THEN 0 ELSE made - 1 + 1
    BY <2>1, FS_Interval
  <2>. QED  BY <2>1, <2>4, <2>5
<1>2. ASSUME PoolInv, PoolNext, made' # made PROVE \E t \in Threads : Grow(t)
  BY <1>2 DEF PoolNext, NewObj, Lock, Unlock, Take, Pop, Build, Destroy, Link, Push, DeleteObj
<1>3. PoolInv /\ [PoolNext]_poolVars => [made' # made => Cardinality(Live) = made]_poolVars
  BY <1>1, <1>2
<1>. QED  BY PoolInvariance, <1>3, PTL DEF PoolSpec, GrowsOnlyWhenFull
=============================================================================
