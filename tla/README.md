# A TLA+ model of copnet, the coroutine network library in `src/`

`src/src` is a C++11 library that multiplexes coroutines (ucontext) over a
fixed set of threads, one *processor* per thread, each with an epoll loop.  User
code calls `co_go`, `co_sleep`, `Socket` and `RWMutex`.  This directory keeps
models of the parts whose correctness depends on the order in which threads,
coroutines and the kernel act, TLC runs on small instances of them, and proofs,
checked by TLAPS, for instances of every size.

All paths below are relative to `src/`; `x.cc:n` without a directory is in
`src/src/`.  `PROJECT.json` lists for every definition the lines it translates.

## 1. Inventory

| Component | State | Operations | Models |
|---|---|---|---|
| New-coroutine queue (`processor.cc:94-117,161-178`) | `newCoroutines_[2]`, `runningNewQue_`, `newQueLock_` | `goCo`, `goCoBatch` by any thread; drain and flip by the loop | `NewCoQueue`, `FifoQueue` |
| Readers-writer mutex (`mutex.cc`) | `state_`, `readingNum_`, `lock_`, `waitingCo_` | `rlock`, `runlock`, `wlock`, `wunlock`, `freeLock` | `RWMutex`, `RWLock` |
| Processor loop, coroutine (`processor.cc`, `coroutine.cc`) | `coSet_`, `pCurCoroutine_`, `removedCo_`, `actCoroutines_`, `timerExpiredCo_`, each `status_` | `goNewCo`, `resume`, `yield`, `wait`, `waitEvent`, `killCurCo`, the pass of `loop` | `Processor`, `CoroutineLife` |
| Processor selection (`processor_selector.cc`) | `curPro_`, `strategy_` | `next` under two strategies | `Selector` |
| Scheduler singleton (`scheduler.cc`) | `pScher_`, `scherMtx_`, `processors_`; each processor's thread and `status_` | `getScheduler`, `startScheduler`, `stop`, `join` | `Scheduler` |
| Public interface (`copnet.cc`) | none | `co_go`, `co_sleep`, `sche_join`, `printCoNums` | folded into the callee's module |
| Spinlock, guard (`spinlock.h`) | the semaphore word | `lock`, `unlock` | in `NewCoQueue` and `RWMutex` |
| Timer (`timer.cc`) | heap of deadlines, the timerfd | `init`, `runAfter`, `wakeUp`, `getExpiredCoroutines` | `Timer`; abstract in `Processor`, `NewCoQueue` |
| Epoller (`epoller.cc`) | epoll set, event array | `addEv`, `modifyEv`, `removeEv`, `getActEvServ` | in `Processor`; the event array and closed files in `Server` |
| Pools (`objpool.h`, `mempool.h`) | free list, blocks | `new_obj`, `delete_obj`, `AllocAMemBlock`, `FreeAMemBlock` | `Pool`; a set of objects in `Processor` |
| Socket (`socket.cc`) | reference count, fd | `bind`, `accept`, `read`, `send`, `connect`, copy, destroy | `Socket`; copies and descriptors in `Server` |
| Context (`context.cc`) | a `ucontext_t`, a stack | `makeContext`, `makeCurContext`, `swapToMe` | the change of `cur` in `Processor` |
| Time (`mstime.cc`) | none | clock reading, comparison, interval; `toLocalTime` | in `Timer`; `Calendar` |
| Demo server and client (`server/server.cc`, `client/client.cc`) | `times`, one `Socket` per connection | accept loop, a coroutine per connection; exchanges of a client | `Server` |
| `webbench/` | — | vendored load generator | not modelled; its clients that are killed are in `Server` |

**How they interact.**  A thread calls `getScheduler()->createNewCo(f)`: the
selector names a processor, whose `goNewCo` builds a `Coroutine` in a pooled
object and `goCo`s it: one push under a spinlock and one `timerfd_settime` that
makes the target's `epoll_wait` return.  The target's loop resumes due timers,
then its new coroutines, then ready files, then deletes what has ended.  A
coroutine gives up its thread by `wait` (timer), `waitEvent` (epoll), or by
queueing itself in an `RWMutex`, whose unlocker hands it back with `goCo`.  Who
refers to a coroutine is not counted anywhere: raw pointers to it are in the
queues, the timer heap, the kernel's epoll set, lists of lock waiters, and local
variables of wakers.

**Which behaviours are hard.**

* *Interleaving.*  The loop empties a `std::queue` without the lock that its
  writers hold.  A coroutine publishes its own pointer in `waitingCo_` and may be
  handed over by another thread before it has yielded.  `curPro_`, `coSet_.size()`
  and `pScher_` are read and written by several threads without synchronisation.
* *Ordering.*  What `epoll_wait` returned is used after timers and new coroutines
  have run.  The flip of the double buffer must not let late arrivals overtake.
* *Lost wake-ups.*  `freeLock` wakes everybody and forgets them; the timerfd that
  `goCo` arms can be re-armed for later by the loop; `addEv`'s failure is ignored.
* *Object lifetime.*  Objects come from a last-in-first-out pool and are reused
  at once.
* *Descriptors.*  A closed file's number is given to the next connection; accept
  copies the `Socket` it returns, whose count is a plain `int`, while the connection's
  coroutine may run on another processor.
* *Boundaries.*  `curPro_` starts at -1 and wraps to 1; the event array doubles;
  `send` returns `-1` as a `size_t`; without a free descriptor accept fails for ever.
* *Timeouts.*  The 100 ms timeout of `epoll_wait` is what gets an unlucky new
  coroutine run at all.

There is no persistence, hence no crash recovery, and no message that could be
lost or duplicated between the library's own parts.  `PROJECT.json` lists every
hazard at its line, with the properties that cover it or a note.

**What makes each component correct.**  Queue: no data race on a queue, first in
first out, everything handed over is run, a pass ends.  Mutex: readers or one
writer, no waiter lost, none in two places.  Processor: no pointer outlives its
coroutine, no wake-up is passed over, one coroutine runs at a time, memory comes
back.  Selector: an index in range, a fair turn, the least loaded.  Scheduler: one
instance, started before it is used, and `sche_join` returns when its processors end.  Timer: due timers fire, the timerfd is set
for the earliest.  Socket: bytes are neither lost nor repeated.  Server: a descriptor is
one connection's as long as somebody holds a `Socket` of it, nobody waits for a file
unheard, every connection ends and closes, and every client gets its answers.

## 2. Modules

### `NewCoQueue` — the double-buffered queue

One variable per field (`que`, `runningNewQue`, `sem`), a program counter per
calling thread and one for the loop.  A step is one access to shared memory: take
the lock, read `!runningNewQue_`, push, release, arm the timerfd; for the loop,
read the index once (`BeginDrain`), pop and run (`RunNewCo`), leave, lock, store
the index, unlock.  A push is split from the read of its index so that "the index
is still right when it is used" can be violated.  The coroutine that the loop
runs is user code on the loop's thread: it can itself call `goCo`, make itself
known to a waker and then yield, or simply yield.  `parked` holds the coroutines
that somebody may legitimately hand over or resume, so that no coroutine is
handed over twice (`Processor` shows that the real callers keep this rule).

`epoll_wait` may return at any time, for its timeout ends it; what the wake-up of
`goCo` adds to that is `Timer`'s matter.

**`FifoQueue`** says what this implements: one sequence, into which a batch goes
as a whole.  The refinement maps it to
`que[running] \o que[other] \o (what the lock holder has still to push)`: a batch
takes effect when its thread gets the lock.

### `RWMutex` — the mutex over several processors

`state`, `readingNum`, `waitingCo` and the semaphore, each coroutine's place in
the four operations, and enough of the processors (`running`, `runq`) to say where
a waiter is and that a processor runs one coroutine at a time.  The steps under
`lock_` are separate, because a waiter is handed to another thread's queue inside
the critical section and may still be running.  The tail-recursive `rlock()` after
`yield()` is the jump of `pc` from `asleep` to `spin` when the loop resumes it.
A coroutine may also yield for an event anywhere outside the lock's code, also
while it holds the lock (`Leave`, `Resume`).  `goCo` is one step here, which
`NewCoQueue` justifies.  **`RWLock`** is the abstract lock: many readers or one
writer, nothing else; `Mode` says at which step a coroutine holds it.

Every coroutine is on the processor that runs it; calling the mutex from a thread
without a processor indexes `processors_[-1]` and is outside the model.

### `Processor` — the loop and the life of coroutines

One processor with its pool, seen from its own thread and from other threads.
`Places(o)` collects every pointer to an object that someone will still follow:
the timer heap, the expired list, `removedCo_`, the epoll registrations, a waker's
local variable (`hand`), the lock's waiters, and both queues.  Actions are the
phases of a pass, one action per resumption, and what a running coroutine can do:
create, wake, sleep, wait for a file, wait for a lock (in two steps, `WaitForLock`
and `Yield`), end.  `Resume` has the two tests of the code (`coSet_`, `status_`),
which silently drop a resumption, and the `RemoveEv` with which `waitEvent`
continues.  Time is a free choice: any set of timers may be due.  The model is
finite without a bound on its history: objects are reused for ever.

**`CoroutineLife`** is the promise: free, ready, running/waiting, dead, free; one
running at a time; freed only after the end.

### `Selector` — which processor

`next()` on several threads: under round robin a load of `curPro_`, a store, and
the index computed in between (the compiled code, `g++ -O3`, loads and stores the
field once and indexes from the register); under MIN_EVENT_FIRST one read of each
count.  A coroutine is counted only when the loop moves it from the queue to
`coSet_`, so `coCnt` and `queued` differ.  `picks`, `stale` and `lost` are
history for the properties: how often each processor was returned, under whose scan
a count has changed, and how many stores have not continued the round because another
call came in between.  `MaxCo` bounds how many coroutines are created.

### `Scheduler` — the double-checked singleton

`getScheduler` at the grain of its tests and stores; `startScheduler` one
processor at a time, creating and starting apart.  `Slow` is the guarded part.
The threads that it starts live on in the same module: `thread[p]` begins with the
initialisation, which may fail, and sets `status_` itself when its loop begins
(`BeginLoop`), `Stop` sets `status_` from any thread that has a scheduler, and
`CallJoin`, `JoinNext` and `EndJoin` are `sche_join`, processor by processor.  A
pass of the loop is no step here: only its test of `status_` is.  Nobody in
the repository calls `stop` but destructors that never run; it is a public
operation all the same, and `JoinReturns` says what it is worth.

### `Timer` — deadlines and the timerfd

The heap as the set `sleeping` with a deadline each, the timerfd with its own
count-down, and the two parties that set it: the loop, for the first deadline, and
any thread in `goCo`, for now.  `resetTimeOfTimefd` is two steps, `ReadClock` and
`SetTime` (`WakerReadClock` and `WakerSetTime` for wakers), because time passes and others act between
reading the clock and `timerfd_settime`.  All times are relative, so that the state
space is finite without a bound on time: `left[c]` is what the wall clock shows
until the deadline, `fd` what the monotonic clock counts.  `SetBack` moves the first
and not the second.  `Due` and `Interval` are `<=` on times and
`timeIntervalFromNow`, whose 1 us for a time that has passed is 0 at the grain of this clock,
still set and not off.  Only the bounds `MaxLag` (preemption of the loop before
`timerfd_settime`), `MaxBack` and the one jump of the clock limit the model.  A
coroutine's expiry here is the free choice "any set of timers may be due" of
`Processor`.

### `Socket` — the retries

`connect`, `accept`, `send` and `read` differ in what they do after the event:
`connect` starts over until `::connect` returns 0, `accept` tries once and starts over,
`send` goes on behind what was taken, `read` tries once and returns whatever it
gets.  An error of `read`'s first try is treated like EAGAIN, and forgotten: the kernel reports a reset once
(`err`), so that the second try may find the end of the stream instead.  `send` returns the
result of its last call of itself, that is, after a partial send the count of the rest (`LastCount`).  Each is a small automaton per coroutine (`pc`, `apc`); between an event and the retry everybody
else acts, so that another acceptor may take the connection that both were woken
for.  The kernel is external: a handshake that may succeed at once, later, or be
refused; a buffer of `Cap` units in each direction, of which a call takes or gives any part; a
reset at any time after `connect` has returned; and an urgent byte of the peer's program (`urgent`), which wakes a
reader by `EPOLLPRI` although there is nothing that `::read` would return.  A send's data are numbered in the order of
the calls, which is all that `WholeMessages` needs to tell omission, repetition and
reordering apart.  `::send`'s -1 is modelled as the code reads it, as a `size_t`
(`SendMinusOne`).

### `Pool` — where coroutines come from

`MemPool` keeps the links of its free list in the free nodes, where an object in use
has its first member; `mem[n]` is either.  The steps are the single writes (`Take`,
`Pop`, `Build`; `Destroy`, `Link`, `Push`), so that what the lock protects can be
seen to need it.  Nodes are numbered as `malloc` gives them, each block one node larger than the
one before.  The loop deletes, any thread makes; that it deletes only objects that
nobody refers to any more is `Processor`'s `OnePlace`.  `MaxObjects` bounds how many coroutines
there are at a time.

### `Calendar` — `toLocalTime`

A pure function without state, after `Timer`, the other user of times: hours since 1970
to year, month, day and hour.  The two loops of the code, over the years
of a term of four and over the months, are the choice of the year and the month at
which they stop; the code's special case for 29 February is its own.  The
reference is the Gregorian calendar as "the day after this one".  `DaysOf` and `HoursUntil` are a
second reference, for the proof: the days of a month, and the hours from 1970 until a date.

### `Server` — the demo server, its clients, and who owns a descriptor

What no other module has together: `Socket` objects with their counts, the process's
descriptors, the registrations in epoll, and the processors' passes, driven by the
programs of the repository.  `AcceptRaw` takes a connection and the lowest free
descriptor, `ReturnCopy` and `DropRet` are the copy and the destruction in
`return ret` (`accept` returns one of two locals, which keeps the compiler from eliding
the copy), `Count` and `CoGo` the rest of the accept loop.  The connection's coroutine
reads, answers, sleeps 50 ms, deletes its `Socket` and counts itself out; `Close`
takes the registration with the file, gives the number back, and drops an answer
that has not left if something is unread.  `running` says which coroutine has its
processor's thread; between two coroutines the loop takes any of those that
`epoll_wait` has reported, whose sleep is over or that are new (`Processor` has the
order and shows that nobody is passed over).  `Poll` reports as many as the event
array has slots, any of those that are ready, and doubles the array when it was full.
A client exchanges `Rounds` pings and answers, or is killed by somebody, as those of
webbench are when its time is over.  The buffers' contents, partial sends and retries
of `connect` are `Socket`'s.

### MC modules, configurations, proof modules

`MC*.tla` name the sets that configurations need.  `MCParts` has the three small modules `Timer`, `Pool` and
`Selector` in one run: they share no variable, and a behaviour is one of one of them, `part`, in which the
others stand still.  In `MCSocket` a behaviour is one of two scenes: several acceptors, whose
connections only read and close, or one acceptor, whose connections do everything.  `MCNewCoPasses` adds to `NewCoQueue` the coroutines that were queued when the pass under way began.  `*Proofs.tla` extend the
component's module and hold its theorems; `PartsProofs` holds those of
`Timer`, `Calendar` and `Pool`.  Definitions whose comment begins with
`Mutant` are changes to the code that the properties are known to detect; no
specification uses them.

## 3. Runs

| Run | Instance | What it shows |
|---|---|---|
| `queue` | 2 threads and the loop's own coroutines; `goCo(a)`, `goCo(b)`, `goCoBatch(b, c)` | `NoQueueRace`; `ImplementsFifo`; `QueuedRuns`, `DrainEnds` (130 000 states) |
| `queue_next_pass` | 1 thread and the loop's own coroutines | violates `RunInNextPass` |
| `rwmutex` | 3 coroutines on 2 processors, 2 locks each | `StateAgrees`, `WaitsInOnePlace`, `NoWaiterLeftBehind`; `ImplementsRWLock`; `EverybodyEnds` (62 000 states) |
| `processor` | 3 objects, 2 files, 2 other threads | `OnePlace`, `WakesRun`, `ImplementsLife`, `DueRuns`, `DeadReclaimed` (55 000 states) |
| `processor_deaf` | 2 objects, 1 file | violates `EventIsAwaited` |
| `scheduler` | 3 threads, 2 processors | `OneScheduler`, `ReadyAfterMutex`; `JoinReturns` (23 000 states) |
| `scheduler_ready` | the same | violates `ReadyWhenReturned` |
| `parts` | `Timer`: 3 sleepers with delays 0 and 2, 1 waker, timeout 3, clock set back by 1, lag 1.  `Pool`: 2 threads and the loop, 5 objects, a first block of 1.  `Selector`: 2 threads, 3 processors, 4 coroutines, both strategies | `ArmedForEarliest`, `WakeUpEndsPoll`, `SleeperExpires`; `EachNodeOnce`, `GrowsOnlyWhenFull`; the index in range (`IndexInRange`), `Balanced`, `LeastWhenBelowZero` (449 000 states); the assumption `CalendarIsGregorian` |
| `selector_fewest` | 1 thread, 3 processors, 3 coroutines | violates `FewestIsPicked` |
| `socket` | 1 connection, 2 acceptors, 2 sends of 2 units per end, buffers of 2, urgent bytes of both ends | `ConnectedWhenReturned`, `WholeMessages`, `MinusOneHasACause`; `ConnectReturns`, `EveryoneServed` (417 000 states) |
| `socket_send` | the same with 1 acceptor | violates `SendTakesAll` |
| `server` | 2 clients with 2 exchanges, 2 processors, 1 acceptor, 1 descriptor, an array of 1 event | `FileWhileHeld`, `CountTouchedByOne`, `WaitersAreHeard`, `TimesCountsServed`, `AnswerIsHeard`; `ConnectionEnds` (127 000 states) |

**Why the bounds are enough.**  `queue`: two producers and the loop make three
threads, so that one can hold the lock while another waits and the loop is
anywhere; the pair makes a batch that a flip, a second producer or the loop's own
`goCo` can meet half-way; a coroutine can be in both queues' histories.  Sizes
are bounded by `parked` alone, not by a guard.  `rwmutex`: two coroutines
share a processor, so that a woken waiter has to wait for its thread, and one has
its own, so that wake-ups cross threads; three are two readers and a writer,
or two waiters of both kinds; two locks each let an early waiter come back and
overtake.  `processor`: three objects let one be freed and reused while a second
wakes and a third runs; two files let one be awaited by two; two other threads let
one hold a pointer while the other acts.  `parts`, for `Selector`: three processors
give two workers to be balanced and the excluded processor 0; four picks are two
rounds, in which one thread can lose a turn to the other more than once.  `scheduler`: three threads cover the maker, one that waits
for the mutex and one that comes by the fast path, or one that joins, one that stops and one
that stops again; two processors are one that ends and one that sche_join then waits for.  `Timer`: three sleepers are one
that expires, the next first deadline and one behind it; the delays give
deadlines that have passed when the timerfd is set and deadlines to come, with a timeout that is longer than both;
one waker can set the timerfd between any two steps of the loop.  A lag of
one tick is the least in which an interval gets old before it is set.
`socket`: two acceptors compete for one connection; two units let the kernel split a
message, and a buffer of two is full after one message, so that the next one begins with the buffer
full, partly full or empty; urgent bytes meet all that their reader, which also sends and closes, can be doing.
In `parts`, `Pool`: five objects need three blocks (1, 2 and 3 nodes), so that
the list is relinked after each growth with nodes of several blocks freed in any order.
`server`: with one descriptor for two connections the number is used again, accept fails while the
listening socket stays ready, and the acceptor competes for the one slot of the event
array with the connection whose end would free the descriptor; two processors let a connection be served beside its
acceptor or elsewhere.  Two exchanges make a second ping that is unread when the server
closes.  Two acceptors add states and no new meeting of two coroutines: each has its own backlog.  They are covered by the proofs,
which are for any number.

The socket runs do not check for deadlock: both ends may wait in `read` for each
other, or have closed, which is up to the programs.  `server` does not either: its clients
end, and an acceptor whose `bind` has failed.  Nor does `selector_fewest`, where creation is bounded by
`MaxCo`.  Every other run does; in `parts` a step of its own, `SelectorDone`, says that all coroutines were created
and have ended.

**Fairness.**  *`NewCoQueue`*: every thread is scheduled (weak fairness of the
steps of a call that has begun), the loop runs (`epoll_wait` has a timeout,
`parameter.h`), and a running coroutine eventually yields or ends, which
cooperative scheduling requires of user code.  No fairness is assumed of the
spinlock: it is a compare-and-swap without a queue, so `QueuedRuns` speaks of
coroutines that are in a queue, not of callers still spinning.  For the same
reason the instance has no empty batches: an endless stream of
`goCoBatch({})` could keep the flip from ever getting the lock.
*`RWMutex`*: the spinlock steps are only weakly fair too, and what makes
`EverybodyEnds` hold is that the workload is finite.  Strong fairness is assumed of
user code (whoever holds the lock unlocks eventually, however often it
yields in between), of `Resume` (its event comes) and of `RunNewCo`, which
is the `QueuedRuns` that `NewCoQueue` establishes.  *`Processor`*: weak
fairness of the loop; strong fairness of `YieldStep`, because a coroutine may
create and wake others arbitrarily often in between, but not for ever; weak
fairness of a `goCo` that was begun.  *`Scheduler`*: weak fairness of each thread
in `getScheduler` and in `sche_join` and of the loops, whose passes end after
`epollTimeOutMs` at the latest; the mutex may be unfair, and nobody has to stop or join.  *`Timer`*: strong
fairness of `Tick` (time passes, although the thread that is about to set the timerfd
may be fast or slow), weak fairness of the timerfd and of the loop; none of the wakers, which
may stop half-way, and none of `Pool` and `Selector`, which are in the same run and of which no liveness is claimed.  *`Socket`*: weak fairness of the steps of `connect` and
`accept`, which are the loop resuming whose event has come; strong fairness of
`Establish`, that is, a peer that is asked again and again accepts in the end, without
which nobody could promise that `connect` returns.  None of `send` and `read`: no
liveness is claimed of them, because their peer need not read or write.  *`Server`*: weak fairness of
each processor's thread, of each client, of the network (`Arrive`) and of
time (`Expire`); none of `Kill`.  A thread that runs is always somewhere in its pass, so weak fairness is all it
needs, and nothing says which of the ready files the kernel reports first.

## 4. Findings

* `processor_deaf` — `processor.h:71` says that `waitEvent` waits until the event
  comes.  `addEv` fails when another coroutine of the processor waits for the same
  file (`EEXIST`), the result is not looked at (`processor.cc:208`), and the
  coroutine is never resumed.
* `scheduler_ready` — `server/QA.md:36` presents the double-checked lock as safe
  initialisation under several threads.  `pScher_` is published before
  `startScheduler` (`scheduler.cc:60`): a thread on the fast path uses an empty, or
  growing, `processors_`.
* `socket_send` — `server/QA.md:57` says that a coroutine whose file cannot be written
  now waits for its event and goes on.  `send` keeps the result in a `size_t`
  (`socket.cc:182`), so that the -1 of `EAGAIN` is no less than `count` and the call
  returns `count`: the message is dropped.  It happens only when the buffer
  is full at the beginning of a call; after a part was taken the event comes first,
  which is why `WholeMessages` holds.
* `selector_fewest` — `processor_selector.h:37`, `README.md:49` and `server/QA.md:74` say that
  MIN_EVENT_FIRST picks the processor with the fewest coroutines.  The minimum starts as
  processor 0's count and the index as 1 (`processor_selector.cc:30`), so that the answer is 1,
  however loaded, when nobody has fewer than processor 0.  `LeastWhenBelowZero` says when the answer is right.
* `queue_next_pass` — `server/QA.md:55` and `109` say that a new coroutine, once the timerfd has woken epoll, can be
  run the next time the main coroutine runs.  The pass that begins then drains the queue whose index it
  reads before the flip (`processor.cc:163`), the *other* one, so that the coroutine waits for the next event or the
  100 ms timeout.  `QueuedRuns` shows that it is late, not lost.

Met while modelling, without a run of their own: the first round-robin pick is
processor 0 although the comments say that it takes no part (`-1 + 1`), which
`ZeroPicksBounded` bounds; overlapping calls of `next()` lose turns, which `Balanced` counts;
a `stop` that comes before the thread has set
`status_` is overwritten (`processor.cc:139`), after which `sche_join` waits for ever, and `JoinReturns`, which leaves such a stop
out, shows that there is no other way; `read` returns -1 with EAGAIN on an intact connection when urgent data has woken it
(`socket.cc:157`), and 0, the end of the stream, after a reset whose error its first try has had and
forgotten (`socket.cc:149`), while `MinusOneHasACause` says that there is no other -1 without an error; the count that
`send` returns after a partial send is that of the rest (`socket.cc:187`); `toLocalTime` takes 2100 for a leap year; `~Socket` deletes the count only with an open file
(`socket.cc:32`), so that every accept that finds nothing leaves four bytes behind; the constructor makes a
descriptor non-blocking if it is positive, while `isUseful` takes 0 for one as well (`socket.h:42,77`).

## 5. Proofs

All proofs are for arbitrary constants that satisfy the modules' `ASSUME`s.

* **`NewCoQueueProofs`**, for any number of threads, coroutines and batches.  `Inv`
  strengthens mutual exclusion, race freedom and "the flip leaves nothing" by what
  relates the loop's local copy to the shared index: `runningQue = runningNewQue`
  up to the store and the complement after it, and "a pusher has something to
  push".  Race freedom is not inductive without the first: that the index a
  pusher holds differs from the queue being drained rests on the loop's copy
  still being current.  `TypeCorrect`, `MutualExclusion`, `RaceFreedom` and
  `NothingLeftBehind` follow.  `QueueImplementsFifo` proves the refinement: under `Inv`
  the lock holder is unique, so `InFlight` is what that one thread has to push; a push moves one element
  from `InFlight` to the end of the idle queue, `Lock` is the abstract `Put`, and the
  flip is a stutter because the queue it puts behind is empty.  The type invariant, mutual
  exclusion and the empty queue are proved and not run: the run's properties rest on them.
* **`RWMutexProofs`**, for any finite set of coroutines on any processors.
  `SpinlockMutualExclusion`; `Agreement` (the count is the cardinality of the
  readers, by the library's theorems on finite sets when one enters or
  leaves); `NoLostWaiter` (nobody is left in `waitingCo_` when the mutex is
  free), which needs that the coroutine about to push has found `state_` taken and
  still holds `lock_`; and `MutexImplementsRWLock`, from `Agreement` at the step that takes
  the mutex.  `NobodyIsLostOrDoubled` counts the places of each coroutine, in `waitingCo_`
  and in the run queues, where it may be queued several times as far as a sequence's type goes:
  the lemmas say how `Append` and `Tail` change the number of occurrences (a bijection between the
  positions of a queue and of its tail).  It is inductive only with `OnlyOnHome`: a processor runs only
  its own coroutines, who is about to yield is still on its CPU, and who left for an event is not.
* **`SelectorProofs`**, for any number of threads and processors.  `SelectorTypeCorrect` (the index
  is in range whatever is interleaved); `ZeroAtMostOncePerThread`: a pick of
  processor 0 needs a load of the initial -1, after a thread's own store the field is never -1
  again, so each thread has one at most, counted by
  the threads that have or had it; `RoundRobinBalanced`, however calls overlap: up to the turns lost the workers
  up to `curPro_` are one pick ahead of those behind it, and a store that does not continue the round adds one to what
  was lost, by which it can unbalance at most; `MinEventFirst`: the scan's
  loop invariant.
* **`SchedulerProofs`**, for any number of threads and processors: `SchedulerTypeCorrect`; `Singleton`, by `StartedAlone` (who
  makes or starts a scheduler has the mutex) and "none is made before `pScher_` is set";
  `ReadyBehindMutex`, by what the maker has done so far: the processors made are the first ones, all of them
  loop but the one that was just made, and all are there when the maker is past `EndStart`.
* **`ProcessorProofs`**, for any finite sets of objects, files and threads.  `OnePlace` says that an object is in
  exactly one of eight kinds of place unless it is free or on the CPU, and nearly every step moves one from a place to another.  `IInv` therefore
  says that there *is* a function `at` from objects to the one place of each (`Placed`), and gives for each place what the
  object that is there must be: whoever will be resumed passes the tests of `coSet_` and `status_` in the two
  resume functions (`Resumable`), and what is on the CPU is running (`Running`).  Without these a
  resumption could be dropped, and an object be in no place at all.  A step's proof changes `at` at one object.
  `Distinct` says that no place has an object twice, `InPass` what the phases of a pass leave behind.  `TypeCorrect`,
  `EveryPointerIsTheOnlyOne`, `NoWakeUpIsPassedOver` (an action property) and
  `ProcessorImplementsLife` (the refinement of `CoroutineLife`: a step that changes no life is a stutter, and every
  other one changes the life of one object as the abstract specification allows) follow.
* **`SocketProofs`**, for any connections, acceptors, numbers and lengths of messages and buffers.  `OnlyWholeMessages`
  is about the bytes that the kernel has taken, which a partial send leaves in the middle of a message.  `IInv` ties them to the
  call that is under way: all taken are in order and not beyond `off` of message `call`; the message that is
  being sent has been taken exactly as far as `off` (`Begun`), all earlier ones whole or not at all (`Whole`).
  Where a byte stands is a product, `Byte(c, j)`; that two bytes of different messages differ is a
  lemma of its own, since a message's length is a constant.  `Senders` and `Readers` (whoever
  retries has something to read, or space, or was woken by an urgent byte that is still there) give `MinusOneOnlyForACause`; `Clients`, `Servers` and `Accepted` give
  `ReturnedIsConnected`.  `SocketTypeCorrect` includes that the kernel's buffer holds at most what it can.
* **`PartsProofs`**, the three small modules.
  - `Timer`, for any coroutines, wakers, delays and bounds: `TimerTypeCorrect`; `NeverArmedLate` and `WakeUpHeard`
    by `TimerInv`, whose parts are: a waker's interval is always 0 unless the clock was set back; the interval that the loop is
    about to set is no longer than the rest of any sleeper plus the time it has lagged; and
    whenever the loop is not about to set it, the timerfd has fired or is set accordingly.  The first is
    what makes a waker harmless: whatever it replaces, it sets the timerfd for now.
  - `Calendar`: `DateInRange`, for every hour since 1970 without an end: the code's two loops stop within
    the term's four years and the twelve months, because a year and a month with the property `IsYearOf`, `IsMonthOf` always exist,
    the day is one that this month has in this year, and the hours from 1970 until the date are those that were given
    (`HoursUntil`), so that the date is the right one of the code's calendar.  The run compares the dates themselves, up to 2100.
  - `Pool`, for any threads and numbers of objects.  `PoolInv` says that the links form a list: there is a
    function `s` on `0..n` from the head to the null pointer along the links, that has no node twice and has exactly the
    nodes that are neither in use nor in a thread's hand.  It needs the lock (`Excluded`) and, of the thread that
    has it, that the node it takes is still the head and the node it puts back is already linked
    to the head (`InOrder`).  The property counts places by `Nth`, which follows the links from the head by a recursive function; that it
    agrees with `s` is an induction over the list.  The library's induction theorems cannot be used, so it goes by the
    least element of a set of naturals (`WFMin`).  The list is no longer than there are nodes, by an injection.
    `PoolTypeCorrect`, `NoNodeTwice` and `GrowthFollowsUse` (`malloc` only when no node is free: an action
    property) follow.
* **`ServerProofs`**, for any finite set of clients and any processors, acceptors, descriptors and sizes.  `IInv` says
  for each connection in whose hand it is: in a backlog with no `Socket` yet, in one acceptor's hand before its
  coroutine begins, or with its coroutine (`Waiting`, `Hands`); that the count is the number of copies
  (`Counted`), that what is held has a file and that file is its own (`Files`), that epoll's registrations are of
  coroutines that wait for open files (`WaitersAreHeard`), and how many pings can be unread (`PingsBounded`, for the type of the
  inbox).  None of them is inductive alone: that `DropRet` does not close rests on the count, the count on the hands, and
  that `Delete` deafens nobody on two connections never having one descriptor.  `ServerTypeCorrect`,
  `FileOpenWhileHeld`, `CountIsPrivate` and `NobodyWaitsUnheard` follow.  `TheMonitorIsRight` needs the exact
  count (`TimesExact`): `times` is the number of acceptors past the increment and before the
  `co_go`, plus that of connections whose coroutine has not counted itself out.  `NoAnswerIsLost` is by an
  invariant for each client, `Heard`: the server answers once, and while that answer is on its way the client waits for it, so that no unread
  ping is there to make the close drop it; a client that has gone on to its next ping has read it.

Every invariant and every action property that a passing run checks, and the step simulation of all three
refinements, is among these theorems.

**Only model-checked.**  All liveness (the provers installed do not do fairness or
ENABLED): `QueuedRuns`, `DrainEnds`, `EverybodyEnds`, `DueRuns`, `DeadReclaimed`,
`JoinReturns`, `SleeperExpires`, `ConnectReturns`, `EveryoneServed`, `ConnectionEnds`.
That `toLocalTime` gives the Gregorian date is evaluated day by day, for its reference is a recursion over days.

## 6. Not modelled, and why

* The destructors of the scheduler and of the processors: the first is protected, the
  singleton is never deleted, and nothing else deletes a processor.
* Register and stack contents, and the size of stacks: below the model.  The
  mutex's retries recurse; whether that uses stack is up to the optimiser.
* Memory: the models are sequentially consistent at the grain of the accesses that
  the compiled code makes on x86-64, where loads and stores keep their order as far
  as these protocols need.
* Failure of `malloc`.  That of `epoll_create` and `timerfd_create` is in `Scheduler`, as the end of the thread, and not in
  the modules whose loop runs.
* A reset between the end of a handshake and the retry of `connect`, and `EINTR`, which
  non-blocking calls do not return.
* webbench, and what the demo programs only print or only wait for: the coroutine that prints the
  connections, and `client.cc`'s main thread.  `Epoller::modifyEv`, which nothing calls; the socket options, which
  pass through to the kernel.

## 7. Plan

Done: `NewCoQueue`, `RWMutex`, `Processor`, `Selector`, `Scheduler`, `Timer`,
`Socket`, `Pool`, `Calendar` and `Server`, and the proofs of all their safety properties.  Next, in this order:

1. `Pool` as a refinement of what `Processor` takes it for: a set of free objects, from which `new` takes any and to which
   `delete` gives back; by `PoolInv`, whose set of nodes is that set.
2. `Timer` as the refinement of the abstractions that `Processor` and `NewCoQueue` make
   of it.
