------------------------------ MODULE Scheduler ------------------------------
(***************************************************************************)
(* Scheduler::getScheduler and startScheduler (scheduler.cc): the          *)
(* process-wide scheduler is made by whoever asks for it first.  pScher_   *)
(* is tested without the mutex, then again with it.  The pointer is        *)
(* published before startScheduler fills processors_, and the test without *)
(* the mutex returns it at once.                                           *)
(*                                                                         *)
(* And the life of the processors' threads (processor.cc): each begins     *)
(* with an initialisation that may fail, and sets status_ itself when its  *)
(* loop begins; stop() sets status_ from another thread, with nothing that *)
(* orders the two; sche_join waits for all threads.  A thread that was     *)
(* joined may not be joined again, so a program calls sche_join once, and  *)
(* it does so when processors_ is complete.  The destructors never run.    *)
(*                                                                         *)
(* On the build's target loads and stores keep their order, and the        *)
(* compiled code keeps the source's: pScher_ is read once on the path that *)
(* finds it set, and written once, before the call of startScheduler.      *)
(***************************************************************************)
EXTENDS Integers, FiniteSets

CONSTANTS Thread,  \* the threads that call getScheduler
          N,       \* parameter::threadNums
          NoThread

ASSUME SchedulerAssumption ==
    /\ NoThread \notin Thread
    /\ N \in Nat \ {0}

VARIABLES
    pScher,     \* pScher_: the scheduler's number, 0 for nullptr
    mtx,        \* who has scherMtx_, or NoThread
    made,       \* how many Scheduler objects were made
    processors, \* <<s, i>>: scheduler s has made processor i
    looping,    \* <<s, i>>: and has called its loop()
    thread,     \* thread[p]: the thread of processor p, "none" before loop()
    status,     \* status[p]: status_
    pc,         \* where each thread is in getScheduler
    got         \* got[t]: the scheduler t has made or has been returned

getVars  == <<pScher, mtx, made, processors, looping, got>>
lifeVars == <<thread, status>>
vars     == <<getVars, lifeVars, pc>>

Slow == {"locked", "new", "start", "loop", "unlock"}

TypeOK ==
    /\ pScher \in Nat
    /\ mtx \in Thread \union {NoThread}
    /\ made \in Nat
    /\ processors \subseteq (1..made) \X (0..N-1)
    /\ looping \subseteq processors
    /\ thread \in [processors -> {"none", "init", "loop", "ended", "joined"}]
    /\ status \in [processors -> {"running", "stopping", "stopped"}]
    /\ pc \in [Thread -> {"out", "lock", "fast", "slow", "join"} \union Slow]
    /\ got \in [Thread -> 0..made]

Init ==
    /\ pScher = 0
    /\ mtx = NoThread
    /\ made = 0
    /\ processors = {}
    /\ looping = {}
    /\ thread = <<>> /\ status = <<>>
    /\ pc = [t \in Thread |-> "out"]
    /\ got = [t \in Thread |-> 0]

Goto(t, l) == pc' = [pc EXCEPT ![t] = l]

CheckUnlocked(t) ==
    /\ pc[t] = "out"
    /\ \/ /\ pScher # 0
          /\ got' = [got EXCEPT ![t] = pScher]
          /\ Goto(t, "fast")
       \/ /\ pScher = 0
          /\ Goto(t, "lock")
          /\ UNCHANGED got
    /\ UNCHANGED <<pScher, mtx, made, processors, looping, lifeVars>>

Lock(t) ==
    /\ pc[t] = "lock"
    /\ mtx = NoThread
    /\ mtx' = t
    /\ Goto(t, "locked")
    /\ UNCHANGED <<pScher, made, processors, looping, got, lifeVars>>

\* Mutant: pScher_ is not tested again under the mutex.
CheckNothing(t) ==
    /\ pc[t] = "locked"
    /\ Goto(t, "new")
    /\ UNCHANGED <<getVars, lifeVars>>

CheckLocked(t) ==
    /\ pc[t] = "locked"
    /\ Goto(t, IF pScher = 0 THEN "new" ELSE "unlock")
    /\ UNCHANGED <<getVars, lifeVars>>

\* Mutant: the mutex covers the making of the scheduler only.
PublishAndUnlock(t) ==
    /\ pc[t] = "new"
    /\ made' = made + 1
    /\ pScher' = made + 1
    /\ got' = [got EXCEPT ![t] = made + 1]
    /\ mtx' = NoThread
    /\ Goto(t, "start")
    /\ UNCHANGED <<processors, looping, lifeVars>>

\* pScher_ = new Scheduler().
Publish(t) ==
    /\ pc[t] = "new"
    /\ made' = made + 1
    /\ pScher' = made + 1
    /\ got' = [got EXCEPT ![t] = made + 1]
    /\ Goto(t, "start")
    /\ UNCHANGED <<mtx, processors, looping, lifeVars>>

MadeBy(s) == {p \in processors : p[1] = s}

NewProcessor(p) ==
    /\ processors' = processors \union {p}
    /\ thread' = [q \in processors' |-> IF q \in processors THEN thread[q] ELSE "none"]
    /\ status' = [q \in processors' |-> IF q \in processors THEN status[q] ELSE "stopped"]

\* startScheduler: emplace_back(new Processor(i)), then processors_[i]->loop().
Emplace(t) ==
    LET i == Cardinality(MadeBy(got[t])) IN
    /\ pc[t] = "start"
    /\ i < N
    /\ NewProcessor(<<got[t], i>>)
    /\ Goto(t, "loop")
    /\ UNCHANGED <<pScher, mtx, made, looping, got>>

StartLoop(t) ==
    /\ pc[t] = "loop"
    /\ looping' = looping \union MadeBy(got[t])
    /\ thread' = [p \in processors |-> IF p \in looping' \ looping THEN "init" ELSE thread[p]]
    /\ Goto(t, "start")
    /\ UNCHANGED <<pScher, mtx, made, processors, got, status>>

EndStart(t) ==
    /\ pc[t] = "start"
    /\ Cardinality(MadeBy(got[t])) = N
    /\ Goto(t, "unlock")
    /\ UNCHANGED <<getVars, lifeVars>>

\* The end of the lock_guard's block, and return pScher_.
Unlock(t) ==
    /\ pc[t] = "unlock"
    /\ mtx' = NoThread
    /\ got' = [got EXCEPT ![t] = pScher]
    /\ Goto(t, "slow")
    /\ UNCHANGED <<pScher, made, processors, looping, lifeVars>>

\* The caller uses the scheduler, and will ask for it again.
Use(t) ==
    /\ pc[t] \in {"fast", "slow"}
    /\ Goto(t, "out")
    /\ UNCHANGED <<getVars, lifeVars>>

-----------------------------------------------------------------------------
(* The threads of the processors.                                          *)

\* The epoller or the timer cannot be initialised: the thread returns.
InitFails(p) ==
    /\ thread[p] = "init"
    /\ thread' = [thread EXCEPT ![p] = "ended"]
    /\ UNCHANGED <<getVars, status, pc>>

BeginLoop(p) ==
    /\ thread[p] = "init"
    /\ thread' = [thread EXCEPT ![p] = "loop"]
    /\ status' = [status EXCEPT ![p] = "running"]
    /\ UNCHANGED <<getVars, pc>>

\* Mutant: each pass sets status_ to PRO_RUNNING.
StayRunning(p) ==
    /\ thread[p] = "loop"
    /\ status' = [status EXCEPT ![p] = "running"]
    /\ UNCHANGED <<getVars, thread, pc>>

\* A pass begins with the test of status_; passes go on for ever otherwise.
EndLoop(p) ==
    /\ thread[p] = "loop"
    /\ status[p] # "running"
    /\ thread' = [thread EXCEPT ![p] = "ended"]
    /\ status' = [status EXCEPT ![p] = "stopped"]
    /\ UNCHANGED <<getVars, pc>>

Returned(t) == pc[t] \in {"fast", "slow"}

\* getProcessor(i)->stop().
Stop(t) ==
    /\ Returned(t)
    /\ \E p \in MadeBy(got[t]) : status' = [status EXCEPT ![p] = "stopping"]
    /\ UNCHANGED <<getVars, thread, pc>>

\* sche_join, of which there is one.
CallJoin(t) ==
    /\ Returned(t)
    /\ looping = {got[t]} \X (0..N-1)
    /\ \A u \in Thread : pc[u] # "join"
    /\ \A p \in processors : thread[p] # "joined"
    /\ Goto(t, "join")
    /\ UNCHANGED <<getVars, lifeVars>>

\* Scheduler::join: the processors in their order.
JoinNext(t) ==
    /\ pc[t] = "join"
    /\ \E p \in MadeBy(got[t]) :
         /\ thread[p] = "ended"
         /\ \A q \in MadeBy(got[t]) : q[2] < p[2] => thread[q] = "joined"
         /\ thread' = [thread EXCEPT ![p] = "joined"]
    /\ UNCHANGED <<getVars, status, pc>>

EndJoin(t) ==
    /\ pc[t] = "join"
    /\ \A p \in MadeBy(got[t]) : thread[p] = "joined"
    /\ Goto(t, "out")
    /\ UNCHANGED <<getVars, lifeVars>>

-----------------------------------------------------------------------------
GetScheduler(t) ==
    \/ CheckUnlocked(t) \/ Lock(t) \/ CheckLocked(t) \/ Publish(t)
    \/ Emplace(t) \/ StartLoop(t) \/ EndStart(t) \/ Unlock(t)

LoopStep(p) == BeginLoop(p) \/ EndLoop(p)

Join(t) == JoinNext(t) \/ EndJoin(t)

Next ==
    \/ \E t \in Thread : GetScheduler(t) \/ Use(t) \/ Stop(t) \/ CallJoin(t) \/ Join(t)
    \/ \E p \in looping : InitFails(p) \/ LoopStep(p)

Spec == Init /\ [][Next]_vars

\* A thread in getScheduler runs on, and so does one in sche_join and every
\* loop, whose waits end after epollTimeOutMs.  Nothing says that the mutex is
\* fair.
FairSpec ==
    /\ Spec
    /\ \A t \in Thread : WF_vars(GetScheduler(t)) /\ WF_vars(Join(t))
    /\ WF_vars(\E p \in looping : LoopStep(p))

-----------------------------------------------------------------------------
(* Properties.                                                             *)

\* Only one thread at a time makes or starts a scheduler, and it has the mutex
\* from the second test of pScher_ to the last loop().
StartedAlone == \A t \in Thread : pc[t] \in Slow => mtx = t

\* However many threads ask at once, one scheduler is made, and all of them
\* are returned that one (scheduler.cc:52-67).
OneScheduler ==
    /\ made <= 1
    /\ \A t \in Thread : Returned(t) => got[t] = 1

\* A thread that had to wait for the mutex is returned a scheduler whose
\* processors all exist and loop() has been called for each of them, although
\* their threads may not have come far, or may have failed to begin
\* (scheduler.cc:52-67).
ReadyAfterMutex ==
    \A t \in Thread :
      pc[t] = "slow" => looping = {got[t]} \X (0..N-1)

\* A processor whose thread has ended, or will end: it could not be
\* initialised, or it was told to stop when its loop was running.
Ending(p) ==
    \/ thread[p] \in {"ended", "joined"}
    \/ thread[p] = "loop" /\ status[p] = "stopping"

\* sche_join returns when every processor has ended or has heard that it is to
\* stop.  A stop() that comes before the thread has set status_ to PRO_RUNNING
\* is overwritten and not heard, and sche_join then waits for ever; that is the
\* only way it can fail (processor.cc:122-140, 203, 213-221, scheduler.cc:83-89).
JoinReturns ==
    \A t \in Thread :
      (pc[t] = "join" /\ \A p \in processors : Ending(p)) ~> pc[t] = "out"

\* "A singleton with double-checked locking, for initialisation under several
\* threads" (server/QA.md:36): what a caller is returned is initialised.  Not
\* what the code does: pScher_ is set before startScheduler runs, and a caller
\* that finds it set does not wait for the processors.
ReadyWhenReturned ==
    \A t \in Thread :
      Returned(t) => looping = {got[t]} \X (0..N-1)
===============================================================================
