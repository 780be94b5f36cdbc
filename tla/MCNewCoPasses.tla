---------------------------- MODULE MCNewCoPasses ----------------------------
(***************************************************************************)
(* NewCoQueue for TLC with a history variable: what was in the queues when *)
(* the pass under way began, as epoll_wait returned, and has not been run  *)
(* since.                                                                  *)
(***************************************************************************)
EXTENDS NewCoQueue

CONSTANTS p1, a, b, c

VARIABLE awaited

\* goCo of a and of b, goCoBatch of b and c.
SinglesAndAPair == {<<a>>, <<b>>, <<b, c>>}

PassesInit == Init /\ awaited = {}

PassesNext ==
    \/ /\ Poll
       /\ awaited' = {co \in Coroutine : Queued(co)}
    \/ /\ RunNewCo
       /\ awaited' = awaited \ {cur'}
    \/ /\ Next /\ ~(Poll \/ RunNewCo)
       /\ UNCHANGED awaited

PassesSpec == PassesInit /\ [][PassesNext]_<<vars, awaited>>

\* "... then wakes epoll through the timerfd, and so the new coroutine can be
\* run the next time the main coroutine runs" (server/QA.md:55): a coroutine
\* that is in the queue when epoll_wait returns is run in the pass that begins.
\* Not what the code does: that pass drains the other queue, and flips only
\* then (processor.cc:163-179).
RunInNextPass == loopPc = "flip" => awaited = {}
=============================================================================
