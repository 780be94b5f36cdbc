------------------------------- MODULE MCParts -------------------------------
(***************************************************************************)
(* Instances for TLC of what a processor is built from: its Timer, its     *)
(* Pool, and the Selector that chooses between processors.  They share     *)
(* nothing, so a behaviour is one of one of them, the part, while the      *)
(* others stand still.  Calendar, the other user of times, has no state:   *)
(* TLC evaluates what is said of it as an assumption.                      *)
(***************************************************************************)
EXTENDS Timer, Calendar, Pool, Selector

ASSUME CalendarIsGregorian == DatesAreGregorian

VARIABLE part

PartsInit ==
    /\ part \in {"timer", "pool", "selector"}
    /\ Init
    /\ PoolInit
    /\ SelectorInit

TimerMoves ==
    part = "timer" /\ Next /\ UNCHANGED <<poolVars, selectorVars, part>>

PoolMoves ==
    part = "pool" /\ PoolNext /\ UNCHANGED <<vars, selectorVars, part>>

SelectorMoves ==
    part = "selector" /\ SelectorNext /\ UNCHANGED <<vars, poolVars, part>>

\* Every coroutine there was to be has been created and has ended.
SelectorDone ==
    /\ part = "selector"
    /\ created = MaxCo
    /\ \A t \in Thread : step[t] = "idle"
    /\ \A p \in Processor : coCnt[p] + queued[p] = 0
    /\ UNCHANGED <<vars, poolVars, selectorVars, part>>

PartsNext == TimerMoves \/ PoolMoves \/ SelectorMoves \/ SelectorDone

\* Timer's fairness.
PartsSpec ==
    /\ PartsInit /\ [][PartsNext]_<<vars, poolVars, selectorVars, part>>
    /\ SF_vars(part = "timer" /\ Tick)
    /\ WF_vars(part = "timer" /\ Fire)
    /\ WF_vars(part = "timer" /\ LoopStep)
===============================================================================
