---------------------------- MODULE CoroutineLife ----------------------------
(***************************************************************************)
(* What a processor promises about the coroutine in each of its objects:   *)
(* it is run once it is ready, runs alone, goes on only where it was       *)
(* suspended, and its object is free again only after it has ended and has *)
(* left the processor's thread.                                            *)
(***************************************************************************)
CONSTANT Object

VARIABLE life \* of each object: what the coroutine in it does

LifeInit == life = [o \in Object |-> "free"]

Become(o, from, to) == life[o] \in from /\ life' = [life EXCEPT ![o] = to]

Create(o)  == Become(o, {"free"}, "ready")
Run(o)     == /\ \A p \in Object : life[p] # "running"
              /\ Become(o, {"ready", "waiting"}, "running")
Suspend(o) == Become(o, {"running"}, "waiting")
End(o)     == Become(o, {"running"}, "dead")
Reclaim(o) == Become(o, {"dead"}, "free")

LifeNext == \E o \in Object : Create(o) \/ Run(o) \/ Suspend(o) \/ End(o)
                              \/ Reclaim(o)

LifeSpec == LifeInit /\ [][LifeNext]_life
===============================================================================
