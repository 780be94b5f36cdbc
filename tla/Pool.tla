---------------------------------- MODULE Pool ----------------------------------
(***************************************************************************)
(* coPool_, from which a processor's coroutines are made (objpool.h,       *)
(* mempool.h): blocks of nodes from malloc, and a list of the free nodes   *)
(* whose links are kept in the free nodes themselves, where an object in   *)
(* use has its first member.  Any thread makes objects, the processor's    *)
(* loop deletes them, all under coPoolLock_.                               *)
(*                                                                         *)
(* Nodes are numbered in the order in which malloc gave them.  A block     *)
(* never goes back to malloc while the processor lives.                    *)
(***************************************************************************)
EXTENDS Naturals, FiniteSets

CONSTANTS Others,     \* the threads that are not this processor's loop
          Loop,       \* the thread of this processor's loop
          MallocCnt,  \* memPoolMallocObjCnt
          MaxObjects, \* how many coroutines there are at a time
          Data        \* the first bytes of an object

Threads == Others \union {Loop}

\* nullptr.
Null == 0

ASSUME PoolAssumption ==
    /\ Loop \notin Others
    /\ MallocCnt \in Nat \ {0}
    /\ MaxObjects \in Nat
    /\ Data \notin Nat

VARIABLES
    made,        \* how many nodes malloc has given
    mallocTimes, \* _mallocTimes
    mem,         \* the first bytes of each node: next, or Data
    head,        \* _freeListHead
    locked,      \* coPoolLock_
    at,          \* where each thread is
    obj          \* obj[t]: the node that t allocates or frees

poolVars == <<made, mallocTimes, mem, head, locked, at, obj>>

PoolTypeOK ==
    /\ made \in Nat
    /\ mallocTimes \in Nat
    /\ mem \in [1..made -> (0..made) \union {Data}]
    /\ head \in 0..made
    /\ locked \in BOOLEAN
    /\ at \in [Threads -> {"idle", "new", "alloc", "pop", "build",
                           "delete", "destroy", "link", "push", "unlock"}]
    /\ obj \in [Threads -> 0..made]

PoolInit ==
    /\ made = 0
    /\ mallocTimes = 0
    /\ mem = [n \in {} |-> Null]
    /\ head = Null
    /\ locked = FALSE
    /\ at = [t \in Threads |-> "idle"]
    /\ obj = [t \in Threads |-> Null]

Goto(t, l) == at' = [at EXCEPT ![t] = l]

\* The nodes that t alone knows of.
InHand(t) == {n \in {obj[t]} : at[t] \in {"build", "destroy", "link", "push"}}

\* The nodes in which there is an object.
Live == {n \in 1..made : mem[n] = Data /\ \A t \in Threads : n \notin InHand(t)}

Allocating == {t \in Threads : at[t] \in {"new", "alloc", "pop", "build"}}

-----------------------------------------------------------------------------
(* goNewCo, and the deletion at the end of the loop's pass.                *)

NewObj(t) ==
    /\ at[t] = "idle"
    /\ Cardinality(Live) + Cardinality(Allocating) < MaxObjects
    /\ Goto(t, "new")
    /\ UNCHANGED <<made, mallocTimes, mem, head, locked, obj>>

DeleteObj(n) ==
    /\ at[Loop] = "idle"
    /\ n \in Live
    /\ obj' = [obj EXCEPT ![Loop] = n]
    /\ Goto(Loop, "delete")
    /\ UNCHANGED <<made, mallocTimes, mem, head, locked>>

Enter(t) == Goto(t, IF at[t] = "new" THEN "alloc" ELSE "destroy")

\* Mutant: the loop deletes without the lock.
LockToMake(t) ==
    /\ at[t] \in {"new", "delete"}
    /\ at[t] = "new" => ~locked
    /\ locked' = TRUE
    /\ Enter(t)
    /\ UNCHANGED <<made, mallocTimes, mem, head, obj>>

Lock(t) ==
    /\ at[t] \in {"new", "delete"}
    /\ ~locked
    /\ locked' = TRUE
    /\ Enter(t)
    /\ UNCHANGED <<made, mallocTimes, mem, head, obj>>

Unlock(t) ==
    /\ at[t] = "unlock"
    /\ locked' = FALSE
    /\ obj' = [obj EXCEPT ![t] = Null]
    /\ Goto(t, "idle")
    /\ UNCHANGED <<made, mallocTimes, mem, head>>

-----------------------------------------------------------------------------
(* AllocAMemBlock, and the constructor.                                    *)

\* malloc gives one more node than the time before; the last is the first
\* of the list.
Grow(t) ==
    /\ at[t] = "alloc"
    /\ head = Null
    /\ made' = made + MallocCnt + mallocTimes
    /\ mallocTimes' = mallocTimes + 1
    /\ mem' = [n \in 1..made' |-> CASE n <= made     -> mem[n]
                                    [] n = made + 1 -> head
                                    [] n > made + 1 -> n - 1]
    /\ head' = made'
    /\ UNCHANGED <<locked, at, obj>>

\* Mutant: the object is built before the list goes on to next.
TakeAndBuild(t) ==
    /\ at[t] = "alloc"
    /\ head # Null
    /\ obj' = [obj EXCEPT ![t] = head]
    /\ mem' = [mem EXCEPT ![head] = Data]
    /\ Goto(t, "pop")
    /\ UNCHANGED <<made, mallocTimes, head, locked>>

Take(t) ==
    /\ at[t] = "alloc"
    /\ head # Null
    /\ obj' = [obj EXCEPT ![t] = head]
    /\ Goto(t, "pop")
    /\ UNCHANGED <<made, mallocTimes, mem, head, locked>>

Pop(t) ==
    /\ at[t] = "pop"
    /\ head' = mem[head]
    /\ Goto(t, "build")
    /\ UNCHANGED <<made, mallocTimes, mem, locked, obj>>

Build(t) ==
    /\ at[t] = "build"
    /\ mem' = [mem EXCEPT ![obj[t]] = Data]
    /\ Goto(t, "unlock")
    /\ UNCHANGED <<made, mallocTimes, head, locked, obj>>

-----------------------------------------------------------------------------
(* The destructor, and FreeAMemBlock.                                      *)

Destroy(t) ==
    /\ at[t] = "destroy"
    /\ Goto(t, "link")
    /\ UNCHANGED <<made, mallocTimes, mem, head, locked, obj>>

\* Mutant: the node does not point to the rest of the list.
LinkAlone(t) ==
    /\ at[t] = "link"
    /\ mem' = [mem EXCEPT ![obj[t]] = Null]
    /\ Goto(t, "push")
    /\ UNCHANGED <<made, mallocTimes, head, locked, obj>>

Link(t) ==
    /\ at[t] = "link"
    /\ mem' = [mem EXCEPT ![obj[t]] = head]
    /\ Goto(t, "push")
    /\ UNCHANGED <<made, mallocTimes, head, locked, obj>>

Push(t) ==
    /\ at[t] = "push"
    /\ head' = obj[t]
    /\ Goto(t, "unlock")
    /\ UNCHANGED <<made, mallocTimes, mem, locked, obj>>

-----------------------------------------------------------------------------
PoolNext ==
    \/ \E t \in Threads :
         \/ NewObj(t) \/ Lock(t) \/ Unlock(t)
         \/ Grow(t) \/ Take(t) \/ Pop(t) \/ Build(t)
         \/ Destroy(t) \/ Link(t) \/ Push(t)
    \/ \E n \in 1..made : DeleteObj(n)

PoolSpec == PoolInit /\ [][PoolNext]_poolVars

-----------------------------------------------------------------------------
(* Properties.                                                             *)

\* The k-th node of the free list, or Null behind its end.
Nth[k \in Nat] ==
    IF k = 0 THEN head
    ELSE LET n == Nth[k - 1] IN IF n \in DOMAIN mem THEN mem[n] ELSE Null

\* Every node is in one place: once in the free list, or an object in use, or
\* in the hand of one thread.  So no node is given to two coroutines, none is
\* lost, and the list ends, although its links are overwritten by every object
\* that is built (mempool.h:79-114, processor.cc:233-250, 188-196).
EachNodeOnce ==
    \A n \in 1..made :
        Cardinality(   {<<"list", k>> : k \in {k \in 0..made : Nth[k] = n}}
                \union {<<"live", x>> : x \in {n} \cap Live}
                \union {<<"hand", t>> : t \in {t \in Threads : n \in InHand(t)}}) = 1

\* The pool asks for memory only when every node there is is in use, so that
\* what it holds follows the largest number of coroutines there were at a time
\* and not the number that were ever created (mempool.h:82-98).
GrowsOnlyWhenFull == [][made' # made => Cardinality(Live) = made]_poolVars
=================================================================================
