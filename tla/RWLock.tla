------------------------------- MODULE RWLock -------------------------------
(***************************************************************************)
(* What RWMutex promises to the coroutines that use it (mutex.h:32-50):    *)
(* many readers or one writer.  No state word, no count and no waiters.    *)
(***************************************************************************)
CONSTANT Coroutine

VARIABLE mode \* mode[c]: how c holds the lock

RWInit == mode = [c \in Coroutine |-> "none"]

AcquireRead(c) ==
    /\ mode[c] = "none"
    /\ \A d \in Coroutine : mode[d] # "write"
    /\ mode' = [mode EXCEPT ![c] = "read"]

AcquireWrite(c) ==
    /\ \A d \in Coroutine : mode[d] = "none"
    /\ mode' = [mode EXCEPT ![c] = "write"]

Release(c) ==
    /\ mode[c] # "none"
    /\ mode' = [mode EXCEPT ![c] = "none"]

RWNext == \E c \in Coroutine : AcquireRead(c) \/ AcquireWrite(c) \/ Release(c)

RWSpec == RWInit /\ [][RWNext]_mode
=============================================================================
