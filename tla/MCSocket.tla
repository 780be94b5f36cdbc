------------------------------- MODULE MCSocket -------------------------------
(***************************************************************************)
(* Instances of Socket for TLC.                                            *)
(***************************************************************************)
EXTENDS Socket

CONSTANT First  \* the acceptor that accepts in either scene

\* What acceptors do to each other does not depend on what is sent: a behaviour
\* has either all acceptors and ends that only read and close, or one acceptor
\* and ends that do everything.
VARIABLE scene

ScenesInit == Init /\ scene \in {"accept", "talk"}

Accepts(a) == scene = "accept" \/ a = First

ScenesNext ==
    /\ Next
    /\ scene = "accept" => UNCHANGED call
    /\ \A a \in Acceptor : Accepts(a) \/ UNCHANGED apc[a]
    /\ UNCHANGED scene

\* Socket's fairness.
ScenesSpec ==
    /\ ScenesInit /\ [][ScenesNext]_<<vars, scene>>
    /\ \A k \in Conn : WF_vars(ConnectStep(k)) /\ SF_vars(Establish(k))
    /\ \A a \in Acceptor : WF_vars(Accepts(a) /\ AcceptStep(a))
===============================================================================
