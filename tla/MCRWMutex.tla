------------------------------ MODULE MCRWMutex ------------------------------
(***************************************************************************)
(* Instances of RWMutex for TLC.                                           *)
(***************************************************************************)
EXTENDS RWMutex, TLC

CONSTANTS a, b, c, p1, p2

\* a and b share a thread, c has its own.
TwoProcessors == (a :> p1) @@ (b :> p1) @@ (c :> p2)
=============================================================================
