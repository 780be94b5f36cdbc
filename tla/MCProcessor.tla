------------------------------ MODULE MCProcessor ------------------------------
(***************************************************************************)
(* Instances of Processor for TLC.                                         *)
(***************************************************************************)
EXTENDS Processor

CONSTANTS o1, o2, o3, f1, f2, t1, t2

TwoObjects   == {o1, o2}
ThreeObjects == {o1, o2, o3}
===============================================================================
