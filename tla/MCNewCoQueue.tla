---------------------------- MODULE MCNewCoQueue ----------------------------
(***************************************************************************)
(* Instances of NewCoQueue for TLC.                                        *)
(***************************************************************************)
EXTENDS NewCoQueue

CONSTANTS p1, p2, a, b, c

\* goCo of a and of b, goCoBatch of b and c.
SinglesAndAPair == {<<a>>, <<b>>, <<b, c>>}
=============================================================================
