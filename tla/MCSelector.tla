------------------------------ MODULE MCSelector ------------------------------
(***************************************************************************)
(* Instances of Selector for TLC, beside MCParts.                          *)
(***************************************************************************)
EXTENDS Selector
===============================================================================
