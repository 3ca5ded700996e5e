------------------------------- MODULE MCSwitch -------------------------------
(***************************************************************************)
(* The instance of Switch that is model-checked: all nine builds, and of   *)
(* each field the values that tell layouts apart: none of its bits, its    *)
(* lowest, its highest, all of them.                                       *)
(***************************************************************************)
EXTENDS Switch

MCValues == [w \in 1 .. 32 |-> {{}, {0}, {w - 1}, 0 .. w - 1}]
===============================================================================
