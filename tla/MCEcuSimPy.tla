------------------------------ MODULE MCEcuSimPy ------------------------------
(***************************************************************************)
(* EcuSimPy for TLC: the body loop, which sends two or three frames a      *)
(* turn, next to the physics thread, over two runs, and a batch of a whole *)
(* second.                                                                 *)
(***************************************************************************)
EXTENDS EcuSimPy

==============================================================================
