------------------------------ MODULE MCEcuSimC -------------------------------
(***************************************************************************)
(* EcuSimC with an ECU that sends one frame a turn and one that sends two  *)
(* or three: both at the counter and both at the vehicle the physics       *)
(* thread is writing.                                                      *)
(***************************************************************************)
EXTENDS EcuSimC

==============================================================================
