----------------------------- MODULE MCDetection ------------------------------
(* Detection for TLC: two handler threads that may be exchanged, and a     *)
(* window and a history shorter than the run, so that both overflow.       *)
EXTENDS Detection, TLC

ThreadSymmetry == Permutations(Threads)

==============================================================================
