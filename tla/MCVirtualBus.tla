----------------------------- MODULE MCVirtualBus -----------------------------
(* VirtualBus for TLC: two senders of two frames, and two queues of one    *)
(* place, so that senders wait for each other and queues overflow.         *)
EXTENDS VirtualBus

==============================================================================
