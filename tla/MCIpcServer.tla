----------------------------- MODULE MCIpcServer ------------------------------
(* IpcServer for TLC: three runs of the server, so that a thread that      *)
(* outlived the first stop() can meet both of the later ones.              *)
EXTENDS IpcServer

==============================================================================
