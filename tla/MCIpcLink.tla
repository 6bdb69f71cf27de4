------------------------------ MODULE MCIpcLink -------------------------------
(* IpcLink for TLC: a frame of three bytes read in chunks of up to four,   *)
(* so that chunk and frame boundaries drift apart as 24 and 4096 do, and a *)
(* stream that holds two frames and a byte, so that writes block.          *)
EXTENDS IpcLink

==============================================================================
