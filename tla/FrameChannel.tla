----------------------------- MODULE FrameChannel -----------------------------
(***************************************************************************)
(* What the C-to-Python IPC link promises the detection side, with no      *)
(* sockets, bytes or threads in it: frames go in at one end one at a time  *)
(* and come out of the other in the same order, whole and at most once.    *)
(* While the server is in service every frame put in comes out; once it    *)
(* has been stopped at most LateMax more come out.                         *)
(***************************************************************************)
EXTENDS Naturals, Sequences

CONSTANTS Frames,   \* the frames the bus may carry
          LateMax   \* frames that may still come out after the stop

VARIABLES input,    \* frames put in, oldest first
          output,   \* frames that came out, oldest first
          serving,  \* the server has not been stopped
          late      \* frames that came out after the stop

channelVars == <<input, output, serving, late>>

ChannelInit ==
    /\ input = <<>>
    /\ output = <<>>
    /\ serving = TRUE
    /\ late = 0

Put(f) ==
    /\ input' = Append(input, f)
    /\ UNCHANGED <<output, serving, late>>

(* The oldest frame still inside comes out.                                *)
ComeOut ==
    /\ Len(output) < Len(input)
    /\ output' = Append(output, input[Len(output) + 1])
    /\ UNCHANGED <<input, serving>>

TakeInService ==
    /\ serving
    /\ ComeOut
    /\ UNCHANGED late

TakeLate ==
    /\ ~serving
    /\ late < LateMax
    /\ ComeOut
    /\ late' = late + 1

EndService ==
    /\ serving
    /\ serving' = FALSE
    /\ UNCHANGED <<input, output, late>>

ChannelNext ==
    \/ \E f \in Frames : Put(f)
    \/ TakeInService
    \/ TakeLate
    \/ EndService

SafeChannel == ChannelInit /\ [][ChannelNext]_channelVars

(* And a server in service delivers what has been put in.                  *)
ChannelSpec == SafeChannel /\ WF_channelVars(TakeInService)

==============================================================================
