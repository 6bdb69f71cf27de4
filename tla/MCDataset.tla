------------------------------- MODULE MCDataset -------------------------------
(* Streams of up to three frames of two ids: a transmission frame that is  *)
(* too short to be decoded, one that is refused, one whose dlc cuts its    *)
(* data and one of the same id that is whole.  Two times round up and down.*)
EXTENDS Dataset

MCFrames == {[id |-> 384, dlc |-> 1, data |-> <<7>>],
             [id |-> 384, dlc |-> 4, data |-> <<7, 0, 0, 1>>],
             [id |-> 0,   dlc |-> 2, data |-> <<1, 2, 3>>],
             [id |-> 0,   dlc |-> 3, data |-> <<1, 0, 3>>]}

===============================================================================
