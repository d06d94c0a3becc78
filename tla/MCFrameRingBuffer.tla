------------------------- MODULE MCFrameRingBuffer -------------------------
(* FrameRingBuffer for TLC: two frames, so that order is visible, and a    *)
(* ring of four slots, so that full, empty and wrapped around all differ.  *)
EXTENDS FrameRingBuffer
CONSTANTS f1, f2
MCFrames == {f1, f2}
=============================================================================
