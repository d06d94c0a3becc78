----------------------------- MODULE FrameQueue -----------------------------
(***************************************************************************)
(* What FrameRingBuffer (include/RingBuffer.h) promises to its two users:  *)
(* a bounded FIFO of frames.  The capture thread appends, the encoder-feed *)
(* thread takes from the front, nothing is lost or repeated once accepted, *)
(* and the newest frame is refused when the queue is full.                 *)
(*                                                                         *)
(* A ring of Capacity slots holds Capacity-1 frames.  A push may be        *)
(* refused one frame earlier: TryPop takes the frame out of its slot       *)
(* before it gives the slot back, and a push in between still sees the     *)
(* slot as occupied.                                                       *)
(***************************************************************************)
EXTENDS Naturals, Sequences

CONSTANTS Frames,    \* the frames the capture thread may push
          Capacity   \* number of slots of the ring

VARIABLE queue       \* frames accepted and not yet taken, oldest first

TypeOK == queue \in Seq(Frames) /\ Len(queue) < Capacity

Init == queue = << >>

Push(f) == Len(queue) < Capacity - 1 /\ queue' = Append(queue, f)

Pop == queue # << >> /\ queue' = Tail(queue)

Clear == queue' = << >>

Next == (\E f \in Frames : Push(f)) \/ Pop \/ Clear

Spec == Init /\ [][Next]_queue
=============================================================================
