---------------------------- MODULE FrameService ----------------------------
(***************************************************************************)
(* What libavcodec promises of a codec that works on several frames at     *)
(* once: the caller hands frames in one at a time and receives their       *)
(* results in the same order, each once, while at most Depth frames are    *)
(* inside.  Frames still inside are dropped when the codec is flushed or   *)
(* closed.  ff_thread_video_encode_frame (EncoderThreads) and              *)
(* ff_thread_decode_frame (FrameThreads) implement it.                     *)
(***************************************************************************)
EXTENDS Integers, Sequences

CONSTANTS Frame,  \* the frames handed in
          Depth   \* how many may be inside

VARIABLES inside,   \* the frames handed in whose result is due, oldest first
          received  \* the frames whose results were received, in order

vars == <<inside, received>>

Init == inside = <<>> /\ received \notin Frame

\* The caller hands in a frame.
Submit(f) ==
  /\ Len(inside) < Depth
  /\ inside' = Append(inside, f)
  /\ UNCHANGED received

\* The caller receives the result of the oldest frame.
Receive ==
  /\ inside # <<>>
  /\ received' = Head(inside)
  /\ inside' = Tail(inside)

\* The codec is flushed or closed.
Drop == inside' = <<>> /\ UNCHANGED received

Next ==
  \/ \E f \in Frame : Submit(f)
  \/ Receive
  \/ Drop

Spec == Init /\ [][Next]_vars
=============================================================================
