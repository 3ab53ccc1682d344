--------------------------- MODULE MCFrameThreads ---------------------------
(* FrameThreads for the decoders of the build: H.264 with callbacks of the   *)
(* application, and PNG with the default ones.                               *)
EXTENDS FrameThreads

MCCodecs == {[delay |-> TRUE, safe |-> FALSE, fields |-> TRUE],
             [delay |-> FALSE, safe |-> TRUE, fields |-> FALSE]}
=============================================================================
