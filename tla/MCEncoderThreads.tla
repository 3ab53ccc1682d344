-------------------------- MODULE MCEncoderThreads --------------------------
(* EncoderThreads with a ring that is just large enough for its workers.    *)
EXTENDS EncoderThreads
=============================================================================
