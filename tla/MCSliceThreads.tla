--------------------------- MODULE MCSliceThreads ---------------------------
(* SliceThreads with fewer jobs than workers, as many, and more.            *)
EXTENDS SliceThreads

MCJobCounts == {1, 3, 5}
=============================================================================
