-------------------------- MODULE MCMediaOwnership --------------------------
(* MediaOwnership with three threads and four media. *)
EXTENDS MediaOwnership

CONSTANTS t1, t2, t3, m1, m2, m3, m4

ThreeThreads == {t1, t2, t3}
FourMedias == {m1, m2, m3, m4}
=============================================================================
