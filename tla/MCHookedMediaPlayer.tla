------------------------ MODULE MCHookedMediaPlayer ------------------------
(* HookedMediaPlayer with model values for the threads. *)
EXTENDS HookedMediaPlayer

CONSTANTS w1, w2

\* The threads of the application besides the UI thread.
TwoWorkers == {w1, w2}

\* The threads that call stop().
Anyone == {Ui, w1, w2}
=============================================================================
