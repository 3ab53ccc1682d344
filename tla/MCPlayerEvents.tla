--------------------------- MODULE MCPlayerEvents ---------------------------
(* PlayerEvents with model values for the players and the threads. *)
EXTENDS PlayerEvents, TLC

CONSTANTS p1, p2, w1

OnePlayer == {p1}
TwoPlayers == {p1, p2}
NoWorkers == {}
OneWorker == {w1}

\* The events in which the order of onPlay, onComplete and onStopped is decided.
OrderEvents == {"position", "end", "stopped"}
\* The events whose callbacks come in pairs, from which stop() may be called,
\* and the one whose callback is not tested for.
PairEvents == {"position", "end", "error"}

\* Players only differ in name: sound for the runs without liveness.
PlayerSymmetry == Permutations(Players)
=============================================================================
