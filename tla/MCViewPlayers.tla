--------------------------- MODULE MCViewPlayers ---------------------------
(* ViewPlayers with model values: two players for the view, one for audio. *)
EXTENDS ViewPlayers

CONSTANTS p1, p2, a1

TwoAndAudio == {p1, p2, a1}
Audio == {a1}
=============================================================================
