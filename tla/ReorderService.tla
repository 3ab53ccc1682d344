--------------------------- MODULE ReorderService ---------------------------
(***************************************************************************)
(* What libx264 promises about the order of frames: they are handed in as  *)
(* they are displayed and are encoded group by group, a group being some   *)
(* consecutive frames of which the last, the anchor, is encoded first and  *)
(* the others, at most bframes of them, after it.  A group is finished     *)
(* before the next is begun.                                               *)
(***************************************************************************)
EXTENDS Integers

VARIABLES
  bframes, \* at most so many frames between two anchors, fixed at the start
  input,   \* how many frames have been handed in
  inside,  \* the frames that have not been encoded
  anchor   \* the anchor encoded last, 0 before the first

vars == <<bframes, input, inside, anchor>>

Init == bframes \in Nat /\ input = 0 /\ inside = {} /\ anchor = 0

Submit ==
  /\ input' = input + 1
  /\ inside' = inside \cup {input + 1}
  /\ UNCHANGED <<bframes, anchor>>

EncodeAnchor(f) ==
  /\ \A g \in inside : g > anchor
  /\ f \in anchor + 1 .. anchor + 1 + bframes
  /\ anchor' = f
  /\ inside' = inside \ {f}
  /\ UNCHANGED <<bframes, input>>

EncodeB(f) ==
  /\ f < anchor
  /\ inside' = inside \ {f}
  /\ UNCHANGED <<bframes, input, anchor>>

\* The encoder is closed.
Drop == inside' = {} /\ UNCHANGED <<bframes, input, anchor>>

Next ==
  \/ Submit
  \/ \E f \in inside : EncodeAnchor(f) \/ EncodeB(f)
  \/ Drop

Spec == Init /\ [][Next]_vars
=============================================================================
