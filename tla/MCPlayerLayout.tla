--------------------------- MODULE MCPlayerLayout ---------------------------
(* PlayerLayout with an upright, a wide and an empty container. *)
EXTENDS PlayerLayout

\* The upright one has the very shape of a video.
MCContainers == {<<4, 6>>, <<7, 4>>, <<0, 4>>}
MCSizeModes ==
  {"bestFit", "fitHorizontal", "fitVertical", "fill", "16:9", "4:3", "original"}

Video(w, h, crop, num, den) ==
  [width |-> w + crop, height |-> h + crop, visibleWidth |-> w,
   visibleHeight |-> h, sarNum |-> num, sarDen |-> den]

\* Shapes of all kinds, cropped or not, with square pixels (also 0:0, unknown)
\* and without, and a video that has no size yet.
MCVideos ==
  {Video(1, 9, 0, 0, 0), Video(8, 3, 0, 1, 1), Video(8, 3, 1, 4, 3),
   Video(2, 3, 0, 0, 0), Video(0, 0, 0, 0, 0)}

MCHeights == {0, 3}
=============================================================================
