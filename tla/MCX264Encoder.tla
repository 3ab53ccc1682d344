--------------------------- MODULE MCX264Encoder ---------------------------
(* X264Encoder with a lookahead thread, without it, and with one thread.     *)
EXTENDS X264Encoder

MCParams ==
  {[bframes |-> 2, slicetype_length |-> 3, sync |-> 1, vfr |-> 0, threads |-> 2],
   [bframes |-> 1, slicetype_length |-> 1, sync |-> 2, vfr |-> 1, threads |-> 2],
   [bframes |-> 1, slicetype_length |-> 1, sync |-> 0, vfr |-> 1, threads |-> 3],
   [bframes |-> 3, slicetype_length |-> 3, sync |-> 0, vfr |-> 0, threads |-> 1]}
=============================================================================
