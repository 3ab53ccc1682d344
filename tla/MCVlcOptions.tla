---------------------------- MODULE MCVlcOptions ----------------------------
(* VlcOptions around the boundaries of its tests. *)
EXTENDS VlcOptions

MCSpeeds == {1199, 1200, 1201}
MCProcessors == {2, 3}
MCPreferences == {-2, -1, 0, 4, 5, NotANumber}
MCCaches == {-1, 0, 60000, 60001}
=============================================================================
