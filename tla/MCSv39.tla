------------------------------- MODULE MCSv39 -------------------------------
(* Sv39 for TLC: two entries in a table, so eight virtual pages. *)
EXTENDS Sv39

MCFrames == 0 .. 8

MCTableFrames == 5 .. 8

MCPerms == {{}, {"R", "W"}, {"R", "X"}}
=============================================================================
