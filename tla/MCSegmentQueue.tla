--------------------------- MODULE MCSegmentQueue ---------------------------
(***************************************************************************)
(* Values for checking SegmentQueue: four clock readings with a ttl of one *)
(* tick, so an item can be fresh, exactly at the ttl, and stale; with four *)
(* segments for two slots, refusals and evictions can both happen twice.   *)
(***************************************************************************)
EXTENDS SegmentQueue, TLC

ClockReadings == 0..3

SegmentSymmetry == Permutations(Segments)
=============================================================================
