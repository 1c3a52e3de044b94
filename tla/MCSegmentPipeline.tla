------------------------- MODULE MCSegmentPipeline -------------------------
(***************************************************************************)
(* Values for checking SegmentPipeline: the clock is either before or past *)
(* the ttl of a segment that was queued at the first reading.              *)
(***************************************************************************)
EXTENDS SegmentPipeline, TLC

ClockReadings == {0, 2}

\* Loads, which only change the generation that a segment runs on, are not
\* combined with a second session object or with one that no message can carry.
LoadOrRestart == bundle = 0 \/ (lives <= 1 /\ misfits = {})

PipelineSymmetry == Permutations(Segments) \cup Permutations(Conns)
=============================================================================
