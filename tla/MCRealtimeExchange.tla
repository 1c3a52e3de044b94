------------------------- MODULE MCRealtimeExchange -------------------------
(***************************************************************************)
(* Frames from one or two devices, cut out of chunks shorter and longer    *)
(* than a frame, and a service that makes at most one segment of a frame.  *)
(***************************************************************************)
EXTENDS RealtimeExchange

Sizes == {1, 3}
=============================================================================
