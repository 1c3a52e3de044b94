-------------------------- MODULE SegmentProtocol --------------------------
(***************************************************************************)
(* What the wire promises about one segment: its messages reach the client *)
(* in the order asr.partial, asr.final, translate.result, tts.audio, each  *)
(* at most once; an error may end the segment anywhere on the way, and     *)
(* nothing follows an error or the audio.                                  *)
(***************************************************************************)
CONSTANT Segments

VARIABLE last      \* per segment, the type of the latest message delivered

Messages == {"none", "asr.partial", "asr.final", "translate.result", "tts.audio", "error"}

\* The message types that may come next.
Follows(m) ==
    CASE m = "none"             -> {"asr.partial", "error"}
      [] m = "asr.partial"      -> {"asr.final", "error"}
      [] m = "asr.final"        -> {"translate.result", "error"}
      [] m = "translate.result" -> {"tts.audio", "error"}
      [] OTHER                  -> {}

Init == last = [s \in Segments |-> "none"]

Deliver(s, m) ==
    /\ m \in Follows(last[s])
    /\ last' = [last EXCEPT ![s] = m]

Next == \E s \in Segments, m \in Messages : Deliver(s, m)

Spec == Init /\ [][Next]_last
=============================================================================
