---------------------------- MODULE MCWsEndpoint ----------------------------
(***************************************************************************)
(* Messages that differ from those of a desktop in one place, or in a few. *)
(***************************************************************************)
EXTENDS WsEndpoint, TLC

OneReading == {0}

\* Loads are explored while one connection is open, with a session that messages
\* can carry and no segment recognised before: what they decide here is the VAD
\* of the session, which a second connection, or an answer, has no part in.
LoadAlone ==
    \/ bundle = 0
    \/ /\ Cardinality({c \in Conns : task[c].stage # "closed"}) <= 1
       /\ misfits = {}
       /\ \A s \in Segments : 0 \notin ran[s]

AnyStart == StartMessage(CHOOSE i \in SessionIds : TRUE)

OddTexts ==
    {[AnyStart EXCEPT !.body = "garbage"], [AnyStart EXCEPT !.body = "value"],
     [AnyStart EXCEPT !.protocol_version = "0.9"], [AnyStart EXCEPT !.langs = FALSE],
     [AnyStart EXCEPT !.fits = FALSE],
     [AnyStart EXCEPT !.session_id = Absent], [AnyStart EXCEPT !.type = "session.pause"],
     [AnyStart EXCEPT !.type = "session.stop"]}

\* A frame with a payload of 4 bytes, or of 1, and a header of 3.
AnyFrame == RustEncode(FrameHeader(CHOOSE i \in SessionIds : TRUE, 4), 3, 4)

With(header) == [AnyFrame EXCEPT !.header = header]

OddBlobs ==
    LET h == AnyFrame.header IN
    {[AnyFrame EXCEPT !.magic = FALSE], [AnyFrame EXCEPT !.size = 9],
     [AnyFrame EXCEPT !.json = FALSE], [AnyFrame EXCEPT !.header_len = 6],
     With([h EXCEPT !.payload_size = 1]), With([h EXCEPT !.protocol_version = Absent]),
     With([h EXCEPT !.type = "tts.audio"]), With([h EXCEPT !.session_id = Absent]),
     With([h EXCEPT !.session_id = "ses_other"]),
     With([h EXCEPT !.payload_size = Absent, !.channels = 3, !.sample_rate = 8000]),
     RustEncode([h EXCEPT !.payload_size = 1], 3, 1)}
=============================================================================
