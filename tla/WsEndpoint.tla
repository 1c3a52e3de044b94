----------------------------- MODULE WsEndpoint -----------------------------
(***************************************************************************)
(* The WebSocket endpoint of the service (runtime/ws.py) on top of         *)
(* SegmentPipeline: _handle_text and _handle_binary read the messages of   *)
(* any client, a desktop or not, and decide which step of the pipeline     *)
(* they are.                                                               *)
(***************************************************************************)
EXTENDS SegmentPipeline, BinaryFrame

CONSTANTS
    Texts,       \* the text messages that clients send
    Blobs,       \* the binary messages that clients send
    HeaderLens,  \* lengths of the JSON header a desktop makes
    FrameLens,   \* lengths of the audio in a frame of a desktop
    SileroLoads  \* the generations of the model bundle whose VAD is Silero

ASSUME EndpointAssumption ==
    /\ Absent \notin SessionIds \cup {None}
    /\ \A n \in HeaderLens : n \in Nat /\ n <= MaxHeaderBytes
    /\ \A n \in FrameLens : n \in Nat /\ n % 2 = 0
    /\ \A h \in HeaderLens, n \in FrameLens : PrefixLen + h + n <= MaxFrameBytes
    /\ \A m \in Texts : m.fits \in BOOLEAN
    /\ SileroLoads \subseteq Nat

VARIABLES
    frame,    \* per connection: the audio frame that ingest_pcm has yet to convert
    vad       \* per session id: the load whose VAD its RollingVad was made with

wsVars == <<registry, lives, misfits, asrLocked, trLocked, born, queue, bundle,
            loop, task, peer, last, ran, frame, vad>>

Registered == {i \in SessionIds : registry[i] # NoLife}

WsInit ==
    /\ Init
    /\ frame = [c \in Conns |-> None]
    /\ vad = [i \in SessionIds |-> None]

-----------------------------------------------------------------------------
\* What a desktop sends (realtime.rs, audio.rs).

\* session_start_message()
StartMessage(i) ==
    [body |-> "object", protocol_version |-> ProtocolVersion, type |-> "session.start",
     session_id |-> i, langs |-> TRUE, fits |-> TRUE]

\* The header that capture_audio_frames() gives to a frame: mono at 16 kHz.
FrameHeader(i, payloadLen) ==
    [protocol_version |-> ProtocolVersion, type |-> "audio.frame", session_id |-> i,
     segment_id |-> "seg_000001", payload_size |-> payloadLen, flat |-> TRUE,
     sample_rate |-> 16000, channels |-> 1]

DesktopStarts == {StartMessage(i) : i \in SessionIds}

DesktopFrames ==
    {RustEncode(FrameHeader(i, n), h, n) : i \in SessionIds, h \in HeaderLens, n \in FrameLens}

ASSUME BlobsAssumption == None \notin Blobs \cup DesktopFrames

-----------------------------------------------------------------------------
\* _handle_text and _handle_binary.

\* An object without a version passes.
Current(m) == m.protocol_version \in {Absent, ProtocolVersion}

\* session.start: missing languages and an id in use raise a KeyError.  What the
\* direction, the stream and the languages are is not looked at.
HandleStart(c, m) ==
    \/ /\ ~m.langs \/ m.session_id \in Registered
       /\ HandlerRaises(c)
    \/ m.langs /\ m.session_id = Absent /\ Answered(c)
    \/ m.langs /\ m.session_id \in SessionIds /\ TextStart(c, m.session_id, m.fits)

HandleText(c, m) ==
    \/ m.body = "garbage" /\ Answered(c)
    \/ m.body = "value" /\ HandlerRaises(c)
    \/ m.body = "object" /\ ~Current(m) /\ Answered(c)
    \/ /\ m.body = "object" /\ Current(m)
       /\ \/ m.type = "session.start" /\ HandleStart(c, m)
          \/ /\ m.type = "session.stop"
             /\ \/ m.session_id \in SessionIds /\ TextStop(c, m.session_id)
                \/ m.session_id \notin Registered /\ Answered(c)
          \/ m.type \notin {"session.start", "session.stop"} /\ Answered(c)

\* An audio frame of this version; anything else is answered with an error.
Understood(b) ==
    /\ PyReads(b)
    /\ b.header.protocol_version = ProtocolVersion
    /\ b.header.type = "audio.frame"

\* np.frombuffer finds half a sample at the end of the payload.
HalfSample(b) == PayloadLen(b) % 2 # 0

HandleBinary(c, b) ==
    \/ ~Understood(b) /\ Answered(c)
    \/ /\ Understood(b)
       /\ LET i == b.header.session_id IN
          \/ i = Absent /\ HandlerRaises(c)
          \/ i \notin Registered \cup {Absent} /\ Answered(c)
          \/ i \in Registered /\ HalfSample(b) /\ HandlerRaises(c)
          \/ i \in SessionIds /\ ~HalfSample(b) /\ Frame(c, i)

Samples(b) == PayloadLen(b) \div 2

\* reshape and resample_poly accept the samples: as many for each channel, and
\* a rate that is not rounded to a factor of 0.
Converts(b) ==
    Samples(b) > 0 =>
        /\ b.header.channels > 1 => Samples(b) % b.header.channels = 0
        /\ b.header.sample_rate > 8000

-----------------------------------------------------------------------------
\* A frame is remembered until ingest_pcm is done with its samples.
Remember(c, b) == frame' = [frame EXCEPT ![c] = b]

WsMessage(c) ==
    \/ \E m \in Texts \cup DesktopStarts : HandleText(c, m) /\ UNCHANGED <<frame, vad>>
    \/ \E b \in Blobs \cup DesktopFrames :
          /\ HandleBinary(c, b)
          /\ Remember(c, IF loop' = c THEN b ELSE None)
          /\ UNCHANGED vad

\* _rolling_for(): the RollingVad of session id i, which keeps the VAD of the
\* bundle that the first frame of the id was ingested with.
RollingFor(i) == vad' = IF vad[i] = None THEN [vad EXCEPT ![i] = bundle] ELSE vad

\* Samples that convert go to the VAD.
WsIngest(c) ==
    /\ \E n \in 0..MaxBurst : Ingest(c, n)
    /\ Converts(frame[c])
    /\ RollingFor(task[c].sid)
    /\ Remember(c, None)

\* Mutant of WsIngestRaises: any VAD may raise, not only Silero.
WsIngestRaisesOften(c) ==
    /\ IngestRaises(c)
    /\ \/ /\ registry[task[c].sid] = NoLife \/ ~Converts(frame[c])
          /\ UNCHANGED vad
       \/ /\ registry[task[c].sid] # NoLife
          /\ Converts(frame[c])
          /\ RollingFor(task[c].sid)
    /\ Remember(c, None)

\* The session was stopped since _handle_binary found it, the samples do not
\* convert, or the VAD they go to raises, as Silero may when it infers.
WsIngestRaises(c) ==
    /\ IngestRaises(c)
    /\ \/ /\ registry[task[c].sid] = NoLife \/ ~Converts(frame[c])
          /\ UNCHANGED vad
       \/ /\ registry[task[c].sid] # NoLife
          /\ Converts(frame[c])
          /\ Samples(frame[c]) > 0
          /\ RollingFor(task[c].sid)
          /\ vad'[task[c].sid] \in SileroLoads
    /\ Remember(c, None)

\* A segment, or the reply to a message.
WsSegment(c) ==
    /\ \/ Disconnected(c)
       \/ \E s \in Segments, t \in Clock :
             Refuse(c, s, t) \/ Recognise(c, s, t) \/ AsrRaises(c, s, t) \/ MessageRaises(c, s, t)
       \/ MarkAsrFinal(c) \/ SendFinal(c) \/ NoWords(c)
       \/ MarkTranslate(c) \/ SendResult(c)
       \/ SendAudio(c) \/ Spoken(c)
       \/ SessionGone(c) \/ ProviderRaises(c) \/ SendRaises(c)
       \/ Reported(c) \/ ReportRaises(c)
    /\ UNCHANGED <<frame, vad>>

WsNext ==
    \/ Environment /\ UNCHANGED <<frame, vad>>
    \/ \E c \in Conns : WsMessage(c) \/ WsIngest(c) \/ WsIngestRaises(c) \/ WsSegment(c)

WsSpec == WsInit /\ [][WsNext]_wsVars

\* As in SegmentPipeline: a coroutine that can go on is not passed over for ever.
WsFairSpec ==
    WsSpec /\ \A c \in Conns : SF_wsVars(WsIngest(c) \/ WsIngestRaises(c) \/ WsSegment(c))

-----------------------------------------------------------------------------
\* The connection of c is closed under its client, or the message it handles
\* is refused (a reply that follows no start of a session).
TurnsDown(c) ==
    /\ peer[c]
    /\ \/ task'[c].stage = "closed"
       \/ task'[c].stage = "replying" /\ lives' = lives

\* The endpoint serves what a desktop sends, whatever other clients send on
\* their connections and on the same session ids: a session.start is turned down
\* only when its id is in use, and a frame only when its session has been
\* stopped, also between the two look-ups of one frame, or when the VAD that cuts
\* its session into segments is Silero and raises.
ServesTheDesktop ==
    [][\A c \in Conns : TurnsDown(c) =>
         /\ \A m \in DesktopStarts : HandleText(c, m) => registry[m.session_id] # NoLife
         /\ \A b \in DesktopFrames :
               HandleBinary(c, b) => registry[b.header.session_id] = NoLife
         /\ frame[c] \in DesktopFrames =>
               \/ registry[task[c].sid] = NoLife
               \/ vad'[task[c].sid] \in SileroLoads]_wsVars

\* The codecs agree: an audio frame that the desktop's codec reads, of whoever
\* it is and as far as the limits of the service allow, is turned down by
\* _handle_binary only when its session is not registered or when its payload
\* ends in half a sample, which the desktop's codec does not mind.  (What
\* ingest_pcm then makes of its channels and rate is Converts.)
CodecsAgree ==
    [][\A c \in Conns : TurnsDown(c) =>
         \A b \in Blobs \cup DesktopFrames :
             /\ RustReads(b) /\ b.header.type = "audio.frame"
             /\ b.size <= MaxFrameBytes /\ b.header_len <= MaxHeaderBytes
             /\ HandleBinary(c, b)
             => b.header.session_id \notin Registered \/ HalfSample(b)]_wsVars
=============================================================================
