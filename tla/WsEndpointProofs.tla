-------------------------- MODULE WsEndpointProofs --------------------------
(***************************************************************************)
(* The endpoint implements SegmentPipeline, so everything proved of the    *)
(* pipeline holds of it; and it serves a desktop whatever other clients    *)
(* send, for any texts, binary messages, limits and lengths.               *)
(***************************************************************************)
EXTENDS WsEndpoint, SegmentPipelineProofs

-----------------------------------------------------------------------------
\* Every step of the endpoint is one of the pipeline.

\* What a client sends is one of the messages of the pipeline.
LEMMA MessageRefines ==
    ASSUME NEW c \in Conns, WsMessage(c)
    PROVE  Message(c)
<1>1. ASSUME NEW m \in Texts \cup DesktopStarts, HandleText(c, m)
      PROVE  Message(c)
    <2>1. m.fits \in BOOLEAN
        <3>1. \A i \in SessionIds : StartMessage(i).fits
            BY DEF StartMessage
        <3> QED BY <3>1, EndpointAssumption, Zenon DEF DesktopStarts
    <2> QED BY <1>1, <2>1 DEF HandleText, HandleStart, Message
<1>2. ASSUME NEW b, HandleBinary(c, b)
      PROVE  Message(c)
    BY <1>2 DEF HandleBinary, Message
<1> QED BY <1>1, <1>2 DEF WsMessage

\* Every step of the endpoint is a step of the pipeline, or changes none of its
\* variables.
LEMMA EndpointStep ==
    ASSUME [WsNext]_wsVars
    PROVE  [Next]_vars
<1>1. CASE UNCHANGED wsVars
    BY <1>1 DEF wsVars, vars
<1>2. CASE Environment
    BY <1>2 DEF Next
<1>3. ASSUME NEW c \in Conns, WsMessage(c)
      PROVE  [Next]_vars
    BY <1>3, MessageRefines DEF Next
<1>4. ASSUME NEW c \in Conns, WsIngest(c) \/ WsIngestRaises(c) \/ WsSegment(c)
      PROVE  [Next]_vars
    BY <1>4 DEF WsIngest, WsIngestRaises, WsSegment, Coroutine, Next
<1> QED BY <1>1, <1>2, <1>3, <1>4 DEF WsNext

\* The WebSocket endpoint implements the pipeline: whatever any client sends,
\* the service does nothing that SegmentPipeline does not allow.
THEOREM EndpointRefinesPipeline == WsSpec => Spec
<1>1. WsInit => Init
    BY DEF WsInit
<1>2. [WsNext]_wsVars => [Next]_vars
    BY EndpointStep
<1> QED BY <1>1, <1>2, PTL DEF WsSpec, Spec

\* So no message of any client leaks a slot, mixes bundles or breaks the order
\* on the wire; and a segment is left without an answer only when its client is
\* gone, or its session was started with what no message can carry.
THEOREM EndpointSafe ==
    WsSpec => [](TypeOK /\ SlotsOwned /\ OneBundle) /\ WireOrder /\ NeverSilent
BY EndpointRefinesPipeline, PipelineTypeCorrect, PipelineSlotsOwned, PipelineOneBundle,
   PipelineWireOrder, PipelineNeverSilent, PTL

-----------------------------------------------------------------------------
\* What becomes of the messages of a desktop.

\* A frame is remembered only while it waits for ingest_pcm.
Remembered == \A c \in Conns : frame[c] # None => task[c].stage = "framed"

WsInv == /\ TypeOK
         /\ frame \in [Conns -> Blobs \cup DesktopFrames \cup {None}]
         /\ Remembered

\* The frames of a desktop are read by the service, and their samples convert.
LEMMA DesktopFramesRead ==
    ASSUME NEW b \in DesktopFrames
    PROVE  /\ Understood(b) /\ ~HalfSample(b) /\ Converts(b)
           /\ b.header.session_id \in SessionIds
<1>1. PICK i \in SessionIds, h \in HeaderLens, n \in FrameLens :
        b = RustEncode(FrameHeader(i, n), h, n)
    BY DEF DesktopFrames
<1>2. /\ h \in Nat /\ h <= MaxHeaderBytes /\ n \in Nat /\ n % 2 = 0
      /\ PrefixLen + h + n <= MaxFrameBytes
    BY EndpointAssumption
<1>3. /\ b.size = PrefixLen + h + n /\ b.magic /\ b.json /\ b.header_len = h
      /\ b.header = FrameHeader(i, n)
    BY <1>1 DEF RustEncode
<1>4. /\ b.header.payload_size = n /\ b.header.session_id = i /\ b.header.type = "audio.frame"
      /\ b.header.protocol_version = ProtocolVersion
      /\ b.header.channels = 1 /\ b.header.sample_rate = 16000
    BY <1>3 DEF FrameHeader
<1>5. PayloadLen(b) = n
    BY <1>2, <1>3 DEF PayloadLen, PrefixLen
<1>6. b.size <= MaxFrameBytes /\ Whole(b)
    BY <1>2, <1>3 DEF Whole, PrefixLen
<1>7. Understood(b)
    BY <1>2, <1>3, <1>4, <1>5, <1>6 DEF Understood, PyReads
<1>8. ~(b.header.channels > 1) /\ b.header.sample_rate > 8000
    BY <1>4
<1>9. ~HalfSample(b) /\ Converts(b)
    BY <1>2, <1>5, <1>8 DEF Converts, HalfSample
<1> QED BY <1>4, <1>7, <1>9

\* A step of the coroutine of c leaves those of the others as they are.
LEMMA OthersStay ==
    ASSUME TypeOK, NEW c \in Conns, NEW d \in Conns, d # c,
           WsMessage(c) \/ WsIngest(c) \/ WsIngestRaises(c) \/ WsSegment(c)
    PROVE  task'[d] = task[d]
<1>1. UNCHANGED task \/ \E t : Becomes(c, t)
    <2>1. CASE WsMessage(c)
        BY <2>1, MessageRefines DEF Message, TextStart, TextStop, Frame, Answered, HandlerRaises, Crash
    <2>2. CASE WsIngest(c) \/ WsIngestRaises(c)
        BY <2>2 DEF WsIngest, WsIngestRaises, Ingest, IngestRaises, Crash
    <2>3. CASE WsSegment(c)
        BY <2>3, ZenonT(40)
        DEF WsSegment, Disconnected, Refuse, Recognise, AsrRaises, MessageRaises, Draws, MarkAsrFinal,
                    SendFinal, NoWords, MarkTranslate, SendResult, SendAudio, Spoken, SessionGone,
                    ProviderRaises, SendRaises, Reported, ReportRaises, Fail, Await, NextSegment, Crash
    <2> QED BY <2>1, <2>2, <2>3
<1> QED BY <1>1 DEF TypeOK, Becomes

\* A segment is worked on only when no frame waits.
LEMMA SegmentStages ==
    ASSUME NEW c \in Conns, WsSegment(c)
    PROVE  task[c].stage # "framed"
BY DEF WsSegment, Disconnected, Refuse, Recognise, AsrRaises, MessageRaises, DrawId,
       MarkAsrFinal, SendFinal, NoWords, MarkTranslate, SendResult, SendAudio, Spoken, SessionGone, ProviderRaises,
       SendRaises, Reported, ReportRaises, Awaiting

\* A frame that is accepted is the one that is remembered.
LEMMA MessageRemembers ==
    ASSUME WsInv, NEW c \in Conns, WsMessage(c)
    PROVE  /\ frame' \in [Conns -> Blobs \cup DesktopFrames \cup {None}]
           /\ \A d \in Conns : d # c => frame'[d] = frame[d]
           /\ frame'[c] # None => task'[c].stage = "framed"
<1>1. /\ TypeOK /\ task[c].stage = "ready" /\ frame[c] = None
      /\ frame \in [Conns -> Blobs \cup DesktopFrames \cup {None}]
    <2>1. task[c].stage = "ready"
        BY MessageRefines DEF Message, TextStart, TextStop, Frame, Answered, HandlerRaises, Handles
    <2> QED BY <2>1 DEF WsInv, Remembered
<1>2. CASE UNCHANGED frame
    BY <1>1, <1>2
<1>3. ASSUME NEW b \in Blobs \cup DesktopFrames, HandleBinary(c, b),
             Remember(c, IF loop' = c THEN b ELSE None)
      PROVE  /\ frame' \in [Conns -> Blobs \cup DesktopFrames \cup {None}]
             /\ \A d \in Conns : d # c => frame'[d] = frame[d]
             /\ frame'[c] # None => task'[c].stage = "framed"
    <2>1. CASE \E i \in SessionIds : Frame(c, i)
        <3>1. PICK i \in SessionIds : Becomes(c, [Idle("framed") EXCEPT !.sid = i])
            BY <2>1 DEF Frame
        <3>2. [Idle("framed") EXCEPT !.sid = i].stage = "framed"
            BY FramedTask
        <3>3. task'[c].stage = "framed"
            BY <1>1, <3>1, <3>2 DEF Becomes, TypeOK
        <3> QED BY <1>1, <1>3, <3>3 DEF Remember
    <2>2. CASE Answered(c) \/ HandlerRaises(c)
        <3>1. loop' = None /\ c # None
            BY <2>2, PipelineAssumption DEF Answered, HandlerRaises, Handles, Crash
        <3> QED BY <1>1, <1>3, <3>1 DEF Remember
    <2> QED BY <1>3, <2>1, <2>2 DEF HandleBinary
<1> QED BY <1>2, <1>3 DEF WsMessage

\* Every step of the endpoint keeps it.
LEMMA WsInvStep ==
    ASSUME WsInv, [WsNext]_wsVars, TypeOK'
    PROVE  WsInv'
<1>1. TypeOK /\ Remembered /\ frame \in [Conns -> Blobs \cup DesktopFrames \cup {None}]
    BY DEF WsInv
<1>2. CASE UNCHANGED wsVars
    BY <1>1, <1>2 DEF wsVars, WsInv, Remembered
<1>3. CASE Environment /\ UNCHANGED frame
    <2>1. UNCHANGED task \/ \E c \in Conns : task[c].stage = "closed" /\ Becomes(c, Idle("ready"))
        BY <1>3 DEF Environment, HttpStart, HttpStop, ModelsLoad, Connect, PeerLeaves
    <2>2. \A d \in Conns : task'[d] = task[d] \/ task[d].stage # "framed"
        BY <1>1, <2>1 DEF TypeOK, Becomes
    <2> QED BY <1>1, <1>3, <2>2 DEF WsInv, Remembered
<1>4. ASSUME NEW c \in Conns, WsMessage(c)
      PROVE  WsInv'
    <2>1. \A d \in Conns : d # c => task'[d] = task[d]
        BY <1>1, <1>4, OthersStay
    <2> QED BY <1>1, <1>4, <2>1, MessageRemembers DEF WsInv, Remembered
<1>5. ASSUME NEW c \in Conns, WsIngest(c) \/ WsIngestRaises(c)
      PROVE  WsInv'
    <2>1. \A d \in Conns : d # c => task'[d] = task[d]
        BY <1>1, <1>5, OthersStay
    <2>2. frame' = [frame EXCEPT ![c] = None]
        BY <1>5 DEF WsIngest, WsIngestRaises, Remember
    <2> QED BY <1>1, <2>1, <2>2 DEF WsInv, Remembered
<1>6. ASSUME NEW c \in Conns, WsSegment(c)
      PROVE  WsInv'
    <2>1. \A d \in Conns : d # c => task'[d] = task[d]
        BY <1>1, <1>6, OthersStay
    <2>2. UNCHANGED frame /\ frame[c] = None
        BY <1>1, <1>6, SegmentStages DEF WsSegment, Remembered
    <2> QED BY <1>1, <2>1, <2>2 DEF WsInv, Remembered
<1> QED BY <1>2, <1>3, <1>4, <1>5, <1>6 DEF WsNext

\* It holds in every state.
LEMMA WsInvariant == WsSpec => []WsInv
<1>1. WsInit /\ TypeOK => WsInv
    BY DEF WsInit, WsInv, Remembered
<1>2. WsInv /\ [WsNext]_wsVars /\ TypeOK' => WsInv'
    BY WsInvStep
<1> QED BY <1>1, <1>2, EndpointRefinesPipeline, PipelineTypeCorrect, PTL DEF WsSpec

-----------------------------------------------------------------------------
\* Whoever sends a desktop's message is served.

\* The stages in which the handling of a message leaves a coroutine.
LEMMA NextStage ==
    ASSUME TypeOK, NEW c \in Conns
    PROVE  /\ \A st \in Stages : Becomes(c, Idle(st)) => task'[c].stage = st
           /\ \A i \in SessionIds : Frame(c, i) => task'[c].stage = "framed"
<1>1. ASSUME NEW st \in Stages, Becomes(c, Idle(st))
      PROVE  task'[c].stage = st
    BY <1>1, IdleTask DEF TypeOK, Becomes
<1>2. ASSUME NEW i \in SessionIds, Frame(c, i)
      PROVE  task'[c].stage = "framed"
    <2>1. [Idle("framed") EXCEPT !.sid = i].stage = "framed"
        BY FramedTask
    <2> QED BY <1>2, <2>1 DEF Frame, Becomes, TypeOK
<1> QED BY <1>1, <1>2

\* A session.start of a desktop.
LEMMA StartServed ==
    ASSUME TypeOK, NEW c \in Conns, NEW m \in DesktopStarts, HandleText(c, m), TurnsDown(c)
    PROVE  registry[m.session_id] # NoLife
<1>1. /\ m.body = "object" /\ m.protocol_version = ProtocolVersion /\ m.type = "session.start"
      /\ m.langs /\ m.session_id \in SessionIds /\ m.session_id # Absent
    BY EndpointAssumption DEF DesktopStarts, StartMessage
<1>2. m.session_id \in Registered \/ TextStart(c, m.session_id, m.fits)
    BY <1>1 DEF HandleText, HandleStart, Current
<1>3. CASE m.session_id \in Registered
    BY <1>3 DEF Registered
<1>4. CASE TextStart(c, m.session_id, m.fits)
    <2>1. Becomes(c, Idle("replying")) /\ lives' = lives + 1 /\ "replying" \in Stages
        BY <1>4 DEF TextStart, Stages
    <2>2. task'[c].stage = "replying"
        BY <2>1, NextStage
    <2>3. lives' # lives
        BY <2>1, PipelineAssumption DEF TypeOK
    <2> QED BY <2>2, <2>3 DEF TurnsDown
<1> QED BY <1>2, <1>3, <1>4

\* A frame of a desktop, when it arrives.
LEMMA FrameServed ==
    ASSUME TypeOK, NEW c \in Conns, NEW b \in DesktopFrames, HandleBinary(c, b), TurnsDown(c)
    PROVE  registry[b.header.session_id] = NoLife
<1> DEFINE i == b.header.session_id
<1>1. Understood(b) /\ ~HalfSample(b) /\ i \in SessionIds /\ i # Absent
    BY DesktopFramesRead, EndpointAssumption
<1>2. i \notin Registered \/ Frame(c, i)
    BY <1>1 DEF HandleBinary
<1>3. ~Frame(c, i)
    BY <1>1, NextStage DEF TurnsDown
<1> QED BY <1>1, <1>2, <1>3 DEF Registered

\* A frame of a desktop, when its samples are converted and go to the VAD.
LEMMA SamplesServed ==
    ASSUME WsInv, [WsNext]_wsVars, NEW c \in Conns, frame[c] \in DesktopFrames, TurnsDown(c)
    PROVE  registry[task[c].sid] = NoLife \/ vad'[task[c].sid] \in SileroLoads
<1>1. TypeOK /\ task[c].stage = "framed" /\ Converts(frame[c])
    BY BlobsAssumption, DesktopFramesRead DEF WsInv, Remembered
<1>2. task'[c].stage \in {"closed", "replying"}
    BY DEF TurnsDown
<1>3. CASE UNCHANGED wsVars
    BY <1>1, <1>2, <1>3 DEF wsVars
<1>4. CASE Environment
    <2>1. UNCHANGED task \/ \E d \in Conns : task[d].stage = "closed" /\ Becomes(d, Idle("ready"))
        BY <1>4 DEF Environment, HttpStart, HttpStop, ModelsLoad, Connect, PeerLeaves
    <2>2. task'[c] = task[c]
        BY <1>1, <2>1 DEF TypeOK, Becomes
    <2> QED BY <1>1, <1>2, <2>2
<1>5. ASSUME NEW d \in Conns,
             WsMessage(d) \/ WsIngest(d) \/ WsIngestRaises(d) \/ WsSegment(d)
      PROVE  registry[task[c].sid] = NoLife \/ vad'[task[c].sid] \in SileroLoads
    <2>1. CASE d # c
        <3>1. task'[c] = task[c]
            BY <1>1, <1>5, <2>1, OthersStay
        <3> QED BY <1>1, <1>2, <3>1
    <2>2. CASE d = c /\ WsMessage(c)
        <3>1. task[c].stage = "ready"
            BY <2>2, MessageRefines DEF Message, TextStart, TextStop, Frame, Answered,
                                        HandlerRaises, Handles
        <3> QED BY <1>1, <3>1
    <2>3. CASE d = c /\ WsSegment(c)
        BY <1>1, <2>3, SegmentStages
    <2>4. CASE d = c /\ WsIngestRaises(c)
        BY <1>1, <2>4 DEF WsIngestRaises
    <2>5. CASE d = c /\ WsIngest(c)
        <3>1. PICK n \in 0..MaxBurst : Ingest(c, n)
            BY <2>5 DEF WsIngest
        <3>2. CASE n = 0
            <4>1. Becomes(c, Idle("ready")) /\ "ready" \in Stages
                BY <3>1, <3>2 DEF Ingest, Stages
            <4> QED BY <1>1, <1>2, <4>1, NextStage
        <3>3. CASE n # 0
            <4> DEFINE l == registry[task[c].sid]
                       t == [task[c] EXCEPT !.stage = "segment", !.life = l, !.left = n]
            <4>1. Becomes(c, t)
                BY <3>1, <3>3 DEF Ingest
            <4>2. t.stage = "segment"
                BY <1>1 DEF TypeOK, Tasks
            <4>3. task'[c].stage = "segment"
                BY <1>1, <4>1, <4>2 DEF Becomes, TypeOK
            <4> QED BY <1>2, <4>3
        <3> QED BY <3>2, <3>3
    <2> QED BY <1>5, <2>1, <2>2, <2>3, <2>4, <2>5
<1> QED BY <1>3, <1>4, <1>5 DEF WsNext

\* Whatever other clients send, a desktop's session.start is turned down only
\* when its id is in use, and its frame only when its session was stopped or the
\* Silero VAD that it is cut by raises.
THEOREM EndpointServesTheDesktop == WsSpec => ServesTheDesktop
<1>1. WsInv /\ [WsNext]_wsVars =>
        [\A c \in Conns : TurnsDown(c) =>
            /\ \A m \in DesktopStarts : HandleText(c, m) => registry[m.session_id] # NoLife
            /\ \A b \in DesktopFrames :
                  HandleBinary(c, b) => registry[b.header.session_id] = NoLife
            /\ frame[c] \in DesktopFrames =>
                  \/ registry[task[c].sid] = NoLife
                  \/ vad'[task[c].sid] \in SileroLoads]_wsVars
    BY StartServed, FrameServed, SamplesServed DEF WsInv
<1> QED BY <1>1, WsInvariant, PTL DEF WsSpec, ServesTheDesktop

\* A frame that both codecs read.
LEMMA ReadFrameServed ==
    ASSUME TypeOK, NEW c \in Conns, NEW b, RustReads(b), b.header.type = "audio.frame",
           b.size <= MaxFrameBytes, b.header_len <= MaxHeaderBytes,
           HandleBinary(c, b), TurnsDown(c)
    PROVE  b.header.session_id \notin Registered \/ HalfSample(b)
<1> DEFINE i == b.header.session_id
<1>1. Understood(b)
    BY DEF Understood, RustReads, PyReads, ValidHeader
<1>2. i # Absent
    BY DEF RustReads, Typed
<1>3. i \notin Registered \/ HalfSample(b) \/ (i \in SessionIds /\ Frame(c, i))
    BY <1>1, <1>2 DEF HandleBinary
<1>4. ~(i \in SessionIds /\ Frame(c, i))
    BY NextStage DEF TurnsDown
<1> QED BY <1>3, <1>4

\* Of any frames whatever, _handle_binary takes those that the desktop's codec
\* reads, as far as its limits and the registry allow and but for half a sample.
THEOREM EndpointCodecsAgree == WsSpec => CodecsAgree
<1>1. WsInv /\ [WsNext]_wsVars =>
        [\A c \in Conns : TurnsDown(c) =>
           \A b \in Blobs \cup DesktopFrames :
               /\ RustReads(b) /\ b.header.type = "audio.frame"
               /\ b.size <= MaxFrameBytes /\ b.header_len <= MaxHeaderBytes
               /\ HandleBinary(c, b)
               => b.header.session_id \notin Registered \/ HalfSample(b)]_wsVars
    BY ReadFrameServed DEF WsInv
<1> QED BY <1>1, WsInvariant, PTL DEF WsSpec, CodecsAgree
=============================================================================
