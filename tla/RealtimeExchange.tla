-------------------------- MODULE RealtimeExchange --------------------------
(***************************************************************************)
(* What a start of the desktop does with the audio it recorded:            *)
(* run_realtime_audio_smoke_test (realtime.rs) opens a WebSocket to the    *)
(* service, sends session.start and every frame before it reads anything,  *)
(* then receives until it has seen a translation and speech, playing each  *)
(* speech on a blocking thread.  Connecting and receiving have a timeout,  *)
(* sending has none; a timeout does not stop the playback thread.          *)
(*                                                                         *)
(* The peer is the service as ws.py shows it to a client: it handles one   *)
(* message after the other, and what a frame makes it send is what         *)
(* SegmentPipeline describes.  The two directions of the connection hold   *)
(* a bounded number of messages.                                           *)
(***************************************************************************)
EXTENDS AudioCapture

CONSTANTS
    UpRoom,       \* messages that the way to the service can hold
    DownRoom,     \* messages that the way back can hold
    MaxSegments,  \* segments that the service may cut out of one frame
    AudioHeaders  \* layouts of the header of tts.audio: "flat", "nested"

ASSUME ExchangeAssumption ==
    /\ UpRoom \in Nat \ {0} /\ DownRoom \in Nat \ {0} /\ MaxSegments \in Nat
    /\ AudioHeaders \subseteq {"flat", "nested"}

\* A start sends at most six frames of 20 ms, or one of a second: a few tens
\* of kilobytes, which the buffers of a local socket hold.
ASSUME UplinkFits == UpRoom > 2 * FrameCount

VARIABLES
    client,    \* where run_realtime_audio_smoke_test stands, or how it ended
    sent,      \* messages sent so far (session.start is the first)
    mic,       \* the route names a virtual microphone
    up,        \* messages on the way to the service
    down,      \* messages on the way back
    open,      \* the connection is open at the service
    serving,   \* what the service still sends for what it handles
    owed,      \* segments of the last frame that it has not handled yet
    took,      \* the frames that the service has read
    events,    \* what the client collected
    player,    \* the playback thread: the devices it still plays on
    played     \* devices whose playback lasted as long as the speech, in order

exchangeVars == <<client, sent, mic, up, down, open, serving, owed, took, events, player, played>>

vars == <<captureVars, exchangeVars>>

service == <<open, serving, owed, took>>
playback == <<player, played>>

Init ==
    /\ CaptureInit
    /\ client = "idle" /\ sent = 0
    /\ mic \in BOOLEAN
    /\ up = <<>> /\ down = <<>> /\ open = FALSE /\ serving = <<>> /\ owed = 0 /\ took = <<>>
    /\ events = <<>>
    /\ player = <<>> /\ played = <<>>

\* The message session.start, which begins the count of the uplink.
Start == [stream |-> "none", samples |-> <<>>, sequence_no |-> 0, segment |-> 0]

Text(type) == [type |-> type, header |-> "text", long |-> FALSE]
Audio == [type : {"tts.audio"}, header : AudioHeaders, long : BOOLEAN]
CloseFrame == Text("close")

\* A message that BaseMessage or BinaryFrameHeader can be read from: the
\* decoder wants the format of the audio at the top of the header.
Decodes(m) == m.header \in {"text", "flat"}

Seen(type) == \E k \in DOMAIN events : events[k].type = type

-----------------------------------------------------------------------------
\* The client.

Ends(result) == client' = result

\* Recording failed: no connection is opened.
NoAudio ==
    /\ client = "idle"
    /\ at = "failed"
    /\ Ends("failed")
    /\ UNCHANGED <<sent, mic, up, down, service, events, playback>>

Connects ==
    /\ client = "idle"
    /\ at = "ok"
    /\ client' = "sending"
    /\ open' = TRUE
    /\ UNCHANGED <<sent, mic, up, down, serving, owed, took, events, playback>>

\* Refused, or not there within CONNECT_TIMEOUT.
ConnectFails ==
    /\ client = "idle"
    /\ at = "ok"
    /\ Ends("failed")
    /\ UNCHANGED <<sent, mic, up, down, service, events, playback>>

\* session.start, then the frames; a send waits for room.
SendNext ==
    /\ client = "sending"
    /\ sent <= Len(frames)
    /\ open
    /\ Len(up) < UpRoom
    /\ up' = Append(up, IF sent = 0 THEN Start ELSE frames[sent])
    /\ sent' = sent + 1
    /\ UNCHANGED <<client, mic, down, service, events, playback>>

SendFails ==
    /\ client = "sending"
    /\ sent <= Len(frames)
    /\ ~open
    /\ Ends("failed")
    /\ UNCHANGED <<sent, mic, up, down, service, events, playback>>

AllSent ==
    /\ client = "sending"
    /\ sent > Len(frames)
    /\ client' = "receiving"
    /\ UNCHANGED <<sent, mic, up, down, service, events, playback>>

Received(m) ==
    /\ client = "receiving"
    /\ down # <<>>
    /\ Head(down) = m
    /\ down' = Tail(down)

\* After an event the loop ends if it has seen both (all binary messages of
\* the service are tts.audio), and goes on otherwise.
Collect(m) ==
    /\ events' = Append(events, m)
    /\ client' = IF \A type \in {"translate.result", "tts.audio"} : Seen(type) \/ m.type = type
                 THEN "closing" ELSE "receiving"

ReceiveText(m) ==
    /\ Received(m)
    /\ m.header = "text" /\ m # CloseFrame
    /\ Collect(m)
    /\ UNCHANGED <<sent, mic, up, service, playback>>

ReceiveClose ==
    /\ Received(CloseFrame)
    /\ Ends("failed")
    /\ UNCHANGED <<sent, mic, up, service, events, playback>>

\* The header does not decode, and the exchange is over.
ReceiveMalformed(m) ==
    /\ Received(m)
    /\ ~Decodes(m)
    /\ Ends("malformed")
    /\ UNCHANGED <<sent, mic, up, service, events, playback>>

\* The output, and then the virtual microphone if there is one.
Devices == IF mic THEN <<"output", "mic">> ELSE <<"output">>

\* The mock start has no route: speech is collected and not played.
ReceiveUnplayed(m) ==
    /\ Received(m)
    /\ m.header # "text" /\ Decodes(m)
    /\ inputs = <<>>
    /\ Collect(m)
    /\ UNCHANGED <<sent, mic, up, service, playback>>

\* Speech longer than the playback queue holds is refused before it plays.
ReceiveSpeech(m) ==
    /\ Received(m)
    /\ m.header # "text" /\ Decodes(m)
    /\ inputs # <<>>
    /\ IF m.long
       THEN Ends("failed") /\ UNCHANGED <<events, playback>>
       ELSE client' = "playing" /\ player' = Devices /\ UNCHANGED <<events, played>>
    /\ UNCHANGED <<sent, mic, up, service>>

Speech == [type |-> "tts.audio", header |-> "flat", long |-> FALSE]

\* Mutant of PlaybackEnds: the playback is not awaited.
PlaybackEndsEarly ==
    /\ client = "playing"
    /\ Collect(Speech)
    /\ UNCHANGED <<sent, mic, up, down, service, playback>>

\* The last device has played: the event is collected and the loop goes on.
PlaybackEnds ==
    /\ client = "playing"
    /\ player = <<>>
    /\ Collect(Speech)
    /\ UNCHANGED <<sent, mic, up, down, service, playback>>

\* Mutant of TimesOut: only playing is under the timeout.
TimesOutPlaying ==
    /\ client = "playing"
    /\ Ends("failed")
    /\ UNCHANGED <<sent, mic, up, down, service, events, playback>>

\* ROUNDTRIP_TIMEOUT passes, in the loop or while speech plays.
TimesOut ==
    /\ client \in {"receiving", "playing"}
    /\ Ends("failed")
    /\ UNCHANGED <<sent, mic, up, down, service, events, playback>>

CloseSucceeds ==
    /\ client = "closing"
    /\ Ends("ok")
    /\ UNCHANGED <<sent, mic, up, down, service, events, playback>>

CloseFails ==
    /\ client = "closing"
    /\ ~open
    /\ Ends("failed")
    /\ UNCHANGED <<sent, mic, up, down, service, events, playback>>

-----------------------------------------------------------------------------
\* The playback thread.

Played ==
    /\ player # <<>>
    /\ player' = Tail(player)
    /\ played' = Append(played, Head(player))
    /\ UNCHANGED <<client, sent, mic, up, down, service, events>>

\* A device cannot be opened: play_tts_audio returns, and so does the exchange
\* if it still waits.
PlaybackFails ==
    /\ player # <<>>
    /\ player' = <<>>
    /\ client' = IF client = "playing" THEN "failed" ELSE client
    /\ UNCHANGED <<sent, mic, up, down, service, events, played>>

-----------------------------------------------------------------------------
\* The service.

\* What a segment of a frame may make the service send: everything, the
\* transcript alone when nothing was said, or an error after any of it.
Answers ==
    LET partial == Text("asr.partial") final == Text("asr.final")
        translated == Text("translate.result") error == Text("error")
    IN  {<<partial, final, translated, last>> : last \in Audio \cup {error}}
        \cup {<<partial, final>>, <<partial, final, error>>, <<partial, error>>, <<error>>}

\* Every answer is sent, and a message is there.
Idles == open /\ serving = <<>> /\ owed = 0 /\ up # <<>>

ServiceStarts ==
    /\ Idles /\ took = <<>>
    /\ up' = Tail(up)
    /\ took' = <<Head(up)>>
    /\ serving' = <<Text("status.update")>>
    /\ UNCHANGED <<client, sent, mic, down, open, owed, events, playback>>

\* A frame is cut into n segments.
ServiceReads(n) ==
    /\ Idles /\ took # <<>>
    /\ up' = Tail(up)
    /\ took' = Append(took, Head(up))
    /\ owed' = n
    /\ UNCHANGED <<client, sent, mic, down, open, serving, events, playback>>

ServiceAnswers(answer) ==
    /\ open
    /\ serving = <<>> /\ owed > 0
    /\ serving' = answer
    /\ owed' = owed - 1
    /\ UNCHANGED <<client, sent, mic, up, down, open, took, events, playback>>

ServiceSends ==
    /\ open
    /\ serving # <<>>
    /\ Len(down) < DownRoom
    /\ down' = Append(down, Head(serving))
    /\ serving' = Tail(serving)
    /\ UNCHANGED <<client, sent, mic, up, open, owed, took, events, playback>>

\* An exception leaves the loop of ws_session, or the process ends.
ServiceCloses ==
    /\ open
    /\ open' = FALSE
    /\ up' = <<>> /\ serving' = <<>> /\ owed' = 0
    /\ down' = Append(down, CloseFrame)
    /\ UNCHANGED <<client, sent, mic, took, events, playback>>

-----------------------------------------------------------------------------
ClientStep ==
    \/ NoAudio \/ Connects \/ ConnectFails
    \/ SendNext \/ SendFails \/ AllSent
    \/ \E m \in Range(down) : ReceiveText(m) \/ ReceiveMalformed(m) \/ ReceiveUnplayed(m) \/ ReceiveSpeech(m)
    \/ ReceiveClose
    \/ PlaybackEnds \/ CloseSucceeds \/ CloseFails

ServiceStep ==
    \/ ServiceStarts
    \/ \E n \in 0..MaxSegments : ServiceReads(n)
    \/ \E answer \in Answers : ServiceAnswers(answer)
    \/ ServiceSends

Next ==
    \/ CaptureNext /\ UNCHANGED exchangeVars
    \/ /\ ClientStep \/ TimesOut \/ Played \/ PlaybackFails \/ ServiceStep \/ ServiceCloses
       /\ UNCHANGED captureVars

Spec == Init /\ [][Next]_vars

\* The client's task goes on when it can, and its timer fires; the service
\* need do nothing at all.
FairSpec == Spec /\ CaptureFairness /\ WF_vars(ClientStep /\ UNCHANGED captureVars)
                 /\ WF_vars(TimesOut /\ UNCHANGED captureVars)

-----------------------------------------------------------------------------
Messages == [type : {"status.update", "asr.partial", "asr.final", "translate.result", "error", "close", "tts.audio"},
             header : {"text", "flat", "nested"}, long : BOOLEAN]

Ended == {"ok", "failed", "malformed"}

ExchangeTypeOK ==
    /\ client \in {"idle", "sending", "receiving", "playing", "closing"} \cup Ended
    /\ sent \in 0..Len(frames) + 1
    /\ mic \in BOOLEAN /\ open \in BOOLEAN /\ owed \in 0..MaxSegments
    /\ Len(up) <= UpRoom /\ Len(down) <= DownRoom + 1
    /\ down \in Seq(Messages) /\ serving \in Seq(Messages) /\ events \in Seq(Messages)
    /\ player \in Seq({"output", "mic"}) /\ played \in Seq({"output", "mic"})

TypeOK == CaptureTypeOK /\ ExchangeTypeOK

\* What the service reads is numbered without gap or repetition, over the start
\* and the frames of both streams, and each stream is one segment of its own
\* (docs/protocol.md, section 4.2).
UplinkInOrder ==
    \A j, k \in DOMAIN took :
        /\ took[k].sequence_no = k - 1
        /\ (took[j].segment = took[k].segment) <=> (took[j].stream = took[k].stream)

\* An exchange that ends well has collected a translation and speech, and with
\* a route the playback on every device of it lasted as long as the speech, and
\* nothing still plays.
SuccessIsHeard ==
    client = "ok" =>
        /\ Seen("translate.result") /\ Seen("tts.audio")
        /\ player = <<>>
        /\ inputs # <<>> => played = Devices

\* A start that began to record or to connect comes to an end, whatever the
\* devices and the service do or fail to do.
StartEnds == <>(client \in Ended)

-----------------------------------------------------------------------------
\* What documents say of the exchange; a run refutes it.

\* docs/protocol.md, section 5.2: the header of tts.audio has the format of
\* the audio at its top, so the client can decode what the service sends.
AudioIsDecoded == client # "malformed"
=============================================================================
