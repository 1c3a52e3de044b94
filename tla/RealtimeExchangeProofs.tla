----------------------- MODULE RealtimeExchangeProofs -----------------------
(***************************************************************************)
(* Proofs about AudioCapture and RealtimeExchange: whatever frame lengths, *)
(* chunk sizes, rooms and answers, recording loses and repeats no sample,  *)
(* the uplink is numbered without gaps, and an exchange that ends well has *)
(* played its speech on every device.                                      *)
(***************************************************************************)
EXTENDS RealtimeExchange, SequenceTheorems, TLAPS

-----------------------------------------------------------------------------
\* The inductive invariant of the recording.

Inputs == {<<>>, <<"audio_local">>, <<"audio_local", "audio_remote">>}

\* There is a stream to record until the task has ended.
StreamIsThere ==
    /\ inputs \in Inputs
    /\ inputs = <<>> => at = "ok"
    /\ inputs # <<>> => recording <= Len(inputs)

\* A stream begins with nothing, and a capture takes no more than it needs.
CaptureBegins ==
    /\ Len(taken) <= FrameCount
    /\ at = "open" => buffer = <<>> /\ taken = <<>> /\ channel = <<>> /\ delivered = 0
    /\ at = "ok" => taken = <<>>

\* Every stream that is over has left FrameCount frames; a mock start has one.
FramesCounted ==
    Len(frames) =
        IF inputs = <<>> THEN 1
        ELSE IF at = "ok" THEN IF Len(inputs) = 1 THEN FrameCount ELSE FrameCount + FrameCount
        ELSE IF recording = 1 THEN 0 ELSE FrameCount

TakenIsHere == \A k \in DOMAIN taken : taken[k].stream = Here

\* In the end the frames have one count and one segment for every stream.
FramesNumbered ==
    at = "ok" =>
        \A k \in DOMAIN frames :
            /\ frames[k].sequence_no = k
            /\ frames[k].segment = IF frames[k].stream = "audio_local" THEN 1 ELSE 2

CaptureInv ==
    /\ CaptureTypeOK /\ StreamIsThere /\ CaptureBegins /\ FramesCounted
    /\ TakenIsHere /\ FramesNumbered /\ GapFree

-----------------------------------------------------------------------------
\* The inductive invariant of the exchange.

Sendable == Frames \cup {Start}

\* The message numbered k of the uplink.
Uplink(k) == IF k = 1 THEN Start ELSE frames[k - 1]

Quiet ==
    /\ sent = 0 /\ ~open /\ owed = 0
    /\ up = <<>> /\ down = <<>> /\ serving = <<>> /\ took = <<>> /\ events = <<>>
    /\ player = <<>> /\ played = <<>>

\* Nothing happens before there is audio and a connection.
BeginsQuiet ==
    /\ client = "idle" => Quiet
    /\ at # "ok" => Quiet /\ client \in {"idle", "failed"}

\* The uplink keeps the order of the frames, and loses none while it is open.
UplinkKept ==
    /\ up \in Seq(Sendable) /\ took \in Seq(Sendable)
    /\ \A k \in DOMAIN took : took[k] = Uplink(k)
    /\ \A k \in DOMAIN up : up[k] = Uplink(Len(took) + k)
    /\ Len(took) + Len(up) <= sent
    /\ open => Len(took) + Len(up) = sent

\* A message with a binary header is speech, and no other is.
SpeechIsBinary ==
    \A m \in Range(down) \cup Range(serving) : m.type = "tts.audio" <=> m.header # "text"

Translates(messages, before) ==
    \E j \in DOMAIN messages : j < before /\ messages[j].type = "translate.result"

\* No speech is sent or received before a translation.
SpeechIsAnnounced ==
    /\ \A k \in DOMAIN down :
          down[k].type = "tts.audio" => Seen("translate.result") \/ Translates(down, k)
    /\ \A k \in DOMAIN serving :
          serving[k].type = "tts.audio" =>
              Seen("translate.result") \/ Translates(down, Len(down) + 1) \/ Translates(serving, k)

\* What the client has collected and played at each point of the exchange.
PlaybackFits ==
    /\ client = "sending" => events = <<>>
    /\ client \in {"sending", "receiving"} => player = <<>> /\ played = <<>>
    /\ client \in {"receiving", "playing"} => ~Seen("tts.audio")
    /\ client = "playing" => /\ inputs # <<>> /\ Seen("translate.result")
                             /\ played \o player = Devices
    /\ client \in {"closing", "ok"} => /\ Seen("translate.result") /\ Seen("tts.audio")
                                       /\ player = <<>>
                                       /\ inputs # <<>> => played = Devices

RoomKept == open => Len(down) <= DownRoom

ExchangeInv ==
    /\ ExchangeTypeOK /\ BeginsQuiet /\ UplinkKept
    /\ SpeechIsBinary /\ SpeechIsAnnounced /\ PlaybackFits /\ RoomKept

IInv == CaptureInv /\ ExchangeInv

-----------------------------------------------------------------------------
\* Samples and frames of a device.

LEMMA InFramesFacts ==
    /\ InFrames(0) = 0
    /\ \A n \in Nat : InFrames(n) \in Nat /\ InFrames(n + 1) = InFrames(n) + SourceFrame
<1>1. SourceFrame \in Nat
      BY CaptureAssumption
<1>2. InFrames(0) = 0
      BY <1>1 DEF InFrames
<1>3. ASSUME NEW n \in Nat PROVE InFrames(n) \in Nat /\ InFrames(n + 1) = InFrames(n) + SourceFrame
      <2>1. n * SourceFrame \in Nat /\ (n + 1) * SourceFrame = n * SourceFrame + SourceFrame
            BY <1>1
      <2> QED BY <2>1 DEF InFrames
<1> QED BY <1>2, <1>3

LEMMA SamplesType ==
    ASSUME NEW f \in Nat, NEW n \in Nat
    PROVE  /\ Samples(f, n) \in Seq(Nat) /\ Len(Samples(f, n)) = n
           /\ \A j \in 1..n : Samples(f, n)[j] = f + j
           /\ n > 0 => Samples(f, n) # <<>> /\ Last(Samples(f, n)) = f + n
<1>1. Samples(f, n) \in [1..n -> Nat]
      BY DEF Samples
<1>2. Samples(f, n) \in Seq(Nat)
      BY <1>1, SeqDef
<1>3. Len(Samples(f, n)) = n
      BY <1>1, <1>2, LenProperties
<1>4. \A j \in 1..n : Samples(f, n)[j] = f + j
      BY DEF Samples
<1> QED BY <1>2, <1>3, <1>4 DEF Last

LEMMA SamplesOfNone == \A f \in Nat : Samples(f, 0) = <<>>
<1> SUFFICES ASSUME NEW f \in Nat PROVE Samples(f, 0) = <<>>
    OBVIOUS
<1>1. Samples(f, 0) \in Seq(Nat) /\ Len(Samples(f, 0)) = 0
      BY SamplesType
<1> QED BY <1>1, EmptySeq

\* Samples that follow each other are the samples of both.
LEMMA SamplesJoin ==
    ASSUME NEW f \in Nat, NEW m \in Nat, NEW n \in Nat
    PROVE  Samples(f, m) \o Samples(f + m, n) = Samples(f, m + n)
<1> DEFINE a == Samples(f, m)
           b == Samples(f + m, n)
           c == Samples(f, m + n)
<1>0. f + m \in Nat /\ m + n \in Nat
      OBVIOUS
<1>1. /\ a \in Seq(Nat) /\ Len(a) = m /\ \A j \in 1..m : a[j] = f + j
      /\ b \in Seq(Nat) /\ Len(b) = n /\ \A j \in 1..n : b[j] = f + m + j
      /\ c \in Seq(Nat) /\ Len(c) = m + n /\ \A j \in 1..m + n : c[j] = f + j
      BY <1>0, SamplesType
<1> HIDE DEF a, b, c
<1>2. /\ a \o b \in Seq(Nat) /\ Len(a \o b) = m + n
      /\ \A j \in 1..m + n : (a \o b)[j] = IF j <= m THEN a[j] ELSE b[j - m]
      BY <1>1, ConcatProperties
<1>3. ASSUME NEW j \in 1..m + n PROVE (a \o b)[j] = c[j]
      <2>1. CASE j <= m
            <3>1. j \in 1..m
                  BY <2>1
            <3>2. (a \o b)[j] = a[j]
                  BY <1>2, <2>1
            <3>3. a[j] = f + j /\ c[j] = f + j
                  BY <1>1, <3>1
            <3> QED BY <3>2, <3>3
      <2>2. CASE j > m
            <3> DEFINE p == j - m
            <3>1. p \in 1..n /\ f + m + p = f + j
                  BY <1>0, <2>2
            <3>2. b[p] = f + m + p
                  BY <1>1, <3>1
            <3>3. (a \o b)[j] = b[p]
                  BY <1>2, <2>2
            <3>4. c[j] = f + j
                  BY <1>1
            <3> HIDE DEF p
            <3> QED BY <3>1, <3>2, <3>3, <3>4
      <2>3. j \in Int /\ m \in Int
            BY <1>0
      <2>4. j <= m \/ j > m
            BY <2>3
      <2> QED BY <2>1, <2>2, <2>4
<1>4. a \o b = c
      BY <1>1, <1>2, <1>3, SeqEqual
<1> QED BY <1>4 DEF a, b, c

\* Samples can be cut in two.
LEMMA SamplesSplit ==
    ASSUME NEW f \in Nat, NEW n \in Nat, NEW m \in 0..n
    PROVE  /\ SubSeq(Samples(f, n), 1, m) = Samples(f, m)
           /\ SubSeq(Samples(f, n), m + 1, n) = Samples(f + m, n - m)
<1> DEFINE a == Samples(f, n)
           b == Samples(f, m)
           c == Samples(f + m, n - m)
<1>1. n - m \in Nat /\ m \in Nat /\ f + m \in Nat
      OBVIOUS
<1>2. /\ a \in Seq(Nat) /\ Len(a) = n /\ \A j \in 1..n : a[j] = f + j
      /\ b \in Seq(Nat) /\ Len(b) = m /\ \A j \in 1..m : b[j] = f + j
      /\ c \in Seq(Nat) /\ Len(c) = n - m /\ \A j \in 1..n - m : c[j] = f + m + j
      BY <1>1, SamplesType
<1> HIDE DEF a, b, c
<1>3. \A j \in 1..n : a[j] \in Nat
      BY <1>2
<1>4. SubSeq(a, 1, m) = b
      <2> DEFINE d == SubSeq(a, 1, m)
      <2>1. d \in Seq(Nat) /\ Len(d) = m /\ \A j \in 1..m : d[j] = a[j]
            <3>1. 1 \in Int /\ m \in Int /\ \A j \in 1..m : a[j] \in Nat
                  BY <1>3
            <3>2. /\ SubSeq(a, 1, m) \in Seq(Nat)
                  /\ Len(SubSeq(a, 1, m)) = IF 1 <= m THEN m - 1 + 1 ELSE 0
                  /\ \A j \in 1..m - 1 + 1 : SubSeq(a, 1, m)[j] = a[1 + j - 1]
                  BY <3>1, SubSeqProperties
            <3> QED BY <3>2
      <2> HIDE DEF d
      <2>2. \A j \in 1..Len(d) : d[j] = b[j]
            BY <1>2, <2>1
      <2>3. d = b
            BY <1>2, <2>1, <2>2, SeqEqual
      <2> QED BY <2>3 DEF d
<1>5. SubSeq(a, m + 1, n) = c
      <2> DEFINE d == SubSeq(a, m + 1, n)
      <2>1. d \in Seq(Nat) /\ Len(d) = n - m /\ \A j \in 1..n - m : d[j] = a[m + j]
            <3>1. m + 1 \in Int /\ n \in Int /\ \A j \in m + 1..n : a[j] \in Nat
                  BY <1>3
            <3>2. /\ SubSeq(a, m + 1, n) \in Seq(Nat)
                  /\ Len(SubSeq(a, m + 1, n)) = IF m + 1 <= n THEN n - (m + 1) + 1 ELSE 0
                  /\ \A j \in 1..n - (m + 1) + 1 : SubSeq(a, m + 1, n)[j] = a[(m + 1) + j - 1]
                  BY <3>1, SubSeqProperties
            <3>3. n - (m + 1) + 1 = n - m /\ \A j \in 1..n - m : (m + 1) + j - 1 = m + j
                  OBVIOUS
            <3> QED BY <3>2, <3>3
      <2> HIDE DEF d
      <2>2. ASSUME NEW j \in 1..Len(d) PROVE d[j] = c[j]
            <3>1. j \in 1..n - m /\ m + j \in 1..n
                  BY <2>1
            <3> QED BY <1>2, <2>1, <3>1
      <2>3. d = c
            BY <1>2, <2>1, <2>2, SeqEqual
      <2> QED BY <2>3 DEF d
<1> QED BY <1>4, <1>5 DEF a, b, c

-----------------------------------------------------------------------------
\* Recording keeps its invariant: the first frames, and every step.

LEMMA CaptureInitially == CaptureInit => CaptureInv
<1> SUFFICES ASSUME CaptureInit PROVE CaptureInv
    OBVIOUS
<1>1. FrameCount \in Nat \ {0} /\ MaxChunks \in Nat
      BY CaptureAssumption
<1>2. <<>> \in Seq(Frames) /\ <<>> \in Seq(Nat) /\ <<>> \in Seq(Seq(Nat))
      BY EmptySeq
<1>3. MockFrame \in Frames
      BY EmptySeq DEF MockFrame, Frames, Streams
<1>4. inputs \in Seq(Streams)
      <2>1. "audio_local" \in Streams /\ "audio_remote" \in Streams
            BY DEF Streams
      <2>2. <<>> \in Seq(Streams) /\ <<"audio_local">> \in Seq(Streams)
            /\ <<"audio_local", "audio_remote">> \in Seq(Streams)
            BY <2>1
      <2> QED BY <2>2 DEF CaptureInit
<1>5. frames \in Seq(Frames)
      BY <1>2, <1>3 DEF CaptureInit
<1>6. CaptureTypeOK
      <2>1. recording = 1 /\ at \in {"ok", "open"} /\ channel = <<>> /\ slot \in BOOLEAN
            /\ delivered = 0 /\ callbacks = 0 /\ buffer = <<>> /\ taken = <<>>
            BY DEF CaptureInit
      <2> QED BY <1>1, <1>2, <1>4, <1>5, <2>1 DEF CaptureTypeOK
<1>7. StreamIsThere /\ CaptureBegins /\ FramesCounted /\ TakenIsHere
      BY <1>1 DEF CaptureInit, StreamIsThere, CaptureBegins, FramesCounted, TakenIsHere, Inputs
<1>8. FramesNumbered
      BY DEF CaptureInit, FramesNumbered, MockFrame
<1>9. GapFree
      BY DEF CaptureInit, GapFree, TakenFit, FramesFit, RestFits, Callbacks
<1> QED BY <1>6, <1>7, <1>8, <1>9 DEF CaptureInv

\* Steps that move the loop and leave every sample where it is.
Moves(from, to) ==
    /\ at = from /\ at' \in to
    /\ UNCHANGED <<inputs, recording, channel, delivered, callbacks, buffer, taken, frames>>

LEMMA MovesKeep ==
    ASSUME CaptureInv, slot' \in BOOLEAN,
           \/ Moves("check", {"receive", "failed"})
           \/ Moves("receive", {"failed"})
           \/ Moves("cut", {"check"})
    PROVE  CaptureInv'
<1>1. at' \in {"check", "receive", "failed"}
      BY DEF Moves
<1>2. at \in {"check", "receive", "cut"}
      BY DEF Moves
<1>3. UNCHANGED <<inputs, recording, channel, delivered, callbacks, buffer, taken, frames>>
      BY DEF Moves
<1>4. CaptureTypeOK'
      BY <1>1, <1>3 DEF CaptureInv, CaptureTypeOK
<1>5. (StreamIsThere /\ CaptureBegins /\ FramesCounted)'
      BY <1>1, <1>2, <1>3 DEF CaptureInv, StreamIsThere, CaptureBegins, FramesCounted
<1>6. TakenIsHere' /\ FramesNumbered'
      BY <1>1, <1>3 DEF CaptureInv, TakenIsHere, Here, FramesNumbered
<1>7. TakenFit' /\ FramesFit'
      BY <1>3 DEF CaptureInv, GapFree, TakenFit, FramesFit
<1>8. RestFits'
      BY <1>2, <1>3 DEF CaptureInv, GapFree, RestFits, Callbacks, Before
<1> QED BY <1>4, <1>5, <1>6, <1>7, <1>8 DEF CaptureInv, GapFree

LEMMA OpenKeeps == CaptureInv /\ Open => CaptureInv'
<1> SUFFICES ASSUME CaptureInv, Open PROVE CaptureInv'
    OBVIOUS
<1>1. at = "open" /\ at' \in {"check", "failed"}
      BY DEF Open
<1>2. UNCHANGED <<inputs, recording, channel, slot, delivered, callbacks, buffer, taken, frames>>
      BY DEF Open, device
<1>3. CaptureTypeOK'
      BY <1>1, <1>2 DEF CaptureInv, CaptureTypeOK
<1>4. (StreamIsThere /\ CaptureBegins /\ FramesCounted)'
      BY <1>1, <1>2 DEF CaptureInv, StreamIsThere, CaptureBegins, FramesCounted
<1>5. TakenIsHere' /\ FramesNumbered'
      BY <1>1, <1>2 DEF CaptureInv, TakenIsHere, Here, FramesNumbered
<1>6. TakenFit' /\ FramesFit'
      BY <1>2 DEF CaptureInv, GapFree, TakenFit, FramesFit
<1>7. RestFits'
      <2>1. buffer' = <<>> /\ taken' = <<>> /\ channel' = <<>> /\ delivered' = 0
            BY <1>1, <1>2 DEF CaptureInv, CaptureBegins
      <2>2. Samples(InFrames(0), 0) = <<>> /\ InFrames(0) = 0
            BY InFramesFacts, SamplesOfNone
      <2> QED BY <2>1, <2>2 DEF RestFits, Before
<1> QED BY <1>3, <1>4, <1>5, <1>6, <1>7 DEF CaptureInv, GapFree

LEMMA CheckKeeps == CaptureInv /\ Check => CaptureInv'
<1> SUFFICES ASSUME CaptureInv, Check PROVE CaptureInv'
    OBVIOUS
<1>1. slot' \in BOOLEAN
      BY DEF Check
<1>2. Moves("check", {"receive", "failed"})
      BY DEF Check, Moves
<1> QED BY <1>1, <1>2, MovesKeep

LEMMA EndsKeep == CaptureInv /\ (CutEnds \/ ReceiveTimesOut) => CaptureInv'
<1> SUFFICES ASSUME CaptureInv, CutEnds \/ ReceiveTimesOut PROVE CaptureInv'
    OBVIOUS
<1>1. slot' \in BOOLEAN
      BY DEF CaptureInv, CaptureTypeOK, CutEnds, ReceiveTimesOut, device
<1>2. Moves("receive", {"failed"}) \/ Moves("cut", {"check"})
      BY DEF CutEnds, ReceiveTimesOut, Moves, device
<1> QED BY <1>1, <1>2, MovesKeep

LEMMA DeviceErrorKeeps == CaptureInv /\ DeviceError => CaptureInv'
<1> SUFFICES ASSUME CaptureInv, DeviceError PROVE CaptureInv'
    OBVIOUS
<1>1. UNCHANGED <<inputs, recording, at, channel, delivered, buffer, taken, frames>>
      BY DEF DeviceError
<1>2. callbacks' \in 0..MaxChunks /\ slot' \in BOOLEAN
      BY CaptureAssumption DEF DeviceError, CaptureInv, CaptureTypeOK
<1>3. CaptureTypeOK'
      BY <1>1, <1>2 DEF CaptureInv, CaptureTypeOK
<1>4. (StreamIsThere /\ CaptureBegins /\ FramesCounted)'
      BY <1>1 DEF CaptureInv, StreamIsThere, CaptureBegins, FramesCounted
<1>5. TakenIsHere' /\ FramesNumbered'
      BY <1>1 DEF CaptureInv, TakenIsHere, Here, FramesNumbered
<1>6. TakenFit' /\ FramesFit' /\ RestFits'
      BY <1>1 DEF CaptureInv, GapFree, TakenFit, FramesFit, RestFits, Callbacks, Before
<1> QED BY <1>3, <1>4, <1>5, <1>6 DEF CaptureInv, GapFree

LEMMA DeliverKeeps == ASSUME CaptureInv, NEW n \in ChunkSizes, Deliver(n) PROVE CaptureInv'
<1> DEFINE chunk == Samples(delivered, n)
<1>1. n \in Nat /\ n > 0
      BY CaptureAssumption
<1>2. Callbacks /\ at \in {"check", "receive", "cut"} /\ delivered \in Nat /\ channel \in Seq(Seq(Nat))
      BY DEF Deliver, Callbacks, CaptureInv, CaptureTypeOK
<1>3. UNCHANGED <<inputs, recording, at, slot, buffer, taken, frames>>
      BY DEF Deliver
<1>4. channel' = Append(channel, chunk) /\ delivered' = delivered + n
      BY DEF Deliver, Samples
<1>5. chunk \in Seq(Nat) /\ Len(chunk) = n /\ chunk # <<>> /\ Last(chunk) = delivered + n
      BY <1>1, <1>2, SamplesType
<1>6. chunk = Samples(delivered, Len(chunk))
      BY <1>5
<1> HIDE DEF chunk
<1>7. /\ channel' \in Seq(Seq(Nat)) /\ Len(channel') = Len(channel) + 1
      /\ \A c \in 1..Len(channel) : channel'[c] = channel[c]
      /\ channel'[Len(channel) + 1] = chunk
      BY <1>2, <1>4, <1>5, AppendProperties
<1>8. callbacks' \in 0..MaxChunks
      BY CaptureAssumption DEF Deliver, CaptureInv, CaptureTypeOK
<1>9. CaptureTypeOK'
      BY <1>1, <1>2, <1>3, <1>4, <1>7, <1>8 DEF CaptureInv, CaptureTypeOK
<1>10. (StreamIsThere /\ CaptureBegins /\ FramesCounted)'
      BY <1>2, <1>3 DEF CaptureInv, StreamIsThere, CaptureBegins, FramesCounted
<1>11. TakenIsHere' /\ FramesNumbered'
      BY <1>3 DEF CaptureInv, TakenIsHere, Here, FramesNumbered
<1>12. TakenFit' /\ FramesFit'
      BY <1>3 DEF CaptureInv, GapFree, TakenFit, FramesFit
<1>13. RestFits'
      <2>1. Len(channel) \in Nat /\ DOMAIN channel = 1..Len(channel)
            /\ DOMAIN channel' = 1..Len(channel) + 1
            BY <1>2, <1>7
      <2>2. /\ buffer = Samples(InFrames(Len(taken)), Len(buffer))
            /\ \A c \in DOMAIN channel :
                  channel[c] # <<>> /\ channel[c] = Samples(Before(c), Len(channel[c]))
            /\ Before(Len(channel) + 1) = delivered
            BY <1>2 DEF CaptureInv, GapFree, RestFits
      <2>3. ASSUME NEW c \in 1..Len(channel) + 1 PROVE Before(c)' = Before(c)
            <3>1. CASE c = 1
                  BY <1>3, <3>1 DEF Before
            <3>2. CASE c # 1
                  <4>1. c - 1 \in 1..Len(channel)
                        BY <2>1, <3>2
                  <4>2. channel'[c - 1] = channel[c - 1]
                        BY <1>7, <4>1
                  <4> QED BY <3>2, <4>2 DEF Before
            <3> QED BY <3>1, <3>2
      <2>4. ASSUME NEW c \in DOMAIN channel'
            PROVE  channel'[c] # <<>> /\ channel'[c] = Samples(Before(c)', Len(channel'[c]))
            <3>1. CASE c \in 1..Len(channel)
                  <4>1. channel'[c] = channel[c] /\ Before(c)' = Before(c)
                        BY <1>7, <2>1, <2>3, <3>1
                  <4> QED BY <2>1, <2>2, <3>1, <4>1
            <3>2. CASE c = Len(channel) + 1
                  <4>1. channel'[c] = chunk /\ Before(c)' = delivered
                        BY <1>7, <2>1, <2>2, <2>3, <3>2
                  <4> QED BY <1>5, <1>6, <4>1
            <3> QED BY <2>1, <3>1, <3>2
      <2>5. Len(channel') + 1 # 1 /\ Len(channel') + 1 - 1 = Len(channel) + 1
            BY <1>7, <2>1
      <2>6. Before(Len(channel) + 1)' = Last(channel'[Len(channel') + 1 - 1])
            BY <2>5 DEF Before
      <2>7. Before(Len(channel) + 1)' = delivered'
            BY <1>4, <1>5, <1>7, <2>5, <2>6
      <2>8. buffer' = Samples(InFrames(Len(taken')), Len(buffer'))
            BY <1>3, <2>2
      <2> QED BY <2>4, <2>7, <2>8 DEF RestFits
<1> QED BY <1>9, <1>10, <1>11, <1>12, <1>13 DEF CaptureInv, GapFree

LEMMA ReceiveKeeps == CaptureInv /\ Receive => CaptureInv'
<1> SUFFICES ASSUME CaptureInv, Receive PROVE CaptureInv'
    OBVIOUS
<1> DEFINE chunk == Head(channel)
           before == InFrames(Len(taken))
<1>1. /\ at = "receive" /\ at' = "cut" /\ channel # <<>>
      /\ buffer' = buffer \o chunk /\ channel' = Tail(channel)
      /\ UNCHANGED <<inputs, recording, slot, delivered, callbacks, taken, frames>>
      BY DEF Receive
<1>2. /\ channel \in Seq(Seq(Nat)) /\ buffer \in Seq(Nat) /\ taken \in Seq(Frames)
      BY DEF CaptureInv, CaptureTypeOK
<1>3. /\ chunk \in Seq(Nat) /\ chunk = channel[1]
      /\ channel' \in Seq(Seq(Nat)) /\ Len(channel') = Len(channel) - 1
      /\ \A c \in 1..Len(channel') : channel'[c] = channel[c + 1]
      BY <1>1, <1>2, HeadTailProperties
<1>4. Len(channel) \in Nat \ {0} /\ Len(channel') \in Nat
      /\ DOMAIN channel = 1..Len(channel) /\ DOMAIN channel' = 1..Len(channel')
      BY <1>1, <1>2, <1>3
<1>5. Len(buffer) \in Nat /\ Len(chunk) \in Nat /\ Len(taken) \in Nat
      BY <1>2, <1>3
<1>6. before \in Nat
      BY <1>5, InFramesFacts
<1> HIDE DEF chunk
<1>7. /\ buffer = Samples(before, Len(buffer))
      /\ \A c \in 1..Len(channel) :
            channel[c] # <<>> /\ channel[c] = Samples(Before(c), Len(channel[c]))
      /\ Before(Len(channel) + 1) = delivered
      BY <1>1, <1>4 DEF CaptureInv, GapFree, RestFits, Callbacks
<1>8. Before(1) = before + Len(buffer)
      BY DEF Before
<1>9. chunk # <<>> /\ chunk = Samples(before + Len(buffer), Len(chunk))
      BY <1>3, <1>4, <1>7, <1>8
<1>10. buffer' = Samples(before, Len(buffer) + Len(chunk))
      <2>1. Samples(before, Len(buffer)) \o Samples(before + Len(buffer), Len(chunk))
                = Samples(before, Len(buffer) + Len(chunk))
            BY <1>5, <1>6, SamplesJoin
      <2> QED BY <1>1, <1>7, <1>9, <2>1
<1>11. buffer' \in Seq(Nat) /\ Len(buffer') = Len(buffer) + Len(chunk)
      BY <1>1, <1>2, <1>3, ConcatProperties
<1>12. Last(chunk) = before + Len(buffer')
      <2>1. Len(chunk) > 0 /\ before + Len(buffer) \in Nat
            BY <1>3, <1>5, <1>6, <1>9
      <2>2. Last(Samples(before + Len(buffer), Len(chunk))) = before + Len(buffer) + Len(chunk)
            BY <1>5, <2>1, SamplesType
      <2> QED BY <1>5, <1>6, <1>9, <1>11, <2>2
<1>13. CaptureTypeOK'
      BY <1>1, <1>3, <1>11 DEF CaptureInv, CaptureTypeOK
<1>14. (StreamIsThere /\ CaptureBegins /\ FramesCounted)'
      BY <1>1 DEF CaptureInv, StreamIsThere, CaptureBegins, FramesCounted
<1>15. TakenIsHere' /\ FramesNumbered'
      BY <1>1 DEF CaptureInv, TakenIsHere, Here, FramesNumbered
<1>16. TakenFit' /\ FramesFit'
      BY <1>1 DEF CaptureInv, GapFree, TakenFit, FramesFit
<1>17. RestFits'
      <2>1. ASSUME NEW c \in 1..Len(channel') + 1
            PROVE  Before(c)' = Before(c + 1)
            <3>1. CASE c = 1
                  <4>1. Before(c)' = before + Len(buffer')
                        BY <1>1, <3>1 DEF Before
                  <4>2. Before(c + 1) = Last(channel[1])
                        BY <3>1 DEF Before
                  <4> QED BY <1>3, <1>12, <4>1, <4>2
            <3>2. CASE c # 1
                  <4>1. c - 1 \in 1..Len(channel') /\ c - 1 + 1 = c + 1 - 1 /\ c + 1 # 1
                        BY <1>4, <3>2
                  <4>2. channel'[c - 1] = channel[c + 1 - 1]
                        BY <1>3, <4>1
                  <4> QED BY <3>2, <4>1, <4>2 DEF Before
            <3> QED BY <3>1, <3>2
      <2>2. ASSUME NEW c \in DOMAIN channel'
            PROVE  channel'[c] # <<>> /\ channel'[c] = Samples(Before(c)', Len(channel'[c]))
            <3>1. c \in 1..Len(channel') + 1 /\ c + 1 \in 1..Len(channel)
                  BY <1>3, <1>4
            <3>2. channel'[c] = channel[c + 1] /\ Before(c)' = Before(c + 1)
                  BY <1>3, <1>4, <2>1, <3>1
            <3> QED BY <1>7, <3>1, <3>2
      <2>3. ASSUME NEW c, c = Len(channel') + 1 PROVE Before(c)' = delivered
            <3>1. c \in 1..Len(channel') + 1 /\ c + 1 = Len(channel) + 1
                  BY <1>3, <1>4, <2>3
            <3>2. Before(c)' = Before(c + 1)
                  BY <2>1, <3>1
            <3> QED BY <1>7, <3>1, <3>2
      <2>4. Before(Len(channel) + 1)' = delivered'
            BY <1>1, <2>3 DEF Before
      <2>5. buffer' = Samples(InFrames(Len(taken')), Len(buffer'))
            BY <1>1, <1>10, <1>11
      <2> QED BY <2>2, <2>4, <2>5 DEF RestFits
<1> QED BY <1>13, <1>14, <1>15, <1>16, <1>17 DEF CaptureInv, GapFree

\* What the next frame is: it has the samples that follow the last one.
LEMMA NextFrameFacts ==
    ASSUME CaptureInv, at = "cut", Len(buffer) >= SourceFrame
    PROVE  /\ NextFrame \in Frames /\ NextFrame.stream = Here
           /\ NextFrame.samples = Samples(InFrames(Len(taken)), SourceFrame)
<1>1. SourceFrame \in Nat /\ SegmentFrames \in Nat \ {0}
      BY CaptureAssumption
<1>2. buffer \in Seq(Nat) /\ Len(buffer) \in Nat /\ taken \in Seq(Frames) /\ Len(taken) \in Nat
      BY DEF CaptureInv, CaptureTypeOK
<1>3. InFrames(Len(taken)) \in Nat
      BY <1>2, InFramesFacts
<1>4. SourceFrame \in 0..Len(buffer)
      BY <1>1, <1>2
<1>5. buffer = Samples(InFrames(Len(taken)), Len(buffer))
      BY DEF CaptureInv, GapFree, RestFits, Callbacks
<1>6. SubSeq(buffer, 1, SourceFrame) = Samples(InFrames(Len(taken)), SourceFrame)
      <2>1. SubSeq(Samples(InFrames(Len(taken)), Len(buffer)), 1, SourceFrame)
                = Samples(InFrames(Len(taken)), SourceFrame)
            BY <1>2, <1>3, <1>4, SamplesSplit
      <2> QED BY <1>5, <2>1
<1>7. SubSeq(buffer, 1, SourceFrame) \in Seq(Nat)
      BY <1>1, <1>3, <1>6, SamplesType
<1>8. (Len(taken) \div SegmentFrames) + 1 \in Nat \ {0}
      <2>1. ASSUME NEW l \in Nat, NEW s \in Nat \ {0} PROVE (l \div s) + 1 \in Nat \ {0}
            BY Z3
      <2> QED BY <1>1, <1>2, <2>1
<1>9. Here \in Streams
      <2>1. inputs \in Inputs /\ inputs # <<>> /\ recording \in 1..2 /\ recording <= Len(inputs)
            BY DEF CaptureInv, CaptureTypeOK, StreamIsThere
      <2> QED BY <2>1 DEF Inputs, Here, Streams
<1> QED BY <1>2, <1>6, <1>7, <1>8, <1>9 DEF NextFrame, Frames

LEMMA CutFrameKeeps == CaptureInv /\ CutFrame => CaptureInv'
<1> SUFFICES ASSUME CaptureInv, CutFrame PROVE CaptureInv'
    OBVIOUS
<1> DEFINE n == Len(taken)
           l == Len(buffer)
           rest == SubSeq(buffer, SourceFrame + 1, Len(buffer))
<1>1. /\ at = "cut" /\ at' = "cut" /\ l >= SourceFrame /\ Missing > 0
      /\ taken' = Append(taken, NextFrame) /\ buffer' = rest
      /\ UNCHANGED <<inputs, recording, channel, slot, delivered, callbacks, frames>>
      BY DEF CutFrame, device
<1>2. /\ buffer \in Seq(Nat) /\ taken \in Seq(Frames) /\ channel \in Seq(Seq(Nat))
      /\ n \in Nat /\ l \in Nat
      BY DEF CaptureInv, CaptureTypeOK
<1>3. /\ NextFrame \in Frames /\ NextFrame.stream = Here
      /\ NextFrame.samples = Samples(InFrames(n), SourceFrame)
      BY <1>1, NextFrameFacts
<1>4. /\ taken' \in Seq(Frames) /\ Len(taken') = n + 1
      /\ \A k \in 1..n : taken'[k] = taken[k]
      /\ taken'[n + 1] = NextFrame
      BY <1>1, <1>2, <1>3, AppendProperties
<1>5. DOMAIN taken = 1..n /\ DOMAIN taken' = 1..n + 1
      BY <1>2, <1>4
<1>6. SourceFrame \in 0..l /\ SourceFrame \in Nat /\ FrameCount \in Nat
      BY <1>1, <1>2, CaptureAssumption
<1>7. InFrames(n) \in Nat /\ InFrames(n + 1) \in Nat /\ InFrames(n + 1) = InFrames(n) + SourceFrame
      BY <1>2, InFramesFacts
<1>8. /\ buffer = Samples(InFrames(n), l)
      /\ \A c \in DOMAIN channel :
            channel[c] # <<>> /\ channel[c] = Samples(Before(c), Len(channel[c]))
      /\ Before(Len(channel) + 1) = delivered
      BY <1>1 DEF CaptureInv, GapFree, RestFits, Callbacks
<1>9. rest = Samples(InFrames(n + 1), l - SourceFrame)
      <2>1. SubSeq(Samples(InFrames(n), l), SourceFrame + 1, l)
                = Samples(InFrames(n) + SourceFrame, l - SourceFrame)
            BY <1>2, <1>6, <1>7, SamplesSplit
      <2> QED BY <1>7, <1>8, <2>1
<1>10. l - SourceFrame \in Nat
       BY <1>2, <1>6
<1>11. buffer' \in Seq(Nat) /\ Len(buffer') = l - SourceFrame
       <2>1. /\ Samples(InFrames(n + 1), l - SourceFrame) \in Seq(Nat)
             /\ Len(Samples(InFrames(n + 1), l - SourceFrame)) = l - SourceFrame
             BY <1>7, <1>10, SamplesType
       <2> QED BY <1>1, <1>9, <2>1
<1> HIDE DEF n, l, rest
<1>12. CaptureTypeOK'
       BY <1>1, <1>4, <1>11 DEF CaptureInv, CaptureTypeOK
<1>13. (StreamIsThere /\ FramesCounted)'
       BY <1>1 DEF CaptureInv, StreamIsThere, FramesCounted
<1>14. CaptureBegins'
       BY <1>1, <1>2, <1>4, <1>6 DEF CaptureInv, CaptureBegins, Missing, n
<1>15. TakenIsHere'
       <2>1. Here' = Here
             BY <1>1 DEF Here
       <2>2. ASSUME NEW k \in DOMAIN taken' PROVE taken'[k].stream = Here
             <3>1. CASE k \in 1..n
                   BY <1>4, <1>5, <3>1 DEF CaptureInv, TakenIsHere
             <3>2. CASE k = n + 1
                   BY <1>3, <1>4, <3>2
             <3> QED BY <1>2, <1>5, <3>1, <3>2
       <2> QED BY <2>1, <2>2 DEF TakenIsHere
<1>16. FramesNumbered' /\ FramesFit'
       BY <1>1 DEF CaptureInv, FramesNumbered, GapFree, FramesFit
<1>17. TakenFit'
       <2>1. ASSUME NEW k \in DOMAIN taken'
             PROVE  taken'[k].samples = Samples(InFrames(k - 1), SourceFrame)
             <3>1. CASE k \in 1..n
                   BY <1>4, <1>5, <3>1 DEF CaptureInv, GapFree, TakenFit
             <3>2. CASE k = n + 1
                   <4>1. k - 1 = n
                         BY <1>2, <3>2
                   <4> QED BY <1>3, <1>4, <3>2, <4>1
             <3> QED BY <1>2, <1>5, <3>1, <3>2
       <2> QED BY <2>1 DEF TakenFit
<1>18. RestFits'
       <2>1. ASSUME NEW c PROVE Before(c)' = Before(c)
             <3>1. CASE c = 1
                   <4>1. Before(c)' = InFrames(Len(taken')) + Len(buffer')
                         BY <3>1 DEF Before
                   <4>2. Before(c) = InFrames(n) + l
                         BY <3>1 DEF Before, n, l
                   <4>3. InFrames(n + 1) + (l - SourceFrame) = InFrames(n) + l
                         BY <1>2, <1>6, <1>7
                   <4> QED BY <1>4, <1>11, <4>1, <4>2, <4>3
             <3>2. CASE c # 1
                   BY <1>1, <3>2 DEF Before
             <3> QED BY <3>1, <3>2
       <2>2. ASSUME NEW c \in DOMAIN channel'
             PROVE  channel'[c] # <<>> /\ channel'[c] = Samples(Before(c)', Len(channel'[c]))
             BY <1>1, <1>8, <2>1
       <2>3. ASSUME NEW c, c = Len(channel) + 1 PROVE Before(c)' = delivered
             BY <1>8, <2>1, <2>3
       <2>4. Before(Len(channel) + 1)' = delivered'
             BY <1>1, <2>3 DEF Before
       <2>5. buffer' = Samples(InFrames(Len(taken')), Len(buffer'))
             BY <1>1, <1>4, <1>9, <1>11
       <2> QED BY <2>2, <2>4, <2>5 DEF RestFits
<1> QED BY <1>12, <1>13, <1>14, <1>15, <1>16, <1>17, <1>18 DEF CaptureInv, GapFree

\* Normalising changes numbers and segments only.
LEMMA NormalisedFacts ==
    ASSUME NEW all \in Seq(Frames)
    PROVE  /\ Normalised(all) \in Seq(Frames) /\ Len(Normalised(all)) = Len(all)
           /\ DOMAIN Normalised(all) = DOMAIN all
           /\ \A k \in DOMAIN all :
                 /\ Normalised(all)[k].stream = all[k].stream
                 /\ Normalised(all)[k].samples = all[k].samples
                 /\ Normalised(all)[k].sequence_no = k
                 /\ Normalised(all)[k].segment = IF all[k].stream = "audio_local" THEN 1 ELSE 2
<1> DEFINE one(k) == [all[k] EXCEPT !.sequence_no = k,
                                    !.segment = IF all[k].stream = "audio_local" THEN 1 ELSE 2]
<1>1. Len(all) \in Nat /\ DOMAIN all = 1..Len(all) /\ \A k \in DOMAIN all : all[k] \in Frames
      BY LenProperties
<1>2. Normalised(all) = [k \in DOMAIN all |-> one(k)]
      BY DEF Normalised
<1>3. ASSUME NEW k \in DOMAIN all
      PROVE  /\ one(k) \in Frames
             /\ one(k).stream = all[k].stream /\ one(k).samples = all[k].samples
             /\ one(k).sequence_no = k
             /\ one(k).segment = IF all[k].stream = "audio_local" THEN 1 ELSE 2
      <2>1. all[k] \in Frames /\ k \in Nat \ {0}
            BY <1>1
      <2> DEFINE frame == all[k]
                 number == IF all[k].stream = "audio_local" THEN 1 ELSE 2
      <2>2. number \in Nat \ {0}
            OBVIOUS
      <2>3. one(k) = [frame EXCEPT !.sequence_no = k, !.segment = number]
            OBVIOUS
      <2>4. number = IF all[k].stream = "audio_local" THEN 1 ELSE 2
            OBVIOUS
      <2> HIDE DEF number, one
      <2> QED BY <2>1, <2>2, <2>3, <2>4 DEF Frames
<1> HIDE DEF one
<1>4. Normalised(all) \in [1..Len(all) -> Frames]
      BY <1>1, <1>2, <1>3
<1>5. Normalised(all) \in Seq(Frames)
      BY <1>1, <1>4, SeqDef
<1>6. Len(Normalised(all)) = Len(all) /\ DOMAIN Normalised(all) = DOMAIN all
      BY <1>1, <1>4, <1>5, LenProperties
<1> QED BY <1>2, <1>3, <1>5, <1>6

LEMMA CompleteKeeps == CaptureInv /\ Complete => CaptureInv'
<1> SUFFICES ASSUME CaptureInv, Complete PROVE CaptureInv'
    OBVIOUS
<1> DEFINE all == frames \o taken
           m == Len(frames)
           place(k) == IF k <= FrameCount THEN k ELSE k - FrameCount
<1>1. /\ at = "check" /\ Missing = 0 /\ inputs' = inputs
      /\ channel' = <<>> /\ delivered' = 0 /\ callbacks' = 0 /\ buffer' = <<>> /\ taken' = <<>>
      BY DEF Complete
<1>2. slot' \in BOOLEAN
      BY DEF Complete
<1>3. FrameCount \in Nat \ {0} /\ MaxChunks \in Nat
      BY CaptureAssumption
<1>4. /\ inputs \in Inputs /\ inputs # <<>> /\ recording \in 1..2 /\ recording <= Len(inputs)
      /\ frames \in Seq(Frames) /\ taken \in Seq(Frames) /\ inputs \in Seq(Streams)
      BY <1>1 DEF CaptureInv, CaptureTypeOK, StreamIsThere
<1>5. Len(taken) = FrameCount /\ m = IF recording = 1 THEN 0 ELSE FrameCount
      <2>1. Len(taken) \in Nat
            BY <1>4
      <2> QED BY <1>1, <1>3, <1>4, <2>1 DEF Missing, CaptureInv, FramesCounted
<1>6. Len(inputs) \in 1..2 /\ \A i \in 1..Len(inputs) : inputs[i] \in Streams
      BY <1>4 DEF Inputs, Streams
<1>7. /\ all \in Seq(Frames) /\ Len(all) = m + FrameCount /\ DOMAIN all = 1..m + FrameCount
      /\ \A k \in 1..m + FrameCount : all[k] = IF k <= m THEN frames[k] ELSE taken[k - m]
      /\ DOMAIN frames = 1..m /\ DOMAIN taken = 1..FrameCount
      <2>1. /\ m \in Nat /\ m + FrameCount \in Nat
            /\ DOMAIN frames = 1..m /\ DOMAIN taken = 1..FrameCount
            BY <1>3, <1>4, <1>5, LenProperties
      <2>2. /\ all \in Seq(Frames) /\ Len(all) = Len(frames) + Len(taken)
            /\ \A k \in 1..Len(frames) + Len(taken) :
                  all[k] = IF k <= Len(frames) THEN frames[k] ELSE taken[k - Len(frames)]
            BY <1>4, ConcatProperties
      <2>3. Len(all) = m + FrameCount
            /\ \A k \in 1..m + FrameCount : all[k] = IF k <= m THEN frames[k] ELSE taken[k - m]
            BY <1>5, <2>2
      <2> HIDE DEF all, m
      <2>4. DOMAIN all = 1..m + FrameCount
            BY <2>2, <2>3, LenProperties
      <2> QED BY <2>1, <2>2, <2>3, <2>4
<1>8. \A k \in 1..m : /\ frames[k].stream = inputs[IF k <= FrameCount THEN 1 ELSE 2]
                      /\ frames[k].samples = Samples(InFrames(place(k) - 1), SourceFrame)
      BY <1>4, <1>7 DEF CaptureInv, GapFree, FramesFit
<1>9. \A k \in 1..FrameCount : /\ taken[k].stream = inputs[recording]
                               /\ taken[k].samples = Samples(InFrames(k - 1), SourceFrame)
      BY <1>7 DEF CaptureInv, GapFree, TakenFit, TakenIsHere, Here
<1>10. ASSUME NEW k \in DOMAIN all
       PROVE  /\ all[k].stream = inputs[IF k <= FrameCount THEN 1 ELSE 2]
              /\ all[k].samples = Samples(InFrames(place(k) - 1), SourceFrame)
       <2>1. k \in 1..m + FrameCount
             BY <1>7
       <2>2. CASE k <= m
             <3>1. k \in 1..m
                   BY <1>3, <1>5, <2>1, <2>2
             <3> QED BY <1>7, <1>8, <2>1, <2>2, <3>1
       <2>3. CASE k > m
             <3>1. k - m \in 1..FrameCount
                   BY <1>3, <1>5, <2>1, <2>3
             <3>2. all[k] = taken[k - m]
                   BY <1>3, <1>5, <1>7, <2>1, <2>3
             <3>3. place(k) = k - m /\ recording = IF k <= FrameCount THEN 1 ELSE 2
                   BY <1>3, <1>4, <1>5, <2>1, <2>3
             <3> QED BY <1>9, <3>1, <3>2, <3>3
       <2>4. k <= m \/ k > m
             BY <1>3, <1>5, <2>1
       <2> QED BY <2>2, <2>3, <2>4
<1> HIDE DEF all, m
<1>11. CASE recording < Len(inputs)
       <2>1. at' = "open" /\ recording' = recording + 1 /\ frames' = all
             BY <1>11 DEF Complete, all
       <2>2. recording = 1 /\ Len(inputs) = 2 /\ recording' = 2 /\ m = 0
             BY <1>4, <1>5, <1>6, <1>11, <2>1
       <2>3. CaptureTypeOK'
             BY <1>1, <1>2, <1>3, <1>4, <1>7, <2>1, <2>2, EmptySeq DEF CaptureTypeOK
       <2>4. (StreamIsThere /\ CaptureBegins)'
             BY <1>1, <1>3, <1>4, <2>1, <2>2 DEF StreamIsThere, CaptureBegins
       <2>5. (FramesCounted /\ FramesNumbered)'
             BY <1>1, <1>3, <1>4, <1>7, <2>1, <2>2 DEF FramesCounted, FramesNumbered
       <2>6. (TakenIsHere /\ TakenFit /\ RestFits)'
             BY <1>1, <2>1 DEF TakenIsHere, TakenFit, RestFits, Callbacks
       <2>7. FramesFit'
             BY <1>1, <1>10, <2>1 DEF FramesFit
       <2> QED BY <2>3, <2>4, <2>5, <2>6, <2>7 DEF CaptureInv, GapFree
<1>12. CASE ~(recording < Len(inputs))
       <2>1. at' = "ok" /\ recording' = recording /\ frames' = Normalised(all)
             BY <1>12 DEF Complete, all
       <2>2. recording = Len(inputs)
             BY <1>4, <1>6, <1>12
       <2>3. /\ frames' \in Seq(Frames) /\ Len(frames') = m + FrameCount
             /\ DOMAIN frames' = DOMAIN all
             /\ \A k \in DOMAIN all :
                   /\ frames'[k].stream = all[k].stream
                   /\ frames'[k].samples = all[k].samples
                   /\ frames'[k].sequence_no = k
                   /\ frames'[k].segment = IF all[k].stream = "audio_local" THEN 1 ELSE 2
             BY <1>7, <2>1, NormalisedFacts
       <2>4. CaptureTypeOK'
             BY <1>1, <1>2, <1>3, <1>4, <2>1, <2>3, EmptySeq DEF CaptureTypeOK
       <2>5. (StreamIsThere /\ CaptureBegins)'
             BY <1>1, <1>3, <1>4, <2>1 DEF StreamIsThere, CaptureBegins
       <2>6. FramesCounted'
             BY <1>1, <1>3, <1>4, <1>5, <1>6, <2>1, <2>2, <2>3 DEF FramesCounted
       <2>7. FramesNumbered'
             BY <2>1, <2>3 DEF FramesNumbered
       <2>8. (TakenIsHere /\ TakenFit /\ RestFits)'
             BY <1>1, <2>1 DEF TakenIsHere, TakenFit, RestFits, Callbacks
       <2>9. FramesFit'
             BY <1>1, <1>10, <2>3 DEF FramesFit
       <2> QED BY <2>4, <2>5, <2>6, <2>7, <2>8, <2>9 DEF CaptureInv, GapFree
<1> QED BY <1>11, <1>12

LEMMA CaptureKeeps == CaptureInv /\ CaptureNext => CaptureInv'
<1> SUFFICES ASSUME CaptureInv, CaptureNext PROVE CaptureInv'
    OBVIOUS
<1>1. CASE \E n \in ChunkSizes : Deliver(n)
      BY <1>1, DeliverKeeps
<1>2. CASE Open \/ Check \/ DeviceError
      BY <1>2, OpenKeeps, CheckKeeps, DeviceErrorKeeps
<1>3. CASE Receive \/ CutFrame \/ CutEnds \/ ReceiveTimesOut \/ Complete
      BY <1>3, ReceiveKeeps, CutFrameKeeps, EndsKeep, CompleteKeeps
<1> QED BY <1>1, <1>2, <1>3 DEF CaptureNext

LEMMA CaptureStays == CaptureInv /\ UNCHANGED captureVars => CaptureInv'
<1> SUFFICES ASSUME CaptureInv, UNCHANGED captureVars PROVE CaptureInv'
    OBVIOUS
<1>1. UNCHANGED <<inputs, recording, at, channel, slot, delivered, callbacks, buffer, taken, frames>>
      BY DEF captureVars
<1>2. CaptureTypeOK'
      BY <1>1 DEF CaptureInv, CaptureTypeOK
<1>3. (StreamIsThere /\ CaptureBegins /\ FramesCounted /\ TakenIsHere /\ FramesNumbered)'
      BY <1>1 DEF CaptureInv, StreamIsThere, CaptureBegins, FramesCounted, TakenIsHere, Here, FramesNumbered
<1>4. GapFree'
      BY <1>1 DEF CaptureInv, GapFree, TakenFit, FramesFit, RestFits, Callbacks, Before
<1> QED BY <1>2, <1>3, <1>4 DEF CaptureInv

\* The loop goes on only while the task has not ended.
LEMMA CaptureNotOver == CaptureNext => at # "ok"
BY DEF CaptureNext, Open, Check, Receive, CutFrame, CutEnds, ReceiveTimesOut, Complete, Deliver,
       DeviceError, Callbacks

-----------------------------------------------------------------------------
\* The exchange: the part of the invariant that a step leaves alone.

LEMMA UplinkStays ==
    ASSUME UplinkKept, UNCHANGED <<frames, up, took, sent>>, open' => open
    PROVE  UplinkKept'
<1>1. ASSUME NEW k PROVE Uplink(k)' = Uplink(k)
      BY DEF Uplink
<1> QED BY <1>1 DEF UplinkKept, Sendable

LEMMA SpeechStays ==
    ASSUME SpeechIsBinary, SpeechIsAnnounced, UNCHANGED <<down, serving, events>>
    PROVE  SpeechIsBinary' /\ SpeechIsAnnounced'
BY DEF SpeechIsBinary, SpeechIsAnnounced, Seen, Translates

\* The head of what comes from the service is taken; a translation is collected.
LEMMA SpeechTaken ==
    ASSUME ExchangeTypeOK, SpeechIsBinary, SpeechIsAnnounced,
           down # <<>>, down' = Tail(down), serving' = serving,
           Seen("translate.result") => Seen("translate.result")',
           Head(down).type = "translate.result" => Seen("translate.result")'
    PROVE  SpeechIsBinary' /\ SpeechIsAnnounced'
<1>1. down \in Seq(Messages)
      BY DEF ExchangeTypeOK
<1>2. /\ Len(down) \in Nat \ {0} /\ DOMAIN down = 1..Len(down)
      /\ down' \in Seq(Messages) /\ Len(down') = Len(down) - 1 /\ DOMAIN down' = 1..Len(down')
      /\ Head(down) = down[1]
      /\ \A k \in 1..Len(down') : down'[k] = down[k + 1]
      BY <1>1, HeadTailProperties, LenProperties
<1>3. SpeechIsBinary'
      <2>1. Range(down') \subseteq Range(down)
            <3>1. ASSUME NEW k \in DOMAIN down' PROVE k + 1 \in DOMAIN down /\ down'[k] = down[k + 1]
                  BY <1>2
            <3> QED BY <3>1 DEF Range
      <2> QED BY <2>1 DEF SpeechIsBinary
<1>4. ASSUME NEW k, NEW i \in Nat, i = k + 1, k \in 1..Len(down), Translates(down, i),
             ~Seen("translate.result")'
      PROVE  Translates(down', k)
      <2>1. PICK j \in DOMAIN down : j < i /\ down[j].type = "translate.result"
            BY <1>4 DEF Translates
      <2>2. j # 1
            BY <1>2, <1>4, <2>1
      <2>3. j - 1 \in 1..Len(down') /\ j - 1 < k /\ j - 1 + 1 = j
            BY <1>2, <1>4, <2>1, <2>2
      <2>4. down'[j - 1] = down[j]
            BY <1>2, <2>3
      <2> QED BY <1>2, <2>1, <2>3, <2>4 DEF Translates
<1>5. ASSUME NEW k \in DOMAIN down', down'[k].type = "tts.audio"
      PROVE  Seen("translate.result")' \/ Translates(down', k)
      <2>1. k + 1 \in DOMAIN down /\ down[k + 1].type = "tts.audio" /\ k + 1 \in Nat /\ k \in 1..Len(down)
            BY <1>2, <1>5
      <2>2. Seen("translate.result") \/ Translates(down, k + 1)
            BY <2>1 DEF SpeechIsAnnounced
      <2> QED BY <1>4, <2>1, <2>2
<1>6. ASSUME NEW k \in DOMAIN serving, serving[k].type = "tts.audio"
      PROVE  \/ Seen("translate.result")' \/ Translates(serving, k)
             \/ Translates(down', Len(down') + 1)
      <2>1. Seen("translate.result") \/ Translates(down, Len(down) + 1) \/ Translates(serving, k)
            BY <1>6 DEF SpeechIsAnnounced
      <2>2. Len(down') + 1 = Len(down) /\ Len(down) \in 1..Len(down) /\ Len(down) + 1 \in Nat
            BY <1>2
      <2>3. Translates(down, Len(down) + 1) /\ ~Seen("translate.result")' => Translates(down', Len(down))
            BY <1>4, <2>2
      <2> QED BY <2>1, <2>2, <2>3
<1>7. SpeechIsAnnounced'
      <2>1. \A k \in DOMAIN down' :
                down'[k].type = "tts.audio" => Seen("translate.result")' \/ Translates(down', k)
            BY <1>5
      <2>2. \A k \in DOMAIN serving' :
                serving'[k].type = "tts.audio" =>
                    Seen("translate.result")' \/ Translates(down', Len(down') + 1) \/ Translates(serving', k)
            BY <1>6
      <2> QED BY <2>1, <2>2 DEF SpeechIsAnnounced, Translates
<1> QED BY <1>3, <1>7

\* What is collected stays, and is seen.
LEMMA SeenFacts ==
    ASSUME events \in Seq(Messages), NEW m \in Messages, events' = Append(events, m)
    PROVE  /\ events' \in Seq(Messages)
           /\ \A type : Seen(type)' <=> Seen(type) \/ m.type = type
<1>1. /\ events' \in Seq(Messages) /\ Len(events') = Len(events) + 1
      /\ \A k \in 1..Len(events) : events'[k] = events[k]
      /\ events'[Len(events) + 1] = m
      BY AppendProperties
<1>2. Len(events) \in Nat /\ DOMAIN events = 1..Len(events) /\ DOMAIN events' = 1..Len(events) + 1
      BY <1>1, LenProperties
<1>3. ASSUME NEW type PROVE Seen(type)' <=> Seen(type) \/ m.type = type
      <2>1. ASSUME NEW k \in DOMAIN events' PROVE k \in DOMAIN events \/ k = Len(events) + 1
            BY <1>2
      <2>2. Len(events) + 1 \in DOMAIN events'
            BY <1>2
      <2>3. ASSUME NEW k \in DOMAIN events PROVE k \in DOMAIN events' /\ events'[k] = events[k]
            BY <1>1, <1>2
      <2> QED BY <1>1, <2>1, <2>2, <2>3 DEF Seen
<1> QED BY <1>1, <1>3

-----------------------------------------------------------------------------
\* Steps of the client.

LEMMA Underway ==
    ASSUME BeginsQuiet, ~Quiet \/ client \in {"sending", "receiving", "playing", "closing"}
    PROVE  at = "ok" /\ client # "idle"
BY DEF BeginsQuiet

LEMMA QuietNoMore == ASSUME at = "ok", UNCHANGED captureVars, client' # "idle" PROVE BeginsQuiet'
BY DEF BeginsQuiet, captureVars

\* The exchange fails: the message that made it fail was no translation.
LEMMA GivingUpKeeps ==
    ASSUME ExchangeInv, UNCHANGED captureVars, at = "ok",
           client' \in {"failed", "malformed"},
           UNCHANGED <<sent, mic, up, service, events, playback>>,
           \/ UNCHANGED down
           \/ /\ down # <<>> /\ down' = Tail(down)
              /\ Head(down).type # "translate.result"
    PROVE  ExchangeInv'
<1>1. UNCHANGED <<frames, sent, mic, up, open, serving, owed, took, events, player, played>>
      BY DEF captureVars, service, playback
<1>2. down' \in Seq(Messages) /\ Len(down') <= Len(down) /\ Len(down') \in Nat
      <2>1. CASE UNCHANGED down
            BY <2>1 DEF ExchangeInv, ExchangeTypeOK
      <2>2. CASE down # <<>> /\ down' = Tail(down)
            BY <2>2, HeadTailProperties DEF ExchangeInv, ExchangeTypeOK
      <2> QED BY <2>1, <2>2
<1>3. Len(down) \in Nat /\ DownRoom \in Nat
      BY ExchangeAssumption DEF ExchangeInv, ExchangeTypeOK
<1>4. ExchangeTypeOK' /\ RoomKept'
      BY <1>1, <1>2, <1>3 DEF ExchangeInv, ExchangeTypeOK, RoomKept, Ended
<1>5. BeginsQuiet'
      BY QuietNoMore
<1>6. UplinkKept'
      BY <1>1, UplinkStays DEF ExchangeInv
<1>7. SpeechIsBinary' /\ SpeechIsAnnounced'
      <2>1. CASE UNCHANGED down
            BY <1>1, <2>1, SpeechStays DEF ExchangeInv
      <2>2. CASE down # <<>> /\ down' = Tail(down) /\ Head(down).type # "translate.result"
            <3>1. Seen("translate.result")' = Seen("translate.result")
                  BY <1>1 DEF Seen
            <3> QED BY <1>1, <2>2, <3>1, SpeechTaken DEF ExchangeInv
      <2> QED BY <2>1, <2>2
<1>8. PlaybackFits'
      BY DEF PlaybackFits
<1> QED BY <1>4, <1>5, <1>6, <1>7, <1>8 DEF ExchangeInv

LEMMA NoAudioKeeps == ASSUME ExchangeInv, UNCHANGED captureVars, NoAudio PROVE ExchangeInv'
<1>1. UNCHANGED <<frames, at, sent, mic, up, down, open, serving, owed, took, events, player, played>>
      BY DEF NoAudio, captureVars, service, playback
<1>2. client' = "failed" /\ Quiet
      BY DEF NoAudio, Ends, ExchangeInv, BeginsQuiet
<1>3. ExchangeTypeOK' /\ RoomKept'
      BY <1>1, <1>2 DEF ExchangeInv, ExchangeTypeOK, RoomKept, Ended
<1>4. BeginsQuiet'
      BY <1>1, <1>2 DEF BeginsQuiet, Quiet
<1>5. UplinkKept'
      BY <1>1, UplinkStays DEF ExchangeInv
<1>6. SpeechIsBinary' /\ SpeechIsAnnounced'
      BY <1>1, SpeechStays DEF ExchangeInv
<1>7. PlaybackFits'
      BY <1>2 DEF PlaybackFits
<1> QED BY <1>3, <1>4, <1>5, <1>6, <1>7 DEF ExchangeInv

LEMMA ConnectsKeeps == ASSUME ExchangeInv, UNCHANGED captureVars, Connects PROVE ExchangeInv'
<1>1. UNCHANGED <<frames, at, sent, mic, up, down, serving, owed, took, events, player, played>>
      BY DEF Connects, captureVars, playback
<1>2. client' = "sending" /\ open' \in BOOLEAN /\ Quiet /\ at = "ok"
      BY DEF Connects, ExchangeInv, BeginsQuiet
<1>3. ExchangeTypeOK'
      BY <1>1, <1>2 DEF ExchangeInv, ExchangeTypeOK
<1>4. RoomKept'
      <2>1. Len(down') = 0 /\ DownRoom \in Nat
            BY <1>1, <1>2, ExchangeAssumption DEF Quiet
      <2> QED BY <2>1 DEF RoomKept
<1>5. BeginsQuiet'
      BY <1>2, QuietNoMore
<1>6. UplinkKept'
      <2>1. sent' = 0 /\ up' = <<>> /\ took' = <<>>
            BY <1>1, <1>2 DEF Quiet
      <2> QED BY <2>1, EmptySeq DEF UplinkKept
<1>7. SpeechIsBinary' /\ SpeechIsAnnounced'
      BY <1>1, SpeechStays DEF ExchangeInv
<1>8. PlaybackFits'
      BY <1>1, <1>2 DEF PlaybackFits, Quiet
<1> QED BY <1>3, <1>4, <1>5, <1>6, <1>7, <1>8 DEF ExchangeInv

LEMMA UplinkType ==
    ASSUME CaptureInv, NEW k \in 1..Len(frames) + 1 PROVE Uplink(k) \in Sendable
<1>1. frames \in Seq(Frames) /\ Len(frames) \in Nat
      BY DEF CaptureInv, CaptureTypeOK
<1>2. CASE k = 1
      BY <1>2 DEF Uplink, Sendable
<1>3. CASE k # 1
      <2>1. k - 1 \in 1..Len(frames)
            BY <1>1, <1>3
      <2>2. frames[k - 1] \in Frames
            BY <1>1, <2>1
      <2> QED BY <1>3, <2>2 DEF Uplink, Sendable
<1> QED BY <1>2, <1>3

LEMMA SendNextKeeps ==
    ASSUME CaptureInv, ExchangeInv, UNCHANGED captureVars, SendNext PROVE ExchangeInv'
<1>1. /\ UNCHANGED <<frames, at, client, mic, down, open, serving, owed, took, events, player, played>>
      /\ client = "sending" /\ sent <= Len(frames) /\ open /\ Len(up) < UpRoom
      /\ sent' = sent + 1
      BY DEF SendNext, captureVars, service, playback
<1>2. /\ sent \in Nat /\ Len(frames) \in Nat /\ UpRoom \in Nat
      /\ up \in Seq(Sendable) /\ took \in Seq(Sendable)
      /\ Len(up) \in Nat /\ Len(took) \in Nat /\ Len(took) + Len(up) = sent
      BY <1>1, ExchangeAssumption
      DEF CaptureInv, CaptureTypeOK, ExchangeInv, ExchangeTypeOK, UplinkKept
<1> DEFINE next == Uplink(sent + 1)
<1>3. up' = Append(up, next)
      <2>1. next = IF sent = 0 THEN Start ELSE frames[sent]
            BY <1>2 DEF Uplink
      <2> QED BY <2>1 DEF SendNext
<1>4. next \in Sendable
      BY <1>1, <1>2, UplinkType
<1> HIDE DEF next
<1>5. /\ up' \in Seq(Sendable) /\ Len(up') = Len(up) + 1
      /\ \A k \in 1..Len(up) : up'[k] = up[k]
      /\ up'[Len(up) + 1] = next
      BY <1>2, <1>3, <1>4, AppendProperties
<1>6. ExchangeTypeOK' /\ RoomKept'
      <2>1. sent' \in 0..Len(frames') + 1
            BY <1>1, <1>2
      <2>2. Len(up') <= UpRoom'
            BY <1>1, <1>2, <1>5
      <2>3. ExchangeTypeOK /\ RoomKept
            BY DEF ExchangeInv
      <2> QED BY <1>1, <2>1, <2>2, <2>3 DEF ExchangeTypeOK, RoomKept
<1>7. BeginsQuiet'
      BY <1>1, Underway, QuietNoMore DEF ExchangeInv
<1>8. UplinkKept'
      <2>1. ASSUME NEW k PROVE Uplink(k)' = Uplink(k)
            BY <1>1 DEF Uplink
      <2>2. DOMAIN up = 1..Len(up) /\ DOMAIN up' = 1..Len(up) + 1
            BY <1>2, <1>5
      <2>3. ASSUME NEW k \in DOMAIN up' PROVE up'[k] = Uplink(Len(took) + k)
            <3>1. CASE k \in 1..Len(up)
                  BY <1>5, <2>2, <3>1 DEF ExchangeInv, UplinkKept
            <3>2. CASE k = Len(up) + 1
                  <4>1. Len(took) + k = sent + 1
                        BY <1>2, <3>2
                  <4> QED BY <1>5, <3>2, <4>1 DEF next
            <3> QED BY <1>2, <2>2, <3>1, <3>2
      <2>4. \A k \in DOMAIN took : took[k] = Uplink(k)
            BY DEF ExchangeInv, UplinkKept
      <2>5. took' \in Seq(Sendable) /\ up' \in Seq(Sendable)
            BY <1>1, <1>2, <1>5
      <2>6. Len(took') + Len(up') = sent' /\ sent' \in Nat
            BY <1>1, <1>2, <1>5
      <2>7. \A k \in DOMAIN took' : took'[k] = Uplink(k)'
            BY <1>1, <2>1, <2>4
      <2>8. \A k \in DOMAIN up' : up'[k] = Uplink(Len(took) + k)'
            BY <1>1, <2>1, <2>3 DEF Uplink
      <2>9. Sendable' = Sendable
            BY DEF Sendable
      <2> QED BY <2>5, <2>6, <2>7, <2>8, <2>9 DEF UplinkKept
<1>9. SpeechIsBinary' /\ SpeechIsAnnounced'
      BY <1>1, SpeechStays DEF ExchangeInv
<1>10. PlaybackFits'
       BY <1>1 DEF ExchangeInv, PlaybackFits
<1> QED BY <1>6, <1>7, <1>8, <1>9, <1>10 DEF ExchangeInv

LEMMA AllSentKeeps == ASSUME ExchangeInv, UNCHANGED captureVars, AllSent PROVE ExchangeInv'
<1>1. /\ UNCHANGED <<frames, sent, mic, up, down, open, serving, owed, took, events, player, played>>
      /\ client = "sending" /\ client' = "receiving"
      BY DEF AllSent, captureVars, service, playback
<1>2. ExchangeTypeOK' /\ RoomKept'
      BY <1>1 DEF ExchangeInv, ExchangeTypeOK, RoomKept
<1>3. BeginsQuiet'
      BY <1>1, Underway, QuietNoMore DEF ExchangeInv
<1>4. UplinkKept'
      BY <1>1, UplinkStays DEF ExchangeInv
<1>5. SpeechIsBinary' /\ SpeechIsAnnounced'
      BY <1>1, SpeechStays DEF ExchangeInv
<1>6. PlaybackFits'
      BY <1>1 DEF ExchangeInv, PlaybackFits, Seen
<1> QED BY <1>2, <1>3, <1>4, <1>5, <1>6 DEF ExchangeInv

\* A message is taken from the way back, and collected.
LEMMA CollectingKeeps ==
    ASSUME ExchangeInv, UNCHANGED captureVars, NEW m, Received(m), Collect(m),
           UNCHANGED <<sent, mic, up, service, playback>>,
           m.header = "text" \/ inputs = <<>>
    PROVE  ExchangeInv'
<1>1. /\ UNCHANGED <<frames, inputs, sent, mic, up, open, serving, owed, took, player, played>>
      /\ client = "receiving" /\ down # <<>> /\ m = Head(down) /\ down' = Tail(down)
      /\ events' = Append(events, m)
      /\ client' = IF \A type \in {"translate.result", "tts.audio"} : Seen(type) \/ m.type = type
                   THEN "closing" ELSE "receiving"
      BY DEF Received, Collect, captureVars, service, playback
<1>2. /\ down \in Seq(Messages) /\ events \in Seq(Messages)
      /\ Len(down) \in Nat /\ Len(down) <= DownRoom + 1 /\ DownRoom \in Nat
      BY ExchangeAssumption DEF ExchangeInv, ExchangeTypeOK
<1>3. m \in Messages /\ down' \in Seq(Messages) /\ Len(down') = Len(down) - 1 /\ m = down[1]
      BY <1>1, <1>2, HeadTailProperties
<1>4. events' \in Seq(Messages) /\ \A type : Seen(type)' <=> Seen(type) \/ m.type = type
      BY <1>1, <1>2, <1>3, SeenFacts
<1>5. 1 \in DOMAIN down /\ m \in Range(down)
      BY <1>1, <1>2, <1>3 DEF Range
<1>6. m.type = "tts.audio" <=> m.header # "text"
      BY <1>5 DEF ExchangeInv, SpeechIsBinary
<1>7. m.type = "tts.audio" => Seen("translate.result")
      <2>1. ~Translates(down, 1)
            BY <1>2 DEF Translates
      <2> QED BY <1>3, <1>5, <2>1 DEF ExchangeInv, SpeechIsAnnounced
<1>8. ~Seen("tts.audio") /\ player = <<>>
      BY <1>1 DEF ExchangeInv, PlaybackFits
<1>9. client' = IF m.type = "tts.audio" THEN "closing" ELSE "receiving"
      <2>1. CASE m.type = "tts.audio"
            BY <1>1, <1>7, <2>1
      <2>2. CASE m.type # "tts.audio"
            BY <1>1, <1>8, <2>2
      <2> QED BY <2>1, <2>2
<1>10. ExchangeTypeOK' /\ RoomKept'
       BY <1>1, <1>2, <1>3, <1>4, <1>9 DEF ExchangeInv, ExchangeTypeOK, RoomKept
<1>11. BeginsQuiet'
       BY <1>1, <1>9, Underway, QuietNoMore DEF ExchangeInv
<1>12. UplinkKept'
       BY <1>1, UplinkStays DEF ExchangeInv
<1>13. SpeechIsBinary' /\ SpeechIsAnnounced'
       BY <1>1, <1>4, SpeechTaken DEF ExchangeInv
<1>14. PlaybackFits'
       <2>1. CASE m.type = "tts.audio"
             <3>1. inputs' = <<>>
                   BY <1>1, <1>6, <2>1
             <3> QED BY <1>1, <1>4, <1>7, <1>8, <1>9, <2>1, <3>1 DEF PlaybackFits
       <2>2. CASE m.type # "tts.audio"
             <3>1. client' = "receiving" /\ ~Seen("tts.audio")'
                   BY <1>4, <1>8, <1>9, <2>2
             <3>2. player' = <<>> /\ played' = <<>>
                   BY <1>1 DEF ExchangeInv, PlaybackFits
             <3> QED BY <3>1, <3>2 DEF PlaybackFits
       <2> QED BY <2>1, <2>2
<1> QED BY <1>10, <1>11, <1>12, <1>13, <1>14 DEF ExchangeInv

LEMMA ReceiveSpeechKeeps ==
    ASSUME ExchangeInv, UNCHANGED captureVars, NEW m, ReceiveSpeech(m), ~m.long
    PROVE  ExchangeInv'
<1>1. /\ UNCHANGED <<frames, inputs, sent, mic, up, open, serving, owed, took, events, played>>
      /\ client = "receiving" /\ down # <<>> /\ m = Head(down) /\ down' = Tail(down)
      /\ m.header # "text" /\ inputs # <<>>
      /\ client' = "playing" /\ player' = Devices
      BY DEF ReceiveSpeech, Received, captureVars, service, playback
<1>2. /\ down \in Seq(Messages)
      /\ Len(down) \in Nat /\ Len(down) <= DownRoom + 1 /\ DownRoom \in Nat
      BY ExchangeAssumption DEF ExchangeInv, ExchangeTypeOK
<1>3. down' \in Seq(Messages) /\ Len(down') = Len(down) - 1 /\ m = down[1]
      BY <1>1, <1>2, HeadTailProperties
<1>4. 1 \in DOMAIN down /\ m \in Range(down)
      BY <1>1, <1>2, <1>3 DEF Range
<1>5. m.type = "tts.audio"
      BY <1>1, <1>4 DEF ExchangeInv, SpeechIsBinary
<1>6. Seen("translate.result")
      <2>1. ~Translates(down, 1)
            BY <1>2 DEF Translates
      <2> QED BY <1>3, <1>4, <1>5, <2>1 DEF ExchangeInv, SpeechIsAnnounced
<1>7. Devices \in Seq({"output", "mic"}) /\ Devices' = Devices
      <2>1. <<"output", "mic">> \in Seq({"output", "mic"}) /\ <<"output">> \in Seq({"output", "mic"})
            OBVIOUS
      <2>2. Devices \in {<<"output", "mic">>, <<"output">>}
            BY DEF Devices
      <2>3. Devices' = Devices
            BY <1>1 DEF Devices
      <2> QED BY <2>1, <2>2, <2>3
<1>8. \A type : Seen(type)' <=> Seen(type)
      BY <1>1 DEF Seen
<1>9. ExchangeTypeOK' /\ RoomKept'
      BY <1>1, <1>2, <1>3, <1>7 DEF ExchangeInv, ExchangeTypeOK, RoomKept
<1>10. BeginsQuiet'
       BY <1>1, Underway, QuietNoMore DEF ExchangeInv
<1>11. UplinkKept'
       BY <1>1, UplinkStays DEF ExchangeInv
<1>12. SpeechIsBinary' /\ SpeechIsAnnounced'
       BY <1>1, <1>5, <1>8, SpeechTaken DEF ExchangeInv
<1>13. PlaybackFits'
       <2>1. played' = <<>> /\ ~Seen("tts.audio")'
             BY <1>1, <1>8 DEF ExchangeInv, PlaybackFits
       <2>2. played' \o player' = Devices'
             BY <1>1, <1>7, <2>1, ConcatEmptySeq
       <2> QED BY <1>1, <1>6, <1>8, <2>1, <2>2 DEF PlaybackFits
<1> QED BY <1>9, <1>10, <1>11, <1>12, <1>13 DEF ExchangeInv

LEMMA PlaybackEndsKeeps == ASSUME ExchangeInv, UNCHANGED captureVars, PlaybackEnds PROVE ExchangeInv'
<1>1. /\ UNCHANGED <<frames, inputs, sent, mic, up, down, open, serving, owed, took, player, played>>
      /\ client = "playing" /\ player = <<>> /\ events' = Append(events, Speech)
      BY DEF PlaybackEnds, Collect, captureVars, service, playback
<1>2. events \in Seq(Messages) /\ played \in Seq({"output", "mic"})
      BY DEF ExchangeInv, ExchangeTypeOK
<1>3. Speech \in Messages /\ Speech.type = "tts.audio"
      BY DEF Speech, Messages
<1>4. events' \in Seq(Messages) /\ \A type : Seen(type)' <=> Seen(type) \/ Speech.type = type
      BY <1>1, <1>2, <1>3, SeenFacts
<1>5. Seen("translate.result") /\ played \o player = Devices
      BY <1>1 DEF ExchangeInv, PlaybackFits
<1>6. client' = "closing"
      BY <1>3, <1>5 DEF PlaybackEnds, Collect
<1>7. played = Devices /\ Devices' = Devices
      BY <1>1, <1>2, <1>5, ConcatEmptySeq DEF Devices
<1>8. ExchangeTypeOK' /\ RoomKept'
      BY <1>1, <1>4, <1>6 DEF ExchangeInv, ExchangeTypeOK, RoomKept
<1>9. BeginsQuiet'
      BY <1>1, <1>6, Underway, QuietNoMore DEF ExchangeInv
<1>10. UplinkKept'
       BY <1>1, UplinkStays DEF ExchangeInv
<1>11. SpeechIsBinary' /\ SpeechIsAnnounced'
       <2>1. Seen("translate.result")'
             BY <1>4, <1>5
       <2> QED BY <1>1, <2>1 DEF ExchangeInv, SpeechIsBinary, SpeechIsAnnounced, Translates
<1>12. PlaybackFits'
       BY <1>1, <1>3, <1>4, <1>5, <1>6, <1>7 DEF PlaybackFits
<1> QED BY <1>8, <1>9, <1>10, <1>11, <1>12 DEF ExchangeInv

LEMMA CloseSucceedsKeeps == ASSUME ExchangeInv, UNCHANGED captureVars, CloseSucceeds PROVE ExchangeInv'
<1>1. /\ UNCHANGED <<frames, inputs, sent, mic, up, down, open, serving, owed, took, events, player, played>>
      /\ client = "closing" /\ client' = "ok"
      BY DEF CloseSucceeds, Ends, captureVars, service, playback
<1>2. ExchangeTypeOK' /\ RoomKept'
      BY <1>1 DEF ExchangeInv, ExchangeTypeOK, RoomKept, Ended
<1>3. BeginsQuiet'
      BY <1>1, Underway, QuietNoMore DEF ExchangeInv
<1>4. UplinkKept'
      BY <1>1, UplinkStays DEF ExchangeInv
<1>5. SpeechIsBinary' /\ SpeechIsAnnounced'
      BY <1>1, SpeechStays DEF ExchangeInv
<1>6. PlaybackFits'
      BY <1>1 DEF ExchangeInv, PlaybackFits, Seen, Devices
<1> QED BY <1>2, <1>3, <1>4, <1>5, <1>6 DEF ExchangeInv

LEMMA ClientKeeps ==
    ASSUME CaptureInv, ExchangeInv, UNCHANGED captureVars, ClientStep \/ TimesOut PROVE ExchangeInv'
<1>1. CASE ConnectFails
      BY <1>1, GivingUpKeeps DEF ConnectFails, Ends
<1>2. CASE SendFails \/ TimesOut \/ CloseFails
      <2>1. /\ client' = "failed" /\ UNCHANGED <<sent, mic, up, down, service, events, playback>>
            /\ client \in {"sending", "receiving", "playing", "closing"}
            BY <1>2 DEF SendFails, TimesOut, CloseFails, Ends
      <2>2. at = "ok"
            BY <2>1, Underway DEF ExchangeInv
      <2> QED BY <2>1, <2>2, GivingUpKeeps
<1>3. ASSUME NEW m, Received(m), client' \in {"failed", "malformed"}, m.type # "translate.result",
             UNCHANGED <<sent, mic, up, service, events, playback>>
      PROVE  ExchangeInv'
      <2>1. client = "receiving" /\ down # <<>> /\ Head(down) = m /\ down' = Tail(down)
            BY <1>3 DEF Received
      <2>2. at = "ok"
            BY <2>1, Underway DEF ExchangeInv
      <2> QED BY <1>3, <2>1, <2>2, GivingUpKeeps
<1>4. ASSUME NEW m \in Range(down), m.header # "text" PROVE m.type = "tts.audio"
      BY <1>4 DEF ExchangeInv, SpeechIsBinary
<1>5. CASE ReceiveClose
      BY <1>3, <1>5 DEF ReceiveClose, CloseFrame, Text, Ends
<1>6. ASSUME NEW m \in Range(down),
             ReceiveText(m) \/ ReceiveMalformed(m) \/ ReceiveUnplayed(m) \/ ReceiveSpeech(m)
      PROVE  ExchangeInv'
      <2>1. CASE ReceiveText(m) \/ ReceiveUnplayed(m)
            BY <2>1, CollectingKeeps DEF ReceiveText, ReceiveUnplayed
      <2>2. CASE ReceiveMalformed(m)
            BY <1>3, <1>4, <2>2 DEF ReceiveMalformed, Decodes, Ends
      <2>3. CASE ReceiveSpeech(m)
            <3>1. CASE m.long
                  BY <1>3, <1>4, <2>3, <3>1 DEF ReceiveSpeech, Ends
            <3>2. CASE ~m.long
                  BY <2>3, <3>2, ReceiveSpeechKeeps
            <3> QED BY <3>1, <3>2
      <2> QED BY <1>6, <2>1, <2>2, <2>3
<1>7. CASE NoAudio \/ Connects \/ SendNext \/ AllSent \/ PlaybackEnds \/ CloseSucceeds
      BY <1>7, NoAudioKeeps, ConnectsKeeps, SendNextKeeps, AllSentKeeps, PlaybackEndsKeeps, CloseSucceedsKeeps
<1> QED BY <1>1, <1>2, <1>5, <1>6, <1>7 DEF ClientStep

-----------------------------------------------------------------------------
\* Steps of the playback thread and of the service.

LEMMA PlayerKeeps ==
    ASSUME ExchangeInv, UNCHANGED captureVars, Played \/ PlaybackFails PROVE ExchangeInv'
<1>1. /\ UNCHANGED <<frames, inputs, sent, mic, up, down, open, serving, owed, took, events>>
      /\ player # <<>>
      BY DEF Played, PlaybackFails, captureVars, service
<1>2. at = "ok" /\ client # "idle"
      BY <1>1, Underway DEF ExchangeInv, Quiet
<1>3. player \in Seq({"output", "mic"}) /\ played \in Seq({"output", "mic"})
      BY DEF ExchangeInv, ExchangeTypeOK
<1>4. client \in {"playing"} \cup Ended /\ client # "ok"
      BY <1>1, <1>2 DEF ExchangeInv, ExchangeTypeOK, PlaybackFits
<1>5. CASE Played
      <2>1. client' = client /\ player' = Tail(player) /\ played' = Append(played, Head(player))
            BY <1>5 DEF Played
      <2>2. player' \in Seq({"output", "mic"}) /\ played' \in Seq({"output", "mic"})
            BY <1>1, <1>3, <2>1, HeadTailProperties, AppendProperties
      <2>3. played' \o player' = played \o player
            <3> DEFINE S == {"output", "mic"}
                       h == Head(player)
                       t == Tail(player)
            <3>0. player \in Seq(S) /\ played \in Seq(S)
                  BY <1>3
            <3> HIDE DEF S
            <3>1. h \in S /\ t \in Seq(S) /\ Len(t) = Len(player) - 1
                  /\ \A j \in 1..Len(t) : t[j] = player[j + 1]
                  BY <1>1, <3>0, HeadTailProperties
            <3>2. h = player[1] /\ Len(played) \in Nat /\ Len(player) \in Nat /\ Len(t) \in Nat
                  BY <1>1, <3>0, <3>1
            <3> HIDE DEF h, t
            <3>3. /\ Append(played, h) \in Seq(S) /\ Len(Append(played, h)) = Len(played) + 1
                  /\ \A j \in 1..Len(played) : Append(played, h)[j] = played[j]
                  /\ Append(played, h)[Len(played) + 1] = h
                  BY <3>0, <3>1, AppendProperties
            <3> DEFINE p == Append(played, h)
                       a == p \o t
                       b == played \o player
            <3> HIDE DEF p
            <3>4. /\ p \in Seq(S) /\ Len(p) = Len(played) + 1
                  /\ \A j \in 1..Len(played) : p[j] = played[j]
                  /\ p[Len(played) + 1] = h
                  BY <3>3 DEF p
            <3>5. /\ a \in Seq(S) /\ Len(a) = Len(p) + Len(t)
                  /\ \A j \in 1..Len(p) + Len(t) : a[j] = IF j <= Len(p) THEN p[j] ELSE t[j - Len(p)]
                  BY <3>1, <3>4, ConcatProperties
            <3>6. /\ b \in Seq(S) /\ Len(b) = Len(played) + Len(player)
                  /\ \A j \in 1..Len(played) + Len(player) :
                        b[j] = IF j <= Len(played) THEN played[j] ELSE player[j - Len(played)]
                  BY <3>0, ConcatProperties
            <3> HIDE DEF a, b
            <3>7. Len(a) = Len(b)
                  BY <3>1, <3>2, <3>4, <3>5, <3>6
            <3>8. ASSUME NEW j \in 1..Len(a) PROVE a[j] = b[j]
                  <4>0. j \in 1..Len(p) + Len(t) /\ j \in 1..Len(played) + Len(player)
                        BY <3>5, <3>6, <3>7
                  <4>1. CASE j <= Len(played)
                        <5>1. j \in 1..Len(played) /\ j <= Len(p)
                              BY <3>2, <3>4, <4>0, <4>1
                        <5> QED BY <3>4, <3>5, <3>6, <4>0, <4>1, <5>1
                  <4>2. CASE j = Len(played) + 1
                        <5>1. a[j] = p[j]
                              BY <3>4, <3>5, <4>0, <4>2, <3>2
                        <5>2. b[j] = player[j - Len(played)] /\ j - Len(played) = 1
                              BY <3>2, <3>6, <4>0, <4>2
                        <5> QED BY <3>2, <3>4, <4>2, <5>1, <5>2
                  <4>3. CASE j > Len(played) + 1
                        <5> DEFINE i == j - Len(p)
                        <5>1. i \in 1..Len(t) /\ i + 1 = j - Len(played)
                              BY <3>1, <3>2, <3>4, <4>0, <4>3
                        <5>2. a[j] = t[i]
                              BY <3>2, <3>4, <3>5, <4>0, <4>3
                        <5>3. b[j] = player[j - Len(played)]
                              BY <3>2, <3>6, <4>0, <4>3
                        <5> HIDE DEF i
                        <5> QED BY <3>1, <5>1, <5>2, <5>3
                  <4> QED BY <3>2, <4>0, <4>1, <4>2, <4>3
            <3>9. a = b
                  BY <3>5, <3>6, <3>7, <3>8, SeqEqual
            <3> QED BY <2>1, <3>9 DEF a, b, p, h, t
      <2>4. ExchangeTypeOK' /\ RoomKept'
            BY <1>1, <2>1, <2>2 DEF ExchangeInv, ExchangeTypeOK, RoomKept
      <2>5. BeginsQuiet'
            BY <1>2, <2>1, QuietNoMore
      <2>6. PlaybackFits'
            BY <1>1, <1>4, <2>1, <2>3 DEF ExchangeInv, PlaybackFits, Seen, Devices, Ended
      <2> QED BY <1>1, <2>4, <2>5, <2>6, UplinkStays, SpeechStays DEF ExchangeInv
<1>6. CASE PlaybackFails
      <2>1. /\ client' = IF client = "playing" THEN "failed" ELSE client
            /\ player' = <<>> /\ played' = played
            BY <1>6 DEF PlaybackFails
      <2>2. client' \in Ended \ {"ok"}
            BY <1>4, <2>1 DEF Ended
      <2>3. ExchangeTypeOK' /\ RoomKept'
            BY <1>1, <2>1, <2>2, EmptySeq DEF ExchangeInv, ExchangeTypeOK, RoomKept
      <2>4. BeginsQuiet'
            BY <1>2, <2>2, QuietNoMore DEF Ended
      <2>5. PlaybackFits'
            BY <2>2 DEF PlaybackFits, Ended
      <2> QED BY <1>1, <2>3, <2>4, <2>5, UplinkStays, SpeechStays DEF ExchangeInv
<1> QED BY <1>5, <1>6

\* The service reads the next message of the uplink.
LEMMA UplinkRead ==
    ASSUME UplinkKept, UNCHANGED <<frames, sent, open>>, open, up # <<>>,
           up' = Tail(up), took' = Append(took, Head(up))
    PROVE  UplinkKept' /\ Len(up') <= Len(up)
<1>1. /\ up \in Seq(Sendable) /\ took \in Seq(Sendable)
      /\ Len(up) \in Nat \ {0} /\ Len(took) \in Nat
      /\ DOMAIN up = 1..Len(up) /\ DOMAIN took = 1..Len(took)
      /\ Len(took) + Len(up) = sent
      BY LenProperties, EmptySeq DEF UplinkKept
<1>2. /\ Head(up) \in Sendable /\ Head(up) = up[1]
      /\ up' \in Seq(Sendable) /\ Len(up') = Len(up) - 1
      /\ \A k \in 1..Len(up') : up'[k] = up[k + 1]
      BY <1>1, HeadTailProperties
<1>3. /\ took' \in Seq(Sendable) /\ Len(took') = Len(took) + 1
      /\ \A k \in 1..Len(took) : took'[k] = took[k]
      /\ took'[Len(took) + 1] = up[1]
      BY <1>1, <1>2, AppendProperties
<1>4. DOMAIN up' = 1..Len(up') /\ DOMAIN took' = 1..Len(took) + 1 /\ Len(up') \in Nat
      BY <1>1, <1>2, <1>3, LenProperties
<1>5. ASSUME NEW k PROVE Uplink(k)' = Uplink(k)
      BY DEF Uplink
<1>6. ASSUME NEW k \in DOMAIN took' PROVE took'[k] = Uplink(k)
      <2>1. CASE k \in 1..Len(took)
            BY <1>1, <1>3, <2>1 DEF UplinkKept
      <2>2. CASE k = Len(took) + 1
            <3>1. 1 \in DOMAIN up
                  BY <1>1
            <3> QED BY <1>3, <2>2, <3>1 DEF UplinkKept
      <2> QED BY <1>1, <1>4, <2>1, <2>2
<1>7. ASSUME NEW k \in DOMAIN up', NEW i, i = Len(took') + k PROVE up'[k] = Uplink(i)
      <2>1. k + 1 \in DOMAIN up /\ i = Len(took) + (k + 1)
            BY <1>1, <1>2, <1>3, <1>4, <1>7
      <2>2. up'[k] = up[k + 1]
            BY <1>2, <1>4
      <2> QED BY <2>1, <2>2 DEF UplinkKept
<1>8. \A k \in DOMAIN up' : up'[k] = Uplink(Len(took) + k)'
      BY <1>5, <1>7 DEF Uplink
<1>9. \A k \in DOMAIN took' : took'[k] = Uplink(k)'
      BY <1>5, <1>6
<1>10. Len(took') + Len(up') = sent' /\ sent' \in Nat
       BY <1>1, <1>2, <1>3
<1>11. Len(up') <= Len(up)
       BY <1>1, <1>2
<1> QED BY <1>2, <1>3, <1>8, <1>9, <1>10, <1>11 DEF UplinkKept, Sendable

\* Nothing plays or is collected when the service alone acts.
LEMMA PlaybackStays ==
    ASSUME PlaybackFits, UNCHANGED captureVars, UNCHANGED <<client, mic, events, playback>> PROVE PlaybackFits'
BY DEF PlaybackFits, Seen, Devices, captureVars, playback

LEMMA ServiceReadsKeeps ==
    ASSUME ExchangeInv, UNCHANGED captureVars, ServiceStarts \/ \E n \in 0..MaxSegments : ServiceReads(n)
    PROVE  ExchangeInv'
<1>1. /\ UNCHANGED <<frames, inputs, client, sent, mic, down, open, events, player, played>>
      /\ open /\ serving = <<>> /\ up # <<>>
      /\ up' = Tail(up) /\ took' = Append(took, Head(up))
      /\ owed' \in 0..MaxSegments
      /\ serving' \in {<<>>, <<Text("status.update")>>}
      <2>1. owed \in 0..MaxSegments
            BY DEF ExchangeInv, ExchangeTypeOK
      <2>2. CASE ServiceStarts
            <3>1. took = <<>> /\ took' = <<Head(up)>>
                  BY <2>2 DEF ServiceStarts
            <3>2. took' = Append(took, Head(up))
                  BY <3>1
            <3> QED BY <2>1, <2>2, <3>2 DEF ServiceStarts, Idles, captureVars, playback
      <2>3. CASE \E n \in 0..MaxSegments : ServiceReads(n)
            BY <2>3 DEF ServiceReads, Idles, captureVars, playback
      <2> QED BY <2>2, <2>3
<1>2. at = "ok" /\ client # "idle"
      BY <1>1, Underway DEF ExchangeInv, Quiet
<1>3. UplinkKept' /\ Len(up') <= Len(up)
      BY <1>1, UplinkRead DEF ExchangeInv
<1>4. Len(up') \in Nat /\ Len(up) \in Nat /\ UpRoom \in Nat
      BY <1>1, <1>3, ExchangeAssumption, LenProperties DEF UplinkKept, ExchangeInv
<1>5. Text("status.update") \in Messages
      BY DEF Text, Messages
<1>6. serving' \in Seq(Messages)
      <2>1. <<>> \in Seq(Messages) /\ <<Text("status.update")>> \in Seq(Messages)
            BY <1>5, EmptySeq
      <2> QED BY <1>1, <2>1
<1>7. ExchangeTypeOK' /\ RoomKept'
      BY <1>1, <1>3, <1>4, <1>6 DEF ExchangeInv, ExchangeTypeOK, RoomKept
<1>8. BeginsQuiet'
      BY <1>1, <1>2, QuietNoMore
<1>9. ASSUME NEW k \in DOMAIN serving' PROVE serving'[k] = Text("status.update")
      BY <1>1
<1>10. Text("status.update").type # "tts.audio" /\ Text("status.update").header = "text"
       BY DEF Text
<1>11. SpeechIsBinary'
       BY <1>1, <1>9, <1>10 DEF ExchangeInv, SpeechIsBinary, Range
<1>12. SpeechIsAnnounced'
       <2>1. \A k \in DOMAIN down' :
                down'[k].type = "tts.audio" => Seen("translate.result")' \/ Translates(down', k)
             BY <1>1 DEF ExchangeInv, SpeechIsAnnounced, Seen
       <2>2. \A k \in DOMAIN serving' : serving'[k].type # "tts.audio"
             BY <1>9, <1>10
       <2> QED BY <2>1, <2>2 DEF SpeechIsAnnounced, Translates
<1>13. PlaybackFits'
       BY <1>1, PlaybackStays DEF ExchangeInv, playback
<1> QED BY <1>3, <1>7, <1>8, <1>11, <1>12, <1>13 DEF ExchangeInv

\* Every answer announces its speech by a translation.
LEMMA AnswerFacts ==
    ASSUME NEW answer \in Answers
    PROVE  /\ answer \in Seq(Messages)
           /\ \A k \in DOMAIN answer : answer[k].type = "tts.audio" <=> answer[k].header # "text"
           /\ \A k \in DOMAIN answer : answer[k].type = "tts.audio" => Translates(answer, k)
<1> DEFINE partial == Text("asr.partial")
           final == Text("asr.final")
           translated == Text("translate.result")
           error == Text("error")
<1>1. /\ partial \in Messages /\ partial.type # "tts.audio" /\ partial.header = "text"
      /\ final \in Messages /\ final.type # "tts.audio" /\ final.header = "text"
      /\ translated \in Messages /\ translated.type = "translate.result" /\ translated.header = "text"
      /\ error \in Messages /\ error.type # "tts.audio" /\ error.header = "text"
      BY DEF Text, Messages
<1>2. ASSUME NEW last \in Audio
      PROVE  last \in Messages /\ last.type = "tts.audio" /\ last.header # "text"
      BY ExchangeAssumption DEF Audio, Messages
<1>3. \/ \E last \in Audio \cup {error} : answer = <<partial, final, translated, last>>
      \/ answer \in {<<partial, final>>, <<partial, final, error>>, <<partial, error>>, <<error>>}
      BY DEF Answers
<1> HIDE DEF partial, final, translated, error
<1>4. CASE answer \in {<<partial, final>>, <<partial, final, error>>, <<partial, error>>, <<error>>}
      <2>1. ASSUME NEW k \in DOMAIN answer PROVE answer[k] \in {partial, final, error}
            BY <1>4
      <2>2. answer \in Seq(Messages)
            <3>1. <<partial, final>> \in Seq(Messages) /\ <<partial, final, error>> \in Seq(Messages)
                  /\ <<partial, error>> \in Seq(Messages) /\ <<error>> \in Seq(Messages)
                  BY <1>1
            <3> QED BY <1>4, <3>1
      <2> QED BY <1>1, <2>1, <2>2
<1>5. CASE \E last \in Audio \cup {error} : answer = <<partial, final, translated, last>>
      <2>1. PICK last \in Audio \cup {error} : answer = <<partial, final, translated, last>>
            BY <1>5
      <2>2. last \in Messages /\ (last.type = "tts.audio" <=> last.header # "text")
            BY <1>1, <1>2
      <2>3. DOMAIN answer = 1..4 /\ answer[1] = partial /\ answer[2] = final
            /\ answer[3] = translated /\ answer[4] = last
            BY <2>1
      <2>4. answer \in Seq(Messages)
            BY <1>1, <2>1, <2>2
      <2>5. ASSUME NEW k \in DOMAIN answer
            PROVE  /\ answer[k].type = "tts.audio" <=> answer[k].header # "text"
                   /\ answer[k].type = "tts.audio" => k = 4
            BY <1>1, <2>2, <2>3
      <2>6. Translates(answer, 4)
            BY <1>1, <2>3 DEF Translates
      <2> QED BY <2>4, <2>5, <2>6
<1> QED BY <1>3, <1>4, <1>5

LEMMA ServiceAnswersKeeps ==
    ASSUME ExchangeInv, UNCHANGED captureVars, NEW answer \in Answers, ServiceAnswers(answer)
    PROVE  ExchangeInv'
<1>1. /\ UNCHANGED <<frames, inputs, client, sent, mic, up, down, open, took, events, player, played>>
      /\ open /\ owed > 0 /\ serving' = answer /\ owed' = owed - 1
      BY DEF ServiceAnswers, captureVars, playback
<1>2. at = "ok" /\ client # "idle"
      BY <1>1, Underway DEF ExchangeInv, Quiet
<1>3. owed' \in 0..MaxSegments
      BY <1>1, ExchangeAssumption DEF ExchangeInv, ExchangeTypeOK
<1>4. /\ serving' \in Seq(Messages)
      /\ \A k \in DOMAIN serving' : serving'[k].type = "tts.audio" <=> serving'[k].header # "text"
      /\ \A k \in DOMAIN serving' : serving'[k].type = "tts.audio" => Translates(serving', k)
      BY <1>1, AnswerFacts
<1>5. ExchangeTypeOK' /\ RoomKept'
      BY <1>1, <1>3, <1>4 DEF ExchangeInv, ExchangeTypeOK, RoomKept
<1>6. BeginsQuiet'
      BY <1>1, <1>2, QuietNoMore
<1>7. UplinkKept'
      BY <1>1, UplinkStays DEF ExchangeInv
<1>8. SpeechIsBinary'
      BY <1>1, <1>4 DEF ExchangeInv, SpeechIsBinary, Range
<1>9. SpeechIsAnnounced'
      <2>1. \A k \in DOMAIN down' :
                down'[k].type = "tts.audio" => Seen("translate.result")' \/ Translates(down', k)
            BY <1>1 DEF ExchangeInv, SpeechIsAnnounced, Seen
      <2> QED BY <1>4, <2>1 DEF SpeechIsAnnounced, Translates
<1>10. PlaybackFits'
       BY <1>1, PlaybackStays DEF ExchangeInv, playback
<1> QED BY <1>5, <1>6, <1>7, <1>8, <1>9, <1>10 DEF ExchangeInv

LEMMA ServiceSendsKeeps ==
    ASSUME ExchangeInv, UNCHANGED captureVars, ServiceSends PROVE ExchangeInv'
<1> DEFINE m == Head(serving)
           n == Len(down)
<1>1. /\ UNCHANGED <<frames, inputs, client, sent, mic, up, open, owed, took, events, player, played>>
      /\ open /\ serving # <<>> /\ n < DownRoom
      /\ down' = Append(down, m) /\ serving' = Tail(serving)
      BY DEF ServiceSends, captureVars, playback
<1>2. at = "ok" /\ client # "idle"
      BY <1>1, Underway DEF ExchangeInv, Quiet
<1>3. /\ down \in Seq(Messages) /\ serving \in Seq(Messages) /\ n \in Nat /\ DownRoom \in Nat
      /\ DOMAIN down = 1..n /\ DOMAIN serving = 1..Len(serving) /\ Len(serving) \in Nat \ {0}
      BY <1>1, ExchangeAssumption, LenProperties, EmptySeq DEF ExchangeInv, ExchangeTypeOK
<1>4. /\ m \in Messages /\ m = serving[1]
      /\ serving' \in Seq(Messages) /\ Len(serving') = Len(serving) - 1
      /\ \A k \in 1..Len(serving') : serving'[k] = serving[k + 1]
      BY <1>1, <1>3, HeadTailProperties
<1> HIDE DEF m
<1>5. /\ down' \in Seq(Messages) /\ Len(down') = n + 1
      /\ \A k \in 1..n : down'[k] = down[k]
      /\ down'[n + 1] = m
      BY <1>1, <1>3, <1>4, AppendProperties
<1> HIDE DEF n
<1>6. DOMAIN down' = 1..n + 1 /\ DOMAIN serving' = 1..Len(serving') /\ Len(serving') \in Nat
      BY <1>3, <1>4, <1>5, LenProperties
<1>7. ExchangeTypeOK' /\ RoomKept'
      BY <1>1, <1>3, <1>4, <1>5 DEF ExchangeInv, ExchangeTypeOK, RoomKept
<1>8. BeginsQuiet'
      BY <1>1, <1>2, QuietNoMore
<1>9. UplinkKept'
      BY <1>1, UplinkStays DEF ExchangeInv
<1>10. ASSUME NEW k \in DOMAIN down' PROVE (k \in DOMAIN down /\ down'[k] = down[k]) \/ (k = n + 1 /\ down'[k] = m)
       BY <1>3, <1>5, <1>6
<1>11. 1 \in DOMAIN serving
       BY <1>3
<1>12. ASSUME NEW k \in DOMAIN serving' PROVE k + 1 \in DOMAIN serving /\ serving'[k] = serving[k + 1]
       BY <1>3, <1>4, <1>6
<1>13. SpeechIsBinary'
       <2>1. Range(down') \cup Range(serving') \subseteq Range(down) \cup Range(serving)
             BY <1>4, <1>10, <1>11, <1>12 DEF Range
       <2> QED BY <2>1 DEF ExchangeInv, SpeechIsBinary
<1>14. ASSUME NEW k, Translates(down, k) PROVE Translates(down', k)
       BY <1>3, <1>5, <1>6, <1>14 DEF Translates
<1>15. Translates(down, n + 1) => Translates(down', n + 2)
       BY <1>3, <1>5, <1>6 DEF Translates
<1>16. /\ \A k \in DOMAIN down :
              down[k].type = "tts.audio" => Seen("translate.result") \/ Translates(down, k)
       /\ \A k \in DOMAIN serving :
              serving[k].type = "tts.audio" =>
                  Seen("translate.result") \/ Translates(down, n + 1) \/ Translates(serving, k)
       BY DEF ExchangeInv, SpeechIsAnnounced, n
<1>17. ASSUME NEW k \in DOMAIN down', down'[k].type = "tts.audio"
       PROVE  Seen("translate.result") \/ Translates(down', k)
       <2>1. CASE k \in DOMAIN down /\ down'[k] = down[k]
             BY <1>14, <1>16, <1>17, <2>1
       <2>2. CASE k = n + 1 /\ down'[k] = m
             <3>1. ~Translates(serving, 1)
                   BY <1>3 DEF Translates
             <3>2. Seen("translate.result") \/ Translates(down, n + 1)
                   BY <1>4, <1>11, <1>16, <1>17, <2>2, <3>1
             <3> QED BY <1>14, <2>2, <3>2
       <2> QED BY <1>10, <2>1, <2>2
<1>18. ASSUME NEW k \in DOMAIN serving', serving'[k].type = "tts.audio"
       PROVE  Seen("translate.result") \/ Translates(down', n + 2) \/ Translates(serving', k)
       <2>1. Seen("translate.result") \/ Translates(down, n + 1) \/ Translates(serving, k + 1)
             BY <1>12, <1>16, <1>18
       <2>2. CASE Translates(serving, k + 1)
             <3>1. PICK j \in DOMAIN serving : j < k + 1 /\ serving[j].type = "translate.result"
                   BY <2>2 DEF Translates
             <3>2. CASE j = 1
                   <4>1. n + 1 \in DOMAIN down' /\ n + 1 < n + 2 /\ down'[n + 1].type = "translate.result"
                         BY <1>3, <1>4, <1>5, <1>6, <3>1, <3>2
                   <4> QED BY <4>1 DEF Translates
             <3>3. CASE j # 1
                   <4>1. j - 1 \in DOMAIN serving' /\ j - 1 < k /\ j - 1 + 1 = j
                         BY <1>3, <1>4, <1>6, <3>1, <3>3
                   <4>2. serving'[j - 1] = serving[j]
                         BY <1>12, <4>1
                   <4> QED BY <3>1, <4>1, <4>2 DEF Translates
             <3> QED BY <3>2, <3>3
       <2> QED BY <1>15, <2>1, <2>2
<1>19. SpeechIsAnnounced'
       <2>1. Seen("translate.result")' = Seen("translate.result")
             BY <1>1 DEF Seen
       <2>2. Len(down') + 1 = n + 2
             BY <1>3, <1>5
       <2>3. \A k \in DOMAIN down' :
                down'[k].type = "tts.audio" => Seen("translate.result")' \/ Translates(down', k)
             BY <1>17, <2>1
       <2>4. \A k \in DOMAIN serving' :
                serving'[k].type = "tts.audio" =>
                    Seen("translate.result")' \/ Translates(down', Len(down') + 1) \/ Translates(serving', k)
             BY <1>18, <2>1, <2>2
       <2> QED BY <2>3, <2>4 DEF SpeechIsAnnounced, Translates
<1>20. PlaybackFits'
       BY <1>1, PlaybackStays DEF ExchangeInv, playback
<1> QED BY <1>7, <1>8, <1>9, <1>13, <1>19, <1>20 DEF ExchangeInv

LEMMA ServiceClosesKeeps ==
    ASSUME ExchangeInv, UNCHANGED captureVars, ServiceCloses PROVE ExchangeInv'
<1> DEFINE n == Len(down)
<1>1. /\ UNCHANGED <<frames, inputs, client, sent, mic, events, took, player, played>>
      /\ open /\ open' \in BOOLEAN /\ ~open'
      /\ up' = <<>> /\ serving' = <<>> /\ owed' = 0
      /\ down' = Append(down, CloseFrame)
      BY DEF ServiceCloses, captureVars, playback
<1>2. at = "ok" /\ client # "idle"
      BY <1>1, Underway DEF ExchangeInv, Quiet
<1>3. /\ down \in Seq(Messages) /\ n \in Nat /\ DOMAIN down = 1..n /\ n <= DownRoom
      /\ DownRoom \in Nat /\ UpRoom \in Nat /\ MaxSegments \in Nat
      BY <1>1, ExchangeAssumption, LenProperties DEF ExchangeInv, ExchangeTypeOK, RoomKept
<1>4. CloseFrame \in Messages /\ CloseFrame.type # "tts.audio" /\ CloseFrame.header = "text"
      BY DEF CloseFrame, Text, Messages
<1>5. /\ down' \in Seq(Messages) /\ Len(down') = n + 1
      /\ \A k \in 1..n : down'[k] = down[k]
      /\ down'[n + 1] = CloseFrame
      BY <1>1, <1>3, <1>4, AppendProperties
<1> HIDE DEF n
<1>6. ExchangeTypeOK' /\ RoomKept'
      <2>1. <<>> \in Seq(Messages) /\ 0 \in 0..MaxSegments /\ Len(<<>>) <= UpRoom /\ n + 1 <= DownRoom + 1
            BY <1>3, EmptySeq
      <2> QED BY <1>1, <1>5, <2>1 DEF ExchangeInv, ExchangeTypeOK, RoomKept
<1>7. BeginsQuiet'
      BY <1>1, <1>2, QuietNoMore
<1>8. UplinkKept'
      <2>1. ASSUME NEW k PROVE Uplink(k)' = Uplink(k)
            BY <1>1 DEF Uplink
      <2>2. /\ took \in Seq(Sendable) /\ up \in Seq(Sendable) /\ Len(took) + Len(up) <= sent
            /\ \A k \in DOMAIN took : took[k] = Uplink(k)
            BY DEF ExchangeInv, UplinkKept
      <2>3. Len(took) + 0 <= sent
            <3>1. sent \in Int
                  BY DEF ExchangeInv, ExchangeTypeOK
            <3> QED BY <2>2, <3>1
      <2> QED BY <1>1, <2>1, <2>2, <2>3, EmptySeq DEF UplinkKept, Sendable
<1>9. ASSUME NEW k \in DOMAIN down'
      PROVE  (k \in DOMAIN down /\ down'[k] = down[k]) \/ down'[k] = CloseFrame
      BY <1>3, <1>5
<1>10. SpeechIsBinary'
       BY <1>1, <1>4, <1>9 DEF ExchangeInv, SpeechIsBinary, Range
<1>11. SpeechIsAnnounced'
       <2>1. ASSUME NEW k \in DOMAIN down', down'[k].type = "tts.audio"
             PROVE  Seen("translate.result")' \/ Translates(down', k)
             <3>1. k \in DOMAIN down /\ down'[k] = down[k]
                   BY <1>4, <1>9, <2>1
             <3>2. Seen("translate.result") \/ Translates(down, k)
                   BY <2>1, <3>1 DEF ExchangeInv, SpeechIsAnnounced
             <3> QED BY <1>1, <1>3, <1>5, <3>2 DEF Translates, Seen
       <2> QED BY <1>1, <2>1 DEF SpeechIsAnnounced, Translates
<1>12. PlaybackFits'
       BY <1>1, PlaybackStays DEF ExchangeInv, playback
<1> QED BY <1>6, <1>7, <1>8, <1>10, <1>11, <1>12 DEF ExchangeInv

-----------------------------------------------------------------------------
\* The whole.

LEMMA ExchangeInitially == Init => IInv
<1> SUFFICES ASSUME Init PROVE IInv
    OBVIOUS
<1>1. CaptureInv
      BY CaptureInitially DEF Init
<1>2. /\ client = "idle" /\ sent = 0 /\ mic \in BOOLEAN
      /\ up = <<>> /\ down = <<>> /\ open \in BOOLEAN /\ ~open /\ serving = <<>> /\ owed = 0 /\ took = <<>>
      /\ events = <<>> /\ player = <<>> /\ played = <<>>
      BY DEF Init
<1>3. UpRoom \in Nat /\ DownRoom \in Nat /\ MaxSegments \in Nat /\ Len(frames) \in Nat
      BY <1>1, ExchangeAssumption DEF CaptureInv, CaptureTypeOK
<1>4. ExchangeTypeOK
      BY <1>2, <1>3, EmptySeq DEF ExchangeTypeOK
<1>5. BeginsQuiet /\ RoomKept /\ PlaybackFits
      BY <1>2 DEF BeginsQuiet, Quiet, RoomKept, PlaybackFits
<1>6. UplinkKept
      BY <1>2, EmptySeq DEF UplinkKept
<1>7. SpeechIsBinary /\ SpeechIsAnnounced
      BY <1>2 DEF SpeechIsBinary, SpeechIsAnnounced, Range
<1> QED BY <1>1, <1>4, <1>5, <1>6, <1>7 DEF IInv, ExchangeInv

\* The exchange rests while the audio is recorded.
LEMMA RecordingKeeps ==
    ASSUME IInv, CaptureNext, UNCHANGED exchangeVars PROVE IInv'
<1>1. CaptureInv /\ ExchangeInv /\ CaptureInv'
      BY CaptureKeeps DEF IInv
<1>2. UNCHANGED <<client, sent, mic, up, down, open, serving, owed, took, events, player, played>>
      BY DEF exchangeVars
<1>3. Quiet /\ client \in {"idle", "failed"}
      BY <1>1, CaptureNotOver DEF ExchangeInv, BeginsQuiet
<1>4. Len(frames') \in Nat
      BY <1>1 DEF CaptureInv, CaptureTypeOK
<1>5. sent' \in 0..Len(frames') + 1
      BY <1>2, <1>3, <1>4 DEF Quiet
<1>6. ExchangeTypeOK'
      BY <1>1, <1>2, <1>5 DEF ExchangeInv, ExchangeTypeOK
<1>7. BeginsQuiet'
      BY <1>2, <1>3 DEF BeginsQuiet, Quiet
<1>8. UplinkKept'
      <2>1. up' = <<>> /\ took' = <<>> /\ sent' = 0
            BY <1>2, <1>3 DEF Quiet
      <2> QED BY <2>1, EmptySeq DEF UplinkKept
<1>9. SpeechIsBinary' /\ SpeechIsAnnounced'
      BY <1>1, <1>2, SpeechStays DEF ExchangeInv
<1>10. PlaybackFits' /\ RoomKept'
       BY <1>2, <1>3 DEF PlaybackFits, RoomKept, Quiet
<1>11. ExchangeInv'
       BY <1>6, <1>7, <1>8, <1>9, <1>10 DEF ExchangeInv
<1> QED BY <1>1, <1>11 DEF IInv

LEMMA ExchangeKeeps == IInv /\ [Next]_vars => IInv'
<1> SUFFICES ASSUME IInv, [Next]_vars PROVE IInv'
    OBVIOUS
<1>1. CaptureInv /\ ExchangeInv
      BY DEF IInv
<1>2. CaptureInv' /\ ExchangeInv' => IInv'
      BY DEF IInv
<1>3. CASE CaptureNext /\ UNCHANGED exchangeVars
      BY <1>3, RecordingKeeps
<1>4. ASSUME UNCHANGED captureVars,
             ClientStep \/ TimesOut \/ Played \/ PlaybackFails \/ ServiceStep \/ ServiceCloses
      PROVE  IInv'
      <2>1. CaptureInv'
            BY <1>1, <1>4, CaptureStays
      <2>2. CASE ClientStep \/ TimesOut
            BY <1>1, <1>2, <1>4, <2>1, <2>2, ClientKeeps
      <2>3. CASE Played \/ PlaybackFails
            BY <1>1, <1>2, <1>4, <2>1, <2>3, PlayerKeeps
      <2>4. CASE ServiceStarts \/ \E n \in 0..MaxSegments : ServiceReads(n)
            BY <1>1, <1>2, <1>4, <2>1, <2>4, ServiceReadsKeeps
      <2>5. CASE \E answer \in Answers : ServiceAnswers(answer)
            BY <1>1, <1>2, <1>4, <2>1, <2>5, ServiceAnswersKeeps
      <2>6. CASE ServiceSends \/ ServiceCloses
            BY <1>1, <1>2, <1>4, <2>1, <2>6, ServiceSendsKeeps, ServiceClosesKeeps
      <2> QED BY <1>4, <2>2, <2>3, <2>4, <2>5, <2>6 DEF ServiceStep
<1>5. CASE UNCHANGED vars
      <2>1. UNCHANGED captureVars /\ UNCHANGED exchangeVars
            BY <1>5 DEF vars
      <2>2. CaptureInv'
            BY <1>1, <2>1, CaptureStays
      <2>3. UNCHANGED <<client, sent, mic, up, down, open, serving, owed, took, events, player, played>>
            /\ UNCHANGED <<at, frames, inputs>>
            BY <2>1 DEF exchangeVars, captureVars
      <2>4. ExchangeTypeOK' /\ BeginsQuiet' /\ RoomKept'
            BY <1>1, <2>3 DEF ExchangeInv, ExchangeTypeOK, BeginsQuiet, Quiet, RoomKept
      <2>5. UplinkKept' /\ SpeechIsBinary' /\ SpeechIsAnnounced'
            BY <1>1, <2>3, UplinkStays, SpeechStays DEF ExchangeInv
      <2>6. PlaybackFits'
            BY <1>1, <2>3 DEF ExchangeInv, PlaybackFits, Seen, Devices
      <2> QED BY <1>2, <2>2, <2>4, <2>5, <2>6 DEF ExchangeInv
<1> QED BY <1>3, <1>4, <1>5 DEF Next

\* What the service has read is numbered and segmented as it should be.
LEMMA UplinkIsInOrder == IInv => UplinkInOrder
<1> SUFFICES ASSUME IInv, NEW j \in DOMAIN took, NEW k \in DOMAIN took
             PROVE  /\ took[k].sequence_no = k - 1
                    /\ (took[j].segment = took[k].segment) <=> (took[j].stream = took[k].stream)
    BY DEF UplinkInOrder
<1>1. /\ took \in Seq(Sendable) /\ up \in Seq(Sendable) /\ \A i \in DOMAIN took : took[i] = Uplink(i)
      /\ Len(took) + Len(up) <= sent /\ sent \in 0..Len(frames) + 1
      /\ frames \in Seq(Frames)
      BY DEF IInv, ExchangeInv, UplinkKept, ExchangeTypeOK, CaptureInv, CaptureTypeOK
<1>2. at = "ok"
      <2>1. took # <<>>
            BY <1>1, EmptySeq
      <2> QED BY <2>1 DEF IInv, ExchangeInv, BeginsQuiet, Quiet
<1>3. ASSUME NEW i \in DOMAIN took
      PROVE  /\ took[i].sequence_no = i - 1
             /\ \/ took[i].stream = "none" /\ took[i].segment = 0
                \/ took[i].stream = "audio_local" /\ took[i].segment = 1
                \/ took[i].stream = "audio_remote" /\ took[i].segment = 2
      <2>1. took[i] = Uplink(i) /\ i \in 1..Len(frames) + 1
            <3>1. Len(took) \in Nat /\ Len(up) \in Nat /\ Len(frames) \in Nat /\ DOMAIN took = 1..Len(took)
                  BY <1>1, LenProperties
            <3>2. i \in 1..Len(took) /\ Len(took) <= Len(frames) + 1
                  BY <1>1, <3>1
            <3> QED BY <1>1, <3>1, <3>2
      <2>2. CASE i = 1
            BY <2>1, <2>2 DEF Uplink, Start
      <2>3. CASE i # 1
            <3>1. took[i] = frames[i - 1]
                  BY <2>1, <2>3 DEF Uplink
            <3>2. i - 1 \in 1..Len(frames) /\ DOMAIN frames = 1..Len(frames)
                  BY <1>1, <2>1, <2>3, LenProperties
            <3>3. /\ frames[i - 1].sequence_no = i - 1
                  /\ frames[i - 1].segment = IF frames[i - 1].stream = "audio_local" THEN 1 ELSE 2
                  BY <1>2, <3>2 DEF IInv, CaptureInv, FramesNumbered
            <3>4. frames[i - 1] \in Frames
                  BY <1>1, <3>2
            <3>5. frames[i - 1].stream \in {"audio_local", "audio_remote"}
                  BY <3>4 DEF Frames, Streams
            <3> QED BY <3>1, <3>3, <3>5
      <2> QED BY <2>2, <2>3
<1>4. took[k].sequence_no = k - 1
      BY <1>3
<1>5. (took[j].segment = took[k].segment) <=> (took[j].stream = took[k].stream)
      BY <1>3
<1> QED BY <1>4, <1>5

\* The inductive invariant holds in every behaviour of a start.
THEOREM ExchangeInvariant == Spec => []IInv
<1>1. Init => IInv
      BY ExchangeInitially
<1>2. IInv /\ [Next]_vars => IInv'
      BY ExchangeKeeps
<1> QED BY <1>1, <1>2, PTL DEF Spec

\* Every variable of the recording, the client, the connection and the service
\* keeps its type, and the connection never holds more than its room
\* (run_realtime_audio_smoke_test of realtime.rs).
THEOREM ExchangeTypeCorrect == Spec => []TypeOK
<1>1. IInv => TypeOK
      BY DEF IInv, CaptureInv, ExchangeInv, TypeOK
<1> QED BY <1>1, ExchangeInvariant, PTL

\* capture_audio_frames loses and repeats no sample: the frames of every stream
\* are the first samples of its device, in order, whatever the sizes of frames
\* and of the chunks they came in.
THEOREM CaptureGapFree == Spec => []GapFree
<1>1. IInv => GapFree
      BY DEF IInv, CaptureInv
<1> QED BY <1>1, ExchangeInvariant, PTL

\* The service reads session.start and then the frames of both streams under one
\* count without gaps, and every stream is one segment (normalize_audio_frames).
THEOREM ExchangeUplinkInOrder == Spec => []UplinkInOrder
BY UplinkIsInOrder, ExchangeInvariant, PTL

\* An exchange that ends well has collected a translation and speech, and the
\* playback on every device of the route lasted as long as the speech: the
\* thread sleeps that long (play_mono_f32_to_output), whatever the stream reports meanwhile.
THEOREM ExchangeSuccessIsHeard == Spec => []SuccessIsHeard
<1>1. IInv => SuccessIsHeard
      BY DEF IInv, ExchangeInv, PlaybackFits, SuccessIsHeard
<1> QED BY <1>1, ExchangeInvariant, PTL

\* The client never waits for room on the way to the service, though it reads
\* nothing before it has sent everything: so the two cannot wait for each other
\* (run_realtime_audio_smoke_test sends without a timeout).
NeverWaitsForRoom == client = "sending" /\ open /\ sent <= Len(frames) => Len(up) < UpRoom

THEOREM UplinkNeverFull == Spec => []NeverWaitsForRoom
<1>1. ASSUME IInv, client = "sending", open, sent <= Len(frames) PROVE Len(up) < UpRoom
      <2>1. /\ UpRoom \in Nat /\ FrameCount \in Nat \ {0} /\ UpRoom > 2 * FrameCount
            BY CaptureAssumption, ExchangeAssumption, UplinkFits
      <2>2. Len(frames) \in Nat /\ Len(frames) <= 2 * FrameCount
            <3>1. Len(frames) \in {0, 1, FrameCount, FrameCount + FrameCount}
                  BY <1>1 DEF IInv, CaptureInv, FramesCounted
            <3> QED BY <2>1, <3>1
      <2>3. Len(up) \in Nat /\ Len(took) \in Nat /\ Len(took) + Len(up) <= sent /\ sent \in Nat
            BY <1>1 DEF IInv, ExchangeInv, ExchangeTypeOK, UplinkKept
      <2> QED BY <1>1, <2>1, <2>2, <2>3
<1>2. IInv => NeverWaitsForRoom
      BY <1>1 DEF NeverWaitsForRoom
<1> QED BY <1>2, ExchangeInvariant, PTL
=============================================================================
