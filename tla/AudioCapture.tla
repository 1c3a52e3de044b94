---------------------------- MODULE AudioCapture ----------------------------
(***************************************************************************)
(* How a start of the desktop records audio: one blocking task captures a  *)
(* fixed number of frames from the local device and then, when one is      *)
(* chosen, from the remote device (start_audio_session in lib.rs, and      *)
(* capture_audio_frames in audio.rs).  The callbacks of the device run on  *)
(* a thread of their own and reach the loop by a channel and an error slot.*)
(*                                                                         *)
(* A sample is known by the number it has among those that its device      *)
(* delivered.  Conversion of formats and rates is left out: a frame is     *)
(* made of exactly SourceFrame samples of the device.                      *)
(***************************************************************************)
EXTENDS Naturals, SequencesExt

CONSTANTS
    FrameCount,     \* frames to record from each device
    SourceFrame,    \* samples of the device in one frame (source_samples_per_frame)
    SegmentFrames,  \* frames that share a segment id (segment_frame_count)
    ChunkSizes,     \* samples that one callback of a device may deliver
    MaxChunks       \* bound: callbacks of one device

ASSUME CaptureAssumption ==
    /\ FrameCount \in Nat \ {0} /\ SourceFrame \in Nat \ {0} /\ SegmentFrames \in Nat \ {0}
    /\ ChunkSizes \subseteq Nat \ {0} /\ MaxChunks \in Nat

VARIABLES
    inputs,     \* the streams to record
    recording,  \* the stream being recorded, by its place in inputs
    at,         \* the loop of capture_audio_frames, or how the task ended
    channel,    \* chunks that the callbacks sent and the loop has not received
    slot,       \* the error slot is set
    delivered,  \* samples that the device of this stream has delivered
    callbacks,  \* callbacks of the device of this stream
    buffer,     \* source_buffer
    taken,      \* the frames of the capture under way
    frames      \* audio_frames: those of the captures that are over

captureVars == <<inputs, recording, at, channel, slot, delivered, callbacks, buffer, taken, frames>>

device == <<channel, slot, delivered, callbacks>>

Streams == {"audio_local", "audio_remote"}

\* run_mock_realtime_smoke_test sends this one instead of recorded audio.
MockFrame == [stream |-> "audio_local", samples |-> <<>>, sequence_no |-> 1, segment |-> 1]

\* A start records one or two streams; a mock start records none.
CaptureInit ==
    /\ inputs \in {<<>>, <<"audio_local">>, <<"audio_local", "audio_remote">>}
    /\ recording = 1
    /\ at = IF inputs = <<>> THEN "ok" ELSE "open"
    /\ channel = <<>> /\ slot = FALSE /\ delivered = 0 /\ callbacks = 0
    /\ buffer = <<>> /\ taken = <<>>
    /\ frames = IF inputs = <<>> THEN <<MockFrame>> ELSE <<>>

Here == inputs[recording]

\* The device is selected and the stream plays, or one of them fails.
Open ==
    /\ at = "open"
    /\ at' \in {"check", "failed"}
    /\ UNCHANGED <<inputs, recording, device, buffer, taken, frames>>

Callbacks == at \in {"check", "receive", "cut"}

\* The data callback: it never blocks and never fails.
Deliver(n) ==
    /\ Callbacks
    /\ callbacks < MaxChunks
    /\ callbacks' = callbacks + 1
    /\ delivered' = delivered + n
    /\ channel' = Append(channel, [k \in 1..n |-> delivered + k])
    /\ UNCHANGED <<inputs, recording, at, slot, buffer, taken, frames>>

\* The error callback.
DeviceError ==
    /\ Callbacks
    /\ callbacks < MaxChunks
    /\ callbacks' = callbacks + 1
    /\ slot' = TRUE
    /\ UNCHANGED <<inputs, recording, at, channel, delivered, buffer, taken, frames>>

Missing == FrameCount - Len(taken)

\* The head of the loop takes an error out of the slot.
Check ==
    /\ at = "check"
    /\ Missing > 0
    /\ slot' = FALSE
    /\ at' = IF slot THEN "failed" ELSE "receive"
    /\ UNCHANGED <<inputs, recording, channel, delivered, callbacks, buffer, taken, frames>>

\* A chunk arrives.
Receive ==
    /\ at = "receive"
    /\ channel # <<>>
    /\ buffer' = buffer \o Head(channel)
    /\ channel' = Tail(channel)
    /\ at' = "cut"
    /\ UNCHANGED <<inputs, recording, slot, delivered, callbacks, taken, frames>>

\* The next frame of this stream, from the head of the buffer.
NextFrame ==
    [stream |-> Here,
     samples |-> SubSeq(buffer, 1, SourceFrame),
     sequence_no |-> Len(taken) + 1,
     segment |-> (Len(taken) \div SegmentFrames) + 1]

\* Mutant of CutFrame: what is left of the buffer is thrown away.
CutFrameDropping ==
    /\ at = "cut"
    /\ Len(buffer) >= SourceFrame /\ Missing > 0
    /\ taken' = Append(taken, NextFrame)
    /\ buffer' = <<>>
    /\ UNCHANGED <<inputs, recording, at, device, frames>>

\* The inner loop drains whole frames, as long as some are missing.
CutFrame ==
    /\ at = "cut"
    /\ Len(buffer) >= SourceFrame /\ Missing > 0
    /\ taken' = Append(taken, NextFrame)
    /\ buffer' = SubSeq(buffer, SourceFrame + 1, Len(buffer))
    /\ UNCHANGED <<inputs, recording, at, device, frames>>

CutEnds ==
    /\ at = "cut"
    /\ Len(buffer) < SourceFrame \/ Missing = 0
    /\ at' = "check"
    /\ UNCHANGED <<inputs, recording, device, buffer, taken, frames>>

\* Nothing has come for three seconds.
ReceiveTimesOut ==
    /\ at = "receive"
    /\ channel = <<>>
    /\ at' = "failed"
    /\ UNCHANGED <<inputs, recording, device, buffer, taken, frames>>

\* Mutant of Normalised: every stream keeps the numbers its own scheduler gave.
NormalisedSegments(all) ==
    [k \in DOMAIN all |-> [all[k] EXCEPT !.segment = IF @ = 1 THEN 1 ELSE 2]]

\* Mutant of Normalised: the numbers start with the index, from zero.
NormalisedFromZero(all) ==
    [k \in DOMAIN all |->
        [all[k] EXCEPT !.sequence_no = k - 1,
                       !.segment = IF all[k].stream = "audio_local" THEN 1 ELSE 2]]

\* normalize_audio_frames: one count over both streams, one segment per stream.
Normalised(all) ==
    [k \in DOMAIN all |->
        [all[k] EXCEPT !.sequence_no = k,
                       !.segment = IF all[k].stream = "audio_local" THEN 1 ELSE 2]]

\* Enough frames: the stream is dropped, and the other one is opened.
Complete ==
    /\ at = "check"
    /\ Missing = 0
    /\ channel' = <<>> /\ slot' = FALSE /\ delivered' = 0 /\ callbacks' = 0
    /\ buffer' = <<>> /\ taken' = <<>>
    /\ IF recording < Len(inputs)
       THEN at' = "open" /\ recording' = recording + 1 /\ frames' = frames \o taken
       ELSE at' = "ok" /\ recording' = recording /\ frames' = Normalised(frames \o taken)
    /\ UNCHANGED inputs

CaptureNext ==
    \/ Open \/ Check \/ Receive \/ CutFrame \/ CutEnds \/ ReceiveTimesOut \/ Complete
    \/ \E n \in ChunkSizes : Deliver(n)
    \/ DeviceError

\* The loop runs on a thread of its own; recv_timeout bounds every wait.
CaptureFairness ==
    WF_captureVars(Open \/ Check \/ Receive \/ CutFrame \/ CutEnds \/ ReceiveTimesOut \/ Complete)

-----------------------------------------------------------------------------
Frames == [stream : Streams, samples : Seq(Nat), sequence_no : Nat \ {0}, segment : Nat \ {0}]

CaptureTypeOK ==
    /\ inputs \in Seq(Streams)
    /\ recording \in 1..2
    /\ at \in {"open", "check", "receive", "cut", "ok", "failed"}
    /\ channel \in Seq(Seq(Nat))
    /\ slot \in BOOLEAN
    /\ delivered \in Nat /\ callbacks \in 0..MaxChunks
    /\ buffer \in Seq(Nat)
    /\ taken \in Seq(Frames) /\ frames \in Seq(Frames)

\* The n samples of a device that follow the first ones.
Samples(first, n) == [j \in 1..n |-> first + j]

\* How many samples n frames are made of.
InFrames(n) == n * SourceFrame

\* What the device delivered before chunk c of the channel.
Before(c) == IF c = 1 THEN InFrames(Len(taken)) + Len(buffer) ELSE Last(channel[c - 1])

TakenFit == \A k \in DOMAIN taken : taken[k].samples = Samples(InFrames(k - 1), SourceFrame)

FramesFit ==
    inputs # <<>> =>
        \A k \in DOMAIN frames :
            LET place == IF k <= FrameCount THEN k ELSE k - FrameCount IN
            /\ frames[k].stream = inputs[IF k <= FrameCount THEN 1 ELSE 2]
            /\ frames[k].samples = Samples(InFrames(place - 1), SourceFrame)

RestFits ==
    Callbacks =>
        /\ buffer = Samples(InFrames(Len(taken)), Len(buffer))
        /\ \A c \in DOMAIN channel :
              channel[c] # <<>> /\ channel[c] = Samples(Before(c), Len(channel[c]))
        /\ Before(Len(channel) + 1) = delivered

\* The frames of a stream are the first samples of its device, complete and in
\* order, whatever chunks they came in; what the loop has not cut yet follows
\* them without a gap, up to the last sample that was delivered.
GapFree == TakenFit /\ FramesFit /\ RestFits
=============================================================================
