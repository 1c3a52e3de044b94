---------------------------- MODULE BinaryFrame ----------------------------
(***************************************************************************)
(* The two codecs of binary frames, of the desktop                         *)
(* (crates/olb-protocol/src/binary_frame.rs) and of the service            *)
(* (runtime/binary_frame.py): which frames each builds and reads.          *)
(*                                                                         *)
(* A frame is a prefix of 8 bytes (magic, length of the header), a JSON    *)
(* header and the payload.  Bytes are counted, not spelled out: "size" is  *)
(* the length of the frame, "magic" says that it begins with OLB1, "json"  *)
(* that its header is a JSON object, "header" what that object says.       *)
(***************************************************************************)
EXTENDS Integers

CONSTANTS
    Absent,          \* a field that is missing or null
    MaxFrameBytes,   \* the service: max_binary_frame_bytes
    MaxHeaderBytes,  \* the service: max_binary_header_bytes
    MaxHeaderLen     \* the desktop: DEFAULT_MAX_BINARY_HEADER_LEN

ASSUME FrameAssumption ==
    /\ MaxFrameBytes \in Nat /\ MaxHeaderBytes \in Nat /\ MaxHeaderLen \in Nat
    /\ Absent \notin Nat

PrefixLen == 8

ProtocolVersion == "1.0"

MessageTypes ==
    {"session.start", "session.pause", "session.resume", "session.stop", "config.update",
     "audio.frame", "asr.partial", "asr.final", "translate.result", "tts.audio",
     "status.update", "error"}

\* is_binary_payload_type()
BinaryTypes == {"audio.frame", "tts.audio"}

\* The bytes behind the header.
PayloadLen(b) == b.size - PrefixLen - b.header_len

\* The frame is long enough for its prefix and for the header it announces.
Whole(b) == b.size >= PrefixLen /\ b.size >= PrefixLen + b.header_len

-----------------------------------------------------------------------------
\* The desktop.

\* validate_header()
ValidHeader(h, payloadLen) ==
    /\ h.type \in BinaryTypes
    /\ h.session_id # ""
    /\ h.segment_id # ""
    /\ h.payload_size = payloadLen

\* serde finds every required field of BinaryFrameHeader, with its type;
\* "flat" stands for stream, direction, numbers and the format of the audio.
Typed(h) ==
    /\ Absent \notin {h.protocol_version, h.session_id, h.segment_id, h.payload_size}
    /\ h.type \in MessageTypes
    /\ h.flat

\* encode_binary_frame(): header h takes up headerLen bytes.  The limits of
\* the reader are not looked at, nor is the version.
RustEncode(h, headerLen, payloadLen) ==
    [size |-> PrefixLen + headerLen + payloadLen, magic |-> TRUE, header_len |-> headerLen,
     json |-> TRUE, header |-> h]

\* decode_binary_frame()
RustReads(b) ==
    /\ Whole(b)
    /\ b.magic
    /\ b.header_len <= MaxHeaderLen
    /\ b.json
    /\ Typed(b.header)
    /\ b.header.protocol_version = ProtocolVersion
    /\ ValidHeader(b.header, PayloadLen(b))

-----------------------------------------------------------------------------
\* The service.

\* Mutant of PyReads: the payload is measured from the end of the prefix.
PyReadsFromPrefix(b) ==
    /\ b.size <= MaxFrameBytes
    /\ Whole(b)
    /\ b.magic
    /\ b.header_len <= MaxHeaderBytes
    /\ b.json
    /\ b.header.payload_size \in {Absent, b.size - PrefixLen}

\* decode_binary_frame() raises nothing.
PyReads(b) ==
    /\ b.size <= MaxFrameBytes
    /\ Whole(b)
    /\ b.magic
    /\ b.header_len <= MaxHeaderBytes
    /\ b.json
    /\ b.header.payload_size \in {Absent, PayloadLen(b)}
=============================================================================
