----------------------------- MODULE WireFormats -----------------------------
(***************************************************************************)
(* The bytes of a message: the frame header, the FILE_BEGIN metadata and   *)
(* the acknowledgement, as the receiver (C) and the page (JavaScript) each *)
(* write and read them.  The two sides share no code, so the layout is     *)
(* written down four times.                                                *)
(*                                                                         *)
(* Offsets and field widths are the code's own, except that of the digest. *)
(* A byte has Base values instead of 256, which keeps 64 bits (8 bytes)    *)
(* within the integers TLC computes with.  None is the result of a         *)
(* function that returns an error or throws.                               *)
(***************************************************************************)
EXTENDS Naturals, SequencesExt

CONSTANTS
    Base,           \* values of a byte
    Magic,          \* PD_MAGIC_0 .. PD_MAGIC_3
    Sha256Bytes,    \* PD_SHA256_BYTES, 32
    FilenameMax,    \* PD_FILENAME_MAX_BYTES, 120
    MessageMax,     \* PD_RELAY_WS_MESSAGE_MAX_SIZE, 60 KiB
    FrameMax,       \* PD_FRAME_MAX_PAYLOAD, 1 MiB
    None

Byte == 0 .. Base - 1
TwoBytes == Base * Base             \* values of an uint16_t
FourBytes == TwoBytes * TwoBytes    \* and of an uint32_t
U64 == 0 .. FourBytes * FourBytes - 1

HeaderSize == 12                          \* PD_FRAME_HEADER_SIZE
RelayMaxPayload == MessageMax - HeaderSize   \* PD_RELAY_MAX_PAYLOAD
FixedSize == 10 + Sha256Bytes             \* PD_FILE_BEGIN_FIXED_SIZE
AckSize == 12                             \* PD_ACK_PAYLOAD_SIZE
Version == 1                              \* PD_PROTOCOL_VERSION

FILE_BEGIN == 3
CHUNK == 4
FILE_END == 5
ACK == 6
MessageTypeValid(t) == t \in 1 .. 7       \* HELLO .. ERROR

\* PD_ACK_OK .. PD_ACK_REJECTED
AckStatus == 0 .. 4

\* pd_write_u16_be, pd_write_u32_be and pd_write_u64_be: the lowest bytes, the highest
\* of them first.
WriteU16(v) == <<(v \div Base) % Base, v % Base>>
WriteU32(v) == WriteU16(v \div TwoBytes) \o WriteU16(v % TwoBytes)
WriteU64(v) == WriteU32(v \div FourBytes) \o WriteU32(v % FourBytes)

\* pd_read_u16_be, pd_read_u32_be and pd_read_u64_be at an offset of a buffer.
ReadU16(bytes, offset) == Base * bytes[offset + 1] + bytes[offset + 2]
ReadU32(bytes, offset) == TwoBytes * ReadU16(bytes, offset) + ReadU16(bytes, offset + 2)
ReadU64(bytes, offset) == FourBytes * ReadU32(bytes, offset) + ReadU32(bytes, offset + 4)

\* n bytes from a buffer, from the code's offset on.
At(bytes, offset, n) == SubSeq(bytes, offset + 1, offset + n)
From(bytes, offset) == SubSeq(bytes, offset + 1, Len(bytes))

-----------------------------------------------------------------------------
\* The receiver.

\* pd_frame_encode_header
EncodeHeader(header) ==
    IF \/ ~MessageTypeValid(header.type) \/ header.flags # 0
       \/ header.payload_length > FrameMax
    THEN None
    ELSE Magic \o <<Version, header.type>> \o WriteU16(header.flags)
               \o WriteU32(header.payload_length)

\* Mutated form: the flags are not looked at.
DecodeHeaderAnyFlags(input) ==
    IF \/ At(input, 0, 4) # Magic \/ input[5] # Version \/ ~MessageTypeValid(input[6])
       \/ ReadU32(input, 8) > FrameMax
    THEN None
    ELSE [type |-> input[6], flags |-> 0, payload_length |-> ReadU32(input, 8)]

\* pd_frame_decode_header
DecodeHeader(input) ==
    IF \/ At(input, 0, 4) # Magic
       \/ input[5] # Version
       \/ ~MessageTypeValid(input[6])
       \/ ReadU16(input, 6) # 0
       \/ ReadU32(input, 8) > FrameMax
    THEN None
    ELSE [type |-> input[6], flags |-> ReadU16(input, 6),
          payload_length |-> ReadU32(input, 8)]

\* pd_relay_message_encode into the client's buffer of MessageMax bytes.
RelayMessageEncode(header, payload) ==
    IF \/ Len(payload) > RelayMaxPayload \/ header.payload_length # Len(payload)
       \/ EncodeHeader(header) = None
    THEN None ELSE EncodeHeader(header) \o payload

\* pd_relay_message_decode
RelayMessageDecode(message) ==
    LET header == DecodeHeader(message)
        payload == From(message, HeaderSize)
    IN  IF \/ Len(message) < HeaderSize \/ Len(message) > MessageMax
           \/ header = None
           \/ Len(payload) > RelayMaxPayload \/ header.payload_length # Len(payload)
        THEN None ELSE [header |-> header, payload |-> payload]

\* pd_file_begin_encode, for a buffer that is large enough.
FileBeginEncode(metadata) ==
    LET n == Len(metadata.filename)
    IN  IF n = 0 \/ n > FilenameMax THEN None
        ELSE WriteU64(metadata.file_size) \o metadata.sha256 \o WriteU16(n)
               \o metadata.filename

\* Mutated form: a name of the greatest length is refused.
FileBeginDecodeShort(payload) ==
    LET n == ReadU16(payload, 8 + Sha256Bytes)
        filename == From(payload, FixedSize)
    IN  IF \/ Len(payload) < FixedSize
           \/ n = 0 \/ n >= FilenameMax \/ Len(payload) # FixedSize + n
           \/ Contains(filename, 0)
        THEN None
        ELSE [file_size |-> ReadU64(payload, 0),
              sha256 |-> At(payload, 8, Sha256Bytes), filename |-> filename]

\* pd_file_begin_decode
FileBeginDecode(payload) ==
    LET n == ReadU16(payload, 8 + Sha256Bytes)
        filename == From(payload, FixedSize)
    IN  IF \/ Len(payload) < FixedSize
           \/ n = 0 \/ n > FilenameMax \/ Len(payload) # FixedSize + n
           \/ Contains(filename, 0)
        THEN None
        ELSE [file_size |-> ReadU64(payload, 0),
              sha256 |-> At(payload, 8, Sha256Bytes), filename |-> filename]

AckTypeAllowed(t) == t \in {FILE_BEGIN, CHUNK, FILE_END}

\* pd_ack_encode
AckEncode(ack) ==
    IF ~AckTypeAllowed(ack.type) \/ ack.status \notin AckStatus THEN None
    ELSE <<ack.type, ack.status, 0, 0>> \o WriteU64(ack.received)

\* pd_ack_decode, the reference for the page's own.
AckDecode(input) ==
    IF \/ Len(input) # AckSize \/ input[3] # 0 \/ input[4] # 0
       \/ ~AckTypeAllowed(input[1]) \/ input[2] \notin AckStatus
    THEN None
    ELSE [type |-> input[1], status |-> input[2], received |-> ReadU64(input, 4)]

-----------------------------------------------------------------------------
\* The page: protocol.js.

PageEncodeFrame(type, payload) ==
    IF ~MessageTypeValid(type) \/ Len(payload) > RelayMaxPayload THEN None
    ELSE Magic \o <<Version, type>> \o WriteU16(0) \o WriteU32(Len(payload)) \o payload

PageDecodeFrame(message) ==
    LET n == ReadU32(message, 8)
    IN  IF \/ Len(message) < HeaderSize \/ Len(message) > MessageMax
           \/ At(message, 0, 4) # Magic
           \/ message[5] # Version
           \/ ~MessageTypeValid(message[6])
           \/ ReadU16(message, 6) # 0
           \/ n > RelayMaxPayload \/ HeaderSize + n # Len(message)
        THEN None ELSE [type |-> message[6], payload |-> From(message, HeaderSize)]

\* encodeFileBegin, of a name that is n characters long and whose UTF-8 is given.
PageEncodeFileBegin(fileSize, sha256, n, filename) ==
    IF \/ fileSize \notin U64 \/ Len(sha256) # Sha256Bytes
       \/ n = 0 \/ Contains(filename, 0)
       \/ Len(filename) = 0 \/ Len(filename) > FilenameMax
    THEN None
    ELSE WriteU64(fileSize) \o sha256 \o WriteU16(Len(filename)) \o filename

\* Mutated form: the greatest status is refused.
PageDecodeAckShort(message) ==
    LET frame == PageDecodeFrame(message)
        payload == frame.payload
    IN  IF \/ frame = None \/ frame.type # ACK \/ Len(payload) # AckSize
           \/ payload[1] \notin {FILE_BEGIN, CHUNK, FILE_END}
           \/ payload[2] \notin 0 .. 3
           \/ payload[3] # 0 \/ payload[4] # 0
        THEN None
        ELSE [type |-> payload[1], status |-> payload[2],
              received |-> ReadU64(payload, 4)]

\* decodeAck
PageDecodeAck(message) ==
    LET frame == PageDecodeFrame(message)
        payload == frame.payload
    IN  IF \/ frame = None \/ frame.type # ACK \/ Len(payload) # AckSize
           \/ payload[1] \notin {FILE_BEGIN, CHUNK, FILE_END}
           \/ payload[2] \notin AckStatus
           \/ payload[3] # 0 \/ payload[4] # 0
        THEN None
        ELSE [type |-> payload[1], status |-> payload[2],
              received |-> ReadU64(payload, 4)]
=============================================================================
