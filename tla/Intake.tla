------------------------------- MODULE Intake -------------------------------
(***************************************************************************)
(* One message of the page on its way into the receiver and the answer on  *)
(* its way back, byte by byte: encoded by the page, forwarded by the       *)
(* relay, decoded by the receiver's client, its metadata decoded again,    *)
(* the file name made safe, checked and turned into paths by the sink, the *)
(* acknowledgement encoded and read by the page.                           *)
(*                                                                         *)
(* The relay forwards whatever a client sends, so messages that no page    *)
(* would send arrive as well, at either end.  What the files and the       *)
(* threads do is ReceivePipeline's and Transfer's business.                *)
(***************************************************************************)
EXTENDS WireFormats

CONSTANTS
    Forbidden, Dot, Space, Underscore, Backslash, Slash, Upper, Device, NumberedDevice,
    Digit1to9, Lead, Continuation, Fallback, PartSuffix, HexDigit, JobIdChars, PathCapacity, Wide(_),
    Utf8,       \* the bytes TextEncoder makes of a text
    Request,    \* what a page is asked to send
    Root,       \* jobs directories
    Foreign,    \* messages to the receiver that no page sends
    ForeignAnswer,   \* messages to the page that no receiver sends
    Count       \* byte counts of the file receiver

INSTANCE FileNames

\* The limits fit their fields and each other.
ASSUME LimitAssumption ==
    /\ Base \in Nat /\ Base > 7 /\ Magic \in Seq(Byte) /\ Len(Magic) = 4
    /\ Sha256Bytes \in Nat
    /\ FilenameMax \in Nat /\ FilenameMax < TwoBytes
    /\ MessageMax \in Nat /\ HeaderSize + AckSize <= MessageMax
    /\ HeaderSize + FixedSize + FilenameMax <= MessageMax
    /\ FrameMax \in Nat /\ RelayMaxPayload <= FrameMax /\ FrameMax < FourBytes

Header == [type : 1 .. 7, flags : {0}, payload_length : 0 .. FrameMax]
View == [header : Header, payload : Seq(Byte)]
Metadata == [file_size : U64, sha256 : Seq(Byte), filename : Seq(Byte)]
Ack == [type : {FILE_BEGIN, CHUNK, FILE_END}, status : AckStatus, received : U64]

ASSUME IntakeAssumption ==
    /\ None \notin Header /\ None \notin View /\ None \notin Metadata /\ None \notin Ack
    /\ None \notin Seq(Byte) /\ None \notin [type : 1 .. 7, payload : Seq(Byte)]
    /\ Foreign \subseteq Seq(Byte) /\ ForeignAnswer \subseteq Seq(Byte) /\ Count \subseteq U64
    /\ \A r \in Request :
          \/ /\ r.type = FILE_BEGIN /\ r.sha256 \in Seq(Byte)
             /\ Utf8[r.text] \in Seq(Byte) /\ ValidUtf8(Utf8[r.text])
          \/ r.type \in {CHUNK, FILE_END} /\ r.payload \in Seq(Byte)

ASSUME NameAssumption ==
    /\ Forbidden \subseteq Byte /\ Separator \subseteq Forbidden
    /\ {Dot, Space, Underscore} \subseteq Byte \ Forbidden /\ Underscore \notin {Dot, Space}
    /\ Upper \in [Byte -> Byte] /\ Upper[Dot] = Dot /\ Upper[Underscore] = Underscore
    /\ Device \cup NumberedDevice \subseteq Seq(Byte \ {Dot, Underscore}) /\ <<>> \notin Device
    /\ Digit1to9 \subseteq Byte \ {Dot, Underscore}
    /\ (Lead \cup Continuation) \cap (Forbidden \cup {Dot, Space, Underscore}) = {}
    /\ Fallback \in Seq(Byte \ (Forbidden \cup {Dot, Space})) /\ ValidUtf8(Fallback)
    /\ Len(Fallback) \in 1 .. FilenameMax - 1
    /\ PartSuffix \in Seq(Byte \ {Backslash}) /\ PartSuffix # <<>> /\ PartSuffix[1] = Dot

ASSUME PathAssumption ==
    /\ JobIdChars \in Nat \ {0} /\ HexDigit \subseteq Byte \ Separator
    /\ Root \subseteq Seq(Byte) \ {<<>>} /\ PathCapacity \in Nat
    /\ \A n \in UNION {[1 .. k -> Byte] : k \in 1 .. FilenameMax} :
          ValidUtf8(n) => /\ Wide(n) \in Seq(Byte) \ {<<>>}
                          /\ Contains(Wide(n), Backslash) => Contains(n, Backslash)

VARIABLES
    stage,     \* how far the message and its answer have come
    request,   \* what the page means to send, None for a message of another origin
    root,      \* handler->root_directory
    proto,     \* the state of pd_receiver_protocol
    wire,      \* the message on its way to the receiver
    view,      \* pd_relay_message_view
    metadata,  \* of the FILE_BEGIN, None unless it is decoded
    name,      \* the sanitized name, None unless there is one
    sink,      \* the result of pd_win32_file_sink_init and the paths it made
    result,    \* that of pd_receiver_protocol_handle
    sent,      \* the acknowledgement the receiver means to send
    answer,    \* the message on its way to the page
    ack,       \* what the page reads, None when decodeAck throws
    fault      \* history: a call of the system failed

vars == <<stage, request, root, proto, wire, view, metadata, name, sink, result, sent,
          answer, ack, fault>>

NoSink == [result |-> "NONE"]

Init ==
    /\ stage = "idle" /\ request = None /\ root \in Root
    /\ proto \in {"WAIT_FILE", "RECEIVING"}
    /\ wire = <<>> /\ view = None /\ metadata = None /\ name = None /\ sink = NoSink
    /\ result = "NONE" /\ sent = None /\ answer = <<>> /\ ack = None /\ fault = FALSE

-----------------------------------------------------------------------------
\* To the receiver.

\* What TextEncoder makes of a text.
Encoded(text) == Utf8[text]

PagePayload(r) ==
    IF r.type = FILE_BEGIN
    THEN PageEncodeFileBegin(r.file_size, r.sha256, Len(r.text), Encoded(r.text))
    ELSE r.payload

\* sendFrameAndWait and its caller; encodeFileBegin and encodeFrame may throw.
PageSends ==
    /\ stage = "idle"
    /\ \E r \in Request :
          /\ r.type = FILE_BEGIN <=> proto = "WAIT_FILE"
          /\ \E payload \in {PagePayload(r)} :
                LET message == IF payload = None THEN None ELSE PageEncodeFrame(r.type, payload)
                IN  /\ request' = r
                    /\ wire' = IF message = None THEN <<>> ELSE message
                    /\ stage' = IF message = None THEN "unsent" ELSE "up"
    /\ UNCHANGED <<root, proto, view, metadata, name, sink, result, sent, answer, ack, fault>>

ForeignSends ==
    /\ stage = "idle" /\ stage' = "up" /\ wire' \in Foreign
    /\ UNCHANGED <<request, root, proto, view, metadata, name, sink, result, sent, answer,
                   ack, fault>>

\* The read limit of the relay, then pd_win32_relay_client_receive_frame: a message
\* that is not taken ends the connection, and no answer is made.
Receive ==
    /\ stage = "up"
    /\ \E v \in {IF Len(wire) > MessageMax THEN None ELSE RelayMessageDecode(wire)} :
          view' = v /\ stage' = IF v = None THEN "dropped" ELSE "handle"
    /\ UNCHANGED <<request, root, proto, wire, metadata, name, sink, result, sent, answer,
                   ack, fault>>

Type == view.header.type

\* pd_receiver_protocol_handle with a message that does not fit the state.
Expected == IF proto = "WAIT_FILE" THEN {FILE_BEGIN} ELSE {CHUNK, FILE_END}

Handled(r) == result' = r /\ stage' = "reply"

Unexpected ==
    /\ stage = "handle" /\ Type \notin Expected
    /\ Handled("UNEXPECTED_MESSAGE")
    /\ UNCHANGED <<request, root, proto, wire, view, metadata, name, sink, sent, answer, ack,
                   fault>>

\* pd_receiver_protocol_begin_file and the part of pd_win32_receive_begin that makes
\* the paths; pd_win32_ensure_directory and what follows it may fail as well.
BeginFile ==
    /\ stage = "handle" /\ Type = FILE_BEGIN /\ Type \in Expected
    /\ \E m \in {FileBeginDecode(view.payload)} :
       \E n \in {IF m = None THEN None ELSE Sanitize(m.filename)} :
       \E id \in JobIdCreate :
       \E s \in {IF n = None \/ id = <<>> THEN NoSink ELSE SinkInit(root, id, n)} :
          /\ metadata' = m /\ name' = n /\ sink' = s
          /\ \/ n = None /\ Handled("INVALID_METADATA") /\ UNCHANGED fault
             \/ n # None /\ s.result # "OK" /\ Handled("HANDLER_ERROR")
                         /\ fault' = (id = <<>>)
             \/ s.result = "OK" /\ Handled("OK") /\ UNCHANGED fault
             \/ s.result = "OK" /\ Handled("HANDLER_ERROR") /\ fault' = TRUE
    /\ UNCHANGED <<request, root, proto, wire, view, sent, answer, ack>>

\* pd_receiver_protocol_write_chunk and pd_receiver_protocol_finish_file.
ChunkOrEnd ==
    /\ stage = "handle" /\ Type \in {CHUNK, FILE_END} /\ Type \in Expected
    /\ \/ /\ Type = CHUNK <=> view.payload = <<>>
          /\ Handled("MALFORMED_FRAME") /\ UNCHANGED fault
       \/ /\ Type = CHUNK <=> view.payload # <<>>
          /\ \/ Handled("OK") /\ UNCHANGED fault
             \/ Handled("HANDLER_ERROR") /\ fault' = TRUE
    /\ UNCHANGED <<request, root, proto, wire, view, metadata, name, sink, sent, answer, ack>>

-----------------------------------------------------------------------------
\* Back to the page.

\* pd_loop_error_status
Status(r) == CASE r = "OK" -> 0 [] r = "HANDLER_ERROR" -> 2 [] r = "INVALID_METADATA" -> 4
               [] OTHER -> 1

\* pd_loop_send_ack.  A message of a type that is not acknowledged gets no answer; the
\* count is that of the file receiver, zero before a file is begun.
Reply ==
    /\ stage = "reply"
    /\ IF AckTypeAllowed(Type)
       THEN \E n \in IF Type = FILE_BEGIN /\ proto = "WAIT_FILE" THEN {0} ELSE Count :
            \E a \in {[type |-> Type, status |-> Status(result), received |-> n]} :
            \E bytes \in {RelayMessageEncode([type |-> ACK, flags |-> 0,
                                              payload_length |-> AckSize], AckEncode(a))} :
               sent' = a /\ answer' = bytes /\ stage' = "down"
       ELSE stage' = "dropped" /\ UNCHANGED <<sent, answer>>
    /\ UNCHANGED <<request, root, proto, wire, view, metadata, name, sink, result, ack, fault>>

ForeignAnswers ==
    /\ stage = "idle" /\ stage' = "down" /\ answer' \in ForeignAnswer
    /\ UNCHANGED <<request, root, proto, wire, view, metadata, name, sink, result, sent, ack,
                   fault>>

\* The relay's read limit, and decodeAck as waitForAck calls it.
PageReads ==
    /\ stage = "down" /\ stage' = "read"
    /\ ack' = IF Len(answer) > MessageMax THEN None ELSE PageDecodeAck(answer)
    /\ UNCHANGED <<request, root, proto, wire, view, metadata, name, sink, result, sent,
                   answer, fault>>

Next == \/ PageSends \/ ForeignSends \/ Receive \/ Unexpected \/ BeginFile \/ ChunkOrEnd
        \/ Reply \/ ForeignAnswers \/ PageReads

Spec == Init /\ [][Next]_vars

-----------------------------------------------------------------------------
\* Properties.

\* What the receiver reads in a page's message is what the page wrote: the type, the
\* payload and, of a FILE_BEGIN, the size, the digest and the name at every length and
\* value the page lets through (protocol.js against relay_message.c and file_begin.c).
PageIsUnderstood ==
    request # None =>
        /\ stage # "dropped"
        /\ view # None => Type = request.type /\ view.payload = PagePayload(request)
        /\ stage \in {"reply", "down", "read"} /\ request.type = FILE_BEGIN =>
              metadata = [file_size |-> request.file_size, sha256 |-> request.sha256,
                          filename |-> Encoded(request.text)]

\* What the page reads in the receiver's acknowledgement is what the receiver wrote,
\* up to the greatest count of 64 bits, and it takes exactly the acknowledgements that
\* the receiver's own decoder would take (decodeAck against ack.c).
AckIsUnderstood ==
    stage = "read" =>
        LET v == RelayMessageDecode(answer)
        IN  /\ sent # None => ack = sent
            /\ ack = IF v = None \/ v.header.type # ACK THEN None ELSE AckDecode(v.payload)

\* No two messages mean the same: what either end accepts, from whomever, is what the
\* receiver's own encoder makes of its meaning, so that nothing hides in flags,
\* reserved bytes, padding or lengths.
OneEncoding ==
    /\ view # None => wire = RelayMessageEncode(view.header, view.payload)
    /\ metadata # None => view.payload = FileBeginEncode(metadata)
    /\ ack # None => From(answer, HeaderSize) = AckEncode(ack)

\* What Windows takes for an ordinary file, under this name and under its staging name.
\* The reserved names are those filename.c lists; Windows has a few more (a superscript
\* digit after COM, spaces between a reserved name and its first dot).
Ordinary(n) ==
    /\ n # <<>> /\ Len(n) <= FilenameMax
    /\ ToSet(n) \cap Forbidden = {} /\ Last(n) \notin {Dot, Space}
    /\ \A entry \in {n, n \o PartSuffix} : \A k \in DOMAIN entry :
          \* the stem, in either case, with or without an extension
          k = Len(entry) \/ entry[k + 1] = Dot =>
             /\ UpperCase(SubSeq(entry, 1, k)) \notin Device
             /\ ~(UpperCase(SubSeq(entry, 1, k - 1)) \in NumberedDevice /\ entry[k] \in Digit1to9)

\* Whatever the bytes of a FILE_BEGIN, the name that reaches the disk is that of an
\* ordinary file (pd_filename_sanitize), and a name that needs no change keeps every
\* byte, those beyond ASCII included.
NameIsSafe ==
    name # None => /\ Ordinary(name)
                   /\ Ordinary(metadata.filename) => name = metadata.filename

\* The two paths fit their buffers, lie in the job's own directory, and differ.
PathsApart ==
    /\ Len(sink.final) < PathCapacity /\ Len(sink.staging) < PathCapacity
    /\ sink.final # sink.staging
    /\ \A path \in {sink.final, sink.staging} :
          \E n \in 1 .. Len(path) : /\ SubSeq(path, 1, n) = sink.job_directory \o <<Backslash>>
                                    /\ n < Len(path) /\ ~Contains(From(path, n), Backslash)

\* The sink checks again what the protocol has cleaned, and agrees: a page's file is
\* refused only because its path is too long, and what is taken gets two paths of its
\* own (pd_win32_file_sink_init).
SinkAgrees ==
    /\ sink.result \notin {"INVALID_FILENAME", "INVALID_JOB_ID"}
    /\ sink.result = "INVALID_UTF8" => request = None
    /\ metadata # None /\ name # None /\ ValidUtf8(metadata.filename) => ValidUtf8(name)
    /\ sink.result = "OK" => PathsApart

\* A page's FILE_BEGIN is refused for no other reason than: a device name that leaves
\* no room for the prefix, a path beyond MAX_PATH, or a failing call.
PageFileIsTaken ==
    request # None /\ request.type = FILE_BEGIN /\ stage = "read" /\ ack.status # 0 =>
        LET n == Encoded(request.text)
            length == Len(root) + (IF Last(root) \in Separator THEN 0 ELSE 1) + JobIdChars + 1
                        + Len(Wide(name)) + Len(PartSuffix)
        IN  \/ name = None /\ Len(n) = FilenameMax /\ Reserved(n)
            \/ name # None /\ length > PathCapacity - 1
            \/ fault
=============================================================================
