--------------------------- MODULE ReceivePipeline ---------------------------
(***************************************************************************)
(* The receiving side of one transfer and the disk it writes to:           *)
(*   receiver_loop.c         receives a frame, handles it, acknowledges it *)
(*   receiver_protocol.c     the message state machine                     *)
(*   win32_receive_handler.c the job of the current file                   *)
(*   file_receive.c          counts, hashes and commits the bytes          *)
(*   win32_sha256.c          the running digest                            *)
(*   win32_file_sink.c       the staging file and its rename               *)
(*                                                                         *)
(* A call from the loop down to the system is cut into steps, each of      *)
(* which changes the disk at most once, so that the process can be killed  *)
(* (the window is closed, the machine loses power) at every state the disk *)
(* can be in.  pc names the step the worker thread is about to take.       *)
(*                                                                         *)
(* Frames arrive in any order and with any content: nothing here relies on *)
(* a well-behaved sender.  A payload is a sequence of bytes, a path a pair *)
(* of a job id and a file name; the wire formats are left out.             *)
(***************************************************************************)
EXTENDS Naturals, Sequences, LoopEvents

CONSTANTS
    JobId,        \* job identifiers pd_job_id_create may draw, repeats included
    Name,         \* sanitized names a FILE_BEGIN may lead to
    FileName,     \* names of directory entries
    Part,         \* Part[n]: the name n with ".part" appended
    Byte,
    Size,         \* file sizes a FILE_BEGIN may announce
    Payload,      \* payloads a CHUNK or FILE_END may carry
    Digest,       \* digests a FILE_BEGIN may announce
    Sha256(_),
    MaxPayload,   \* PD_FRAME_MAX_PAYLOAD
    Faults,       \* the system calls that may fail
    None

FaultKinds == {"init", "create", "hash", "write", "flush", "close", "move",
               "delete", "send"}

ASSUME PathAssumption ==
    /\ Name \subseteq FileName
    /\ Part \in [Name -> FileName]
    /\ \A n \in Name : Part[n] # n
    /\ None \notin JobId \X FileName

ASSUME DataAssumption ==
    /\ Size \subseteq Nat
    /\ Payload \subseteq Seq(Byte)
    /\ MaxPayload \in Nat
    /\ Faults \subseteq FaultKinds

Path == JobId \X FileName
Meta == [size : Size, sha256 : Digest, name : Name]

\* check is "ok" when the frame's header passes validation and, for a
\* FILE_BEGIN, "metadata" when its payload or file name is refused.
MessageType == {"FILE_BEGIN", "CHUNK", "FILE_END", "OTHER"}
Frame == [type : {"FILE_BEGIN"}, check : {"ok"}, meta : Meta]
    \cup [type : {"FILE_BEGIN"}, check : {"metadata"}]
    \cup [type : {"CHUNK", "FILE_END"}, check : {"ok"}, bytes : Payload]
    \cup [type : {"OTHER"}, check : {"ok"}]
    \cup [type : MessageType, check : {"header"}]

VARIABLES
    pc,              \* the worker's next step
    frame,           \* the frame being handled
    result,          \* what pd_receiver_protocol_handle returns for it
    outcome,         \* what pd_receiver_loop_run has returned, or "RUNNING"
    proto,           \* pd_receiver_protocol: state, file_active
    handler_active,  \* pd_win32_receive_handler.active
    fr,              \* pd_file_receiver
    sink,            \* pd_win32_file_sink: its paths and whether its handle is open
    hash,            \* pd_win32_sha256: whether it is active and the bytes it was fed
    ack,             \* the last acknowledgement sent
    event,           \* the last event passed to the window
    files,           \* disk: the paths that exist
    data,            \* disk: the bytes of each file
    dirty,           \* disk: the files whose bytes may still be in the cache
    completed,       \* history: the renames to a final path that succeeded
    before           \* history: the files that existed when the session started

loopVars == <<pc, frame, result, outcome, ack, event>>
fileVars == <<fr, sink, hash>>
diskVars == <<files, data, dirty>>
history == <<completed, before>>
vars == <<loopVars, proto, handler_active, fileVars, diskVars, history>>

NoSink == [final |-> None, staging |-> None, open |-> FALSE]
NoHash == [active |-> FALSE, bytes |-> <<>>]
NoReceiver == [state |-> "IDLE", expected |-> 0, sha256 |-> None, received |-> 0,
               sink_started |-> FALSE, integrity_started |-> FALSE]
NoAck == [type |-> "NONE", status |-> "NONE", received |-> 0]

MayFail(call) == call \in Faults

-----------------------------------------------------------------------------
\* Loop, protocol and handler as a new session finds them.

Init ==
    /\ pc = "recv" /\ frame = None /\ result = "OK" /\ outcome = "RUNNING"
    /\ proto = [state |-> "WAIT_FILE", file_active |-> FALSE]
    /\ handler_active = FALSE
    /\ fr = NoReceiver /\ sink = NoSink /\ hash = NoHash
    /\ ack = NoAck /\ event = "READY"
    /\ files = {} /\ data = [p \in Path |-> <<>>] /\ dirty = {}
    /\ completed = {} /\ before = {}

StartSession ==
    /\ pc' = "recv" /\ frame' = None /\ result' = "OK" /\ outcome' = "RUNNING"
    /\ proto' = [state |-> "WAIT_FILE", file_active |-> FALSE]
    /\ handler_active' = FALSE
    /\ fr' = NoReceiver /\ sink' = NoSink /\ hash' = NoHash
    /\ ack' = NoAck /\ event' = "READY"
    /\ before' = files

-----------------------------------------------------------------------------
\* Releasing what the current file holds.

\* pd_win32_sink_abort: close the handle, delete the staging file.  The result
\* of the deletion is not looked at.
SinkAbort ==
    /\ sink' = [sink EXCEPT !.open = FALSE]
    /\ \/ /\ files' = files \ {sink.staging}
          /\ data' = [data EXCEPT ![sink.staging] = <<>>]
          /\ dirty' = dirty \ {sink.staging}
       \/ MayFail("delete") /\ UNCHANGED diskVars

AbortResources ==
    /\ hash' = IF fr.integrity_started THEN NoHash ELSE hash
    /\ IF fr.sink_started THEN SinkAbort ELSE UNCHANGED <<sink, diskVars>>

Released(state) == [fr EXCEPT !.state = state, !.sink_started = FALSE,
                              !.integrity_started = FALSE]

\* pd_file_receiver_abort does nothing outside RECEIVING.
FileReceiverAbort ==
    IF fr.state = "RECEIVING"
    THEN AbortResources /\ fr' = Released("ABORTED")
    ELSE UNCHANGED <<fileVars, diskVars>>

\* pd_win32_receive_abort does nothing when the handler is not active.
HandlerAbort ==
    IF handler_active
    THEN FileReceiverAbort /\ handler_active' = FALSE
    ELSE UNCHANGED <<fileVars, diskVars, handler_active>>

AbortFile == IF proto.file_active THEN HandlerAbort
             ELSE UNCHANGED <<fileVars, diskVars, handler_active>>

FailedProtocol == [state |-> "FAILED", file_active |-> FALSE]

\* Mutated form: the protocol is marked as failed and abort_file is not called.
ProtocolAbortSilently ==
    /\ proto' = IF proto.state \in {"COMPLETE", "FAILED"} THEN proto ELSE FailedProtocol
    /\ UNCHANGED <<fileVars, diskVars, handler_active>>

\* pd_receiver_protocol_abort.
ProtocolAbort ==
    IF proto.state \in {"COMPLETE", "FAILED"}
    THEN UNCHANGED <<proto, fileVars, diskVars, handler_active>>
    ELSE AbortFile /\ proto' = FailedProtocol

-----------------------------------------------------------------------------
\* pd_receiver_loop_run: waiting for the next frame.

\* Mutated form: VERIFYING is not reported.
ReceiveFrameSilently ==
    /\ pc = "recv"
    /\ frame' \in Frame
    /\ pc' = "handle"
    /\ UNCHANGED <<result, outcome, ack, event, proto, handler_active, fileVars,
                   diskVars, history>>

ReceiveFrame ==
    /\ pc = "recv"
    /\ \E f \in Frame :
          /\ frame' = f
          /\ event' = IF f.type = "FILE_END" THEN "VERIFYING" ELSE event
    /\ pc' = "handle"
    /\ UNCHANGED <<result, outcome, ack, proto, handler_active, fileVars,
                   diskVars, history>>

ReceiveError ==
    /\ pc = "recv"
    /\ ProtocolAbort
    /\ event' = "FAILED" /\ outcome' = "RECEIVE_ERROR" /\ pc' = "ended"
    /\ UNCHANGED <<frame, result, ack, history>>

-----------------------------------------------------------------------------
\* pd_receiver_protocol_handle: what becomes of the frame.

\* Control passes to pd_receiver_protocol_fail with the result r.
Refuse(r) == pc' = "fail" /\ result' = r

HeaderValid ==
    /\ frame.check # "header"
    /\ frame.type \in {"CHUNK", "FILE_END"} => Len(frame.bytes) <= MaxPayload

Malformed ==
    /\ pc = "handle" /\ ~HeaderValid
    /\ Refuse("MALFORMED_FRAME")
    /\ UNCHANGED <<frame, outcome, ack, event, proto, handler_active, fileVars,
                   diskVars, history>>

Expected == IF proto.state = "WAIT_FILE" THEN {"FILE_BEGIN"}
                                         ELSE {"CHUNK", "FILE_END"}

Unexpected ==
    /\ pc = "handle" /\ HeaderValid /\ frame.type \notin Expected
    /\ Refuse("UNEXPECTED_MESSAGE")
    /\ UNCHANGED <<frame, outcome, ack, event, proto, handler_active, fileVars,
                   diskVars, history>>

\* The guard of the three message handlers.
Handling(type) == pc = "handle" /\ HeaderValid /\ type \in Expected
                                /\ frame.type = type

BeginRefused ==
    /\ Handling("FILE_BEGIN") /\ frame.check = "metadata"
    /\ Refuse("INVALID_METADATA")
    /\ UNCHANGED <<frame, outcome, ack, event, proto, handler_active, fileVars,
                   diskVars, history>>

\* pd_win32_receive_begin up to pd_file_receiver_begin: draw a job id and
\* derive the paths.  No resource is held yet when one of these fails.
BeginPrepare ==
    /\ Handling("FILE_BEGIN") /\ frame.check = "ok"
    /\ \/ \E j \in JobId :
             /\ ~handler_active
             /\ sink' = [final   |-> <<j, frame.meta.name>>,
                         staging |-> <<j, Part[frame.meta.name]>>, open |-> FALSE]
             /\ hash' = NoHash
             /\ fr' = [NoReceiver EXCEPT !.expected = frame.meta.size,
                                         !.sha256 = frame.meta.sha256]
             /\ pc' = "create" /\ UNCHANGED result
       \/ /\ handler_active \/ MayFail("init")
          /\ Refuse("HANDLER_ERROR")
          /\ UNCHANGED fileVars
    /\ UNCHANGED <<frame, outcome, ack, event, proto, handler_active, diskVars,
                   history>>

\* pd_win32_sink_begin: CreateFileW with CREATE_NEW.
SinkBegin ==
    /\ pc = "create"
    /\ sink.staging \notin files
    /\ files' = files \cup {sink.staging}
    /\ data' = [data EXCEPT ![sink.staging] = <<>>]
    /\ dirty' = dirty \cup {sink.staging}
    /\ sink' = [sink EXCEPT !.open = TRUE]
    /\ fr' = [fr EXCEPT !.sink_started = TRUE]
    /\ pc' = "hash_begin"
    /\ UNCHANGED <<frame, result, outcome, ack, event, proto, handler_active, hash,
                   history>>

SinkBeginFails ==
    /\ pc = "create"
    /\ sink.staging \in files \/ MayFail("create")
    /\ fr' = [fr EXCEPT !.state = "FAILED"]
    /\ Refuse("HANDLER_ERROR")
    /\ UNCHANGED <<frame, outcome, ack, event, proto, handler_active, sink, hash,
                   diskVars, history>>

\* The rest of pd_file_receiver_begin, pd_win32_receive_begin and
\* pd_receiver_protocol_begin_file.
HashBegin ==
    /\ pc = "hash_begin"
    /\ \/ /\ hash' = [active |-> TRUE, bytes |-> <<>>]
          /\ fr' = [fr EXCEPT !.integrity_started = TRUE, !.state = "RECEIVING"]
          /\ handler_active' = TRUE
          /\ proto' = [state |-> "RECEIVING", file_active |-> TRUE]
          /\ pc' = "ack" /\ result' = "OK"
       \/ /\ MayFail("hash")
          /\ pc' = "drop"
          /\ UNCHANGED <<hash, fr, handler_active, proto, result>>
    /\ UNCHANGED <<frame, outcome, ack, event, sink, diskVars, history>>

\* pd_receiver_protocol_write_chunk and the checks of pd_file_receiver_write.
ChunkFits == /\ handler_active
             /\ fr.state = "RECEIVING"
             /\ fr.received <= fr.expected
             /\ Len(frame.bytes) <= fr.expected - fr.received

ChunkChecked ==
    /\ Handling("CHUNK")
    /\ \/ frame.bytes = <<>> /\ Refuse("MALFORMED_FRAME")
       \/ frame.bytes # <<>> /\ ~ChunkFits /\ Refuse("HANDLER_ERROR")
       \/ frame.bytes # <<>> /\ ChunkFits /\ pc' = "write" /\ UNCHANGED result
    /\ UNCHANGED <<frame, outcome, ack, event, proto, handler_active, fileVars,
                   diskVars, history>>

\* Mutated form: the number of bytes written is not compared.
SinkWriteShort ==
    /\ pc = "write"
    /\ \E n \in 0 .. Len(frame.bytes) :
          /\ n < Len(frame.bytes) => MayFail("write")
          /\ data' = [data EXCEPT ![sink.staging] = @ \o SubSeq(frame.bytes, 1, n)]
    /\ pc' = "hash_update"
    /\ dirty' = dirty \cup {sink.staging}
    /\ UNCHANGED <<frame, result, outcome, ack, event, proto, handler_active,
                   fileVars, files, history>>

\* WriteFile may fail after it has written some of the bytes.
SinkWrite ==
    /\ pc = "write"
    /\ \E n \in 0 .. Len(frame.bytes) :
          /\ data' = [data EXCEPT ![sink.staging] = @ \o SubSeq(frame.bytes, 1, n)]
          /\ IF n = Len(frame.bytes) THEN pc' = "hash_update"
                                     ELSE MayFail("write") /\ pc' = "drop"
    /\ dirty' = dirty \cup {sink.staging}
    /\ UNCHANGED <<frame, result, outcome, ack, event, proto, handler_active,
                   fileVars, files, history>>

HashUpdate ==
    /\ pc = "hash_update"
    /\ \/ /\ hash' = [active |-> TRUE, bytes |-> hash.bytes \o frame.bytes]
          /\ fr' = [fr EXCEPT !.received = @ + Len(frame.bytes)]
          /\ pc' = "ack" /\ result' = "OK"
       \/ MayFail("hash") /\ pc' = "drop" /\ UNCHANGED <<hash, fr, result>>
    /\ UNCHANGED <<frame, outcome, ack, event, proto, handler_active, sink, diskVars,
                   history>>

\* pd_receiver_protocol_finish_file and pd_win32_receive_finish, refused
\* before pd_file_receiver_finish has touched anything.  The handler is no
\* longer active once the finish has been tried.
FinishRefused ==
    /\ Handling("FILE_END")
    /\ \/ frame.bytes # <<>> /\ Refuse("MALFORMED_FRAME") /\ UNCHANGED handler_active
       \/ /\ frame.bytes = <<>>
          /\ ~handler_active \/ fr.state # "RECEIVING" \/ fr.received # fr.expected
          /\ handler_active' = FALSE
          /\ Refuse("HANDLER_ERROR")
    /\ UNCHANGED <<frame, outcome, ack, event, proto, fileVars, diskVars, history>>

Finishing == /\ Handling("FILE_END") /\ frame.bytes = <<>>
             /\ handler_active /\ fr.state = "RECEIVING" /\ fr.received = fr.expected

DigestEqual == Sha256(hash.bytes) = fr.sha256

\* pd_win32_sha256_finish always releases the context.
FinishVerified ==
    /\ Finishing
    /\ \/ /\ DigestEqual
          /\ fr' = [fr EXCEPT !.integrity_started = FALSE]
          /\ pc' = "flush"
       \/ /\ MayFail("hash")
          /\ pc' = "drop" /\ UNCHANGED fr
    /\ hash' = NoHash
    /\ UNCHANGED <<frame, result, outcome, ack, event, proto, handler_active, sink,
                   diskVars, history>>

FinishMismatch ==
    /\ Finishing /\ ~DigestEqual
    /\ hash' = NoHash
    /\ SinkAbort
    /\ fr' = Released("FAILED")
    /\ handler_active' = FALSE
    /\ Refuse("HANDLER_ERROR")
    /\ UNCHANGED <<frame, outcome, ack, event, proto, history>>

\* Mutated form: the file is renamed without having been flushed.
SinkFlushSkipped ==
    /\ pc = "flush" /\ pc' = "close"
    /\ UNCHANGED <<frame, result, outcome, ack, event, proto, handler_active,
                   fileVars, diskVars, history>>

\* pd_win32_sink_commit: FlushFileBuffers, CloseHandle, MoveFileExW without
\* MOVEFILE_REPLACE_EXISTING.
SinkFlush ==
    /\ pc = "flush"
    /\ \/ dirty' = dirty \ {sink.staging} /\ pc' = "close"
       \/ MayFail("flush") /\ pc' = "drop" /\ UNCHANGED dirty
    /\ UNCHANGED <<frame, result, outcome, ack, event, proto, handler_active,
                   fileVars, files, data, history>>

SinkClose ==
    /\ pc = "close"
    /\ \/ sink' = [sink EXCEPT !.open = FALSE] /\ pc' = "move"
       \/ MayFail("close") /\ pc' = "drop" /\ UNCHANGED sink
    /\ UNCHANGED <<frame, result, outcome, ack, event, proto, handler_active, fr, hash,
                   diskVars, history>>

\* Mutated form: MOVEFILE_REPLACE_EXISTING.
SinkMoveReplacing ==
    /\ pc = "move"
    /\ files' = (files \ {sink.staging}) \cup {sink.final}
    /\ data' = [data EXCEPT ![sink.final] = data[sink.staging],
                            ![sink.staging] = <<>>]
    /\ dirty' = dirty \ {sink.staging, sink.final}
    /\ completed' = {c \in completed : c.path # sink.final}
                    \cup {[path |-> sink.final, size |-> fr.expected,
                           sha256 |-> fr.sha256]}
    /\ fr' = [fr EXCEPT !.sink_started = FALSE, !.state = "COMPLETE"]
    /\ handler_active' = FALSE
    /\ proto' = [state |-> "COMPLETE", file_active |-> FALSE]
    /\ pc' = "ack" /\ result' = "OK"
    /\ UNCHANGED <<frame, outcome, ack, event, sink, hash, before>>

\* The rename takes a file along with what is still cached of it.
SinkMove ==
    /\ pc = "move"
    /\ sink.final \notin files
    /\ files' = (files \ {sink.staging}) \cup {sink.final}
    /\ data' = [data EXCEPT ![sink.final] = data[sink.staging],
                            ![sink.staging] = <<>>]
    /\ dirty' = (dirty \ {sink.staging})
                \cup (IF sink.staging \in dirty THEN {sink.final} ELSE {})
    /\ completed' = completed \cup {[path |-> sink.final, size |-> fr.expected,
                                     sha256 |-> fr.sha256]}
    /\ fr' = [fr EXCEPT !.sink_started = FALSE, !.state = "COMPLETE"]
    /\ handler_active' = FALSE
    /\ proto' = [state |-> "COMPLETE", file_active |-> FALSE]
    /\ pc' = "ack" /\ result' = "OK"
    /\ UNCHANGED <<frame, outcome, ack, event, sink, hash, before>>

\* Mutated forms: the result of the rename is not looked at; the rename is tried
\* again until it works.
SinkMoveUnchecked ==
    /\ pc = "move"
    /\ sink.final \in files \/ MayFail("move")
    /\ fr' = [fr EXCEPT !.sink_started = FALSE, !.state = "COMPLETE"]
    /\ handler_active' = FALSE
    /\ proto' = [state |-> "COMPLETE", file_active |-> FALSE]
    /\ pc' = "ack" /\ result' = "OK"
    /\ UNCHANGED <<frame, outcome, ack, event, sink, hash, diskVars, history>>

SinkMoveRetried == pc = "move" /\ sink.final \in files /\ UNCHANGED vars

SinkMoveFails ==
    /\ pc = "move"
    /\ sink.final \in files \/ MayFail("move")
    /\ pc' = "drop"
    /\ UNCHANGED <<frame, result, outcome, ack, event, proto, handler_active,
                   fileVars, diskVars, history>>

\* pd_file_receiver_fail.
FileReceiverFail ==
    /\ pc = "drop"
    /\ AbortResources
    /\ fr' = Released("FAILED")
    /\ handler_active' = (handler_active /\ frame.type # "FILE_END")
    /\ Refuse("HANDLER_ERROR")
    /\ UNCHANGED <<frame, outcome, ack, event, proto, history>>

\* pd_receiver_protocol_fail.
ProtocolFail ==
    /\ pc = "fail"
    /\ AbortFile
    /\ proto' = FailedProtocol
    /\ pc' = "nack"
    /\ UNCHANGED <<frame, result, outcome, ack, event, history>>

-----------------------------------------------------------------------------
\* pd_receiver_loop_run: answering the frame.

ShouldAck == frame.type \in {"FILE_BEGIN", "CHUNK", "FILE_END"}

\* Mutated form: the protocol's result is sent as it is.
ErrorStatusRaw == result

ErrorStatus == IF result = "HANDLER_ERROR" THEN "STORAGE_ERROR"
               ELSE IF result = "INVALID_METADATA" THEN "REJECTED"
               ELSE "PROTOCOL_ERROR"

Ack(status) == [type |-> frame.type, status |-> status, received |-> fr.received]

\* Whether the refusal could be sent is not looked at.
SendNack ==
    /\ pc = "nack"
    /\ \/ ShouldAck /\ ack' = Ack(ErrorStatus)
       \/ (~ShouldAck \/ MayFail("send")) /\ UNCHANGED ack
    /\ event' = "FAILED" /\ outcome' = "PROTOCOL_ERROR" /\ pc' = "ended"
    /\ UNCHANGED <<frame, result, proto, handler_active, fileVars, diskVars, history>>

SendAck ==
    /\ pc = "ack"
    /\ ack' = Ack("OK")
    /\ \/ frame.type = "FILE_BEGIN" /\ event' = "FILE_STARTED"
       \/ frame.type = "CHUNK"      /\ event' = "PROGRESS"
       \/ frame.type = "FILE_END"   /\ event' = "COMPLETE"
    /\ IF frame.type = "FILE_END" THEN outcome' = "OK" /\ pc' = "ended"
                                  ELSE UNCHANGED outcome /\ pc' = "recv"
    /\ UNCHANGED <<frame, result, proto, handler_active, fileVars, diskVars, history>>

SendAckFails ==
    /\ pc = "ack" /\ MayFail("send")
    /\ ProtocolAbort
    /\ event' = "FAILED" /\ outcome' = "SEND_ERROR" /\ pc' = "ended"
    /\ UNCHANGED <<frame, result, ack, history>>

-----------------------------------------------------------------------------
\* Between sessions.

\* After a delivered file the window starts the next session.
NextSession == pc = "ended" /\ outcome = "OK" /\ StartSession
               /\ UNCHANGED <<diskVars, completed>>

\* The window is closed at any moment; wWinMain returns without waiting for the
\* worker.  Later the program is started again on the same disk.
ProcessExit == StartSession /\ UNCHANGED <<diskVars, completed>>

\* The machine stops: what was still cached of a file may be gone.
PowerLoss ==
    /\ StartSession
    /\ \E lost \in SUBSET dirty :
          data' = [p \in Path |-> IF p \in lost THEN <<>> ELSE data[p]]
    /\ dirty' = {}
    /\ UNCHANGED <<files, completed>>

Worker ==
    \/ Malformed \/ Unexpected
    \/ BeginRefused \/ BeginPrepare \/ SinkBegin \/ SinkBeginFails \/ HashBegin
    \/ ChunkChecked \/ SinkWrite \/ HashUpdate
    \/ FinishRefused \/ FinishVerified \/ FinishMismatch
    \/ SinkFlush \/ SinkClose \/ SinkMove \/ SinkMoveFails
    \/ FileReceiverFail \/ ProtocolFail
    \/ SendNack \/ SendAck \/ SendAckFails

Next == \/ ReceiveFrame \/ ReceiveError \/ Worker
        \/ NextSession \/ ProcessExit \/ PowerLoss

Spec == Init /\ [][Next]_vars
FairSpec == Spec /\ WF_vars(Worker)
-----------------------------------------------------------------------------
\* Properties.

LoopResult == {"OK", "RECEIVE_ERROR", "PROTOCOL_ERROR", "SEND_ERROR"}
ProtocolResult == {"OK", "MALFORMED_FRAME", "UNEXPECTED_MESSAGE",
                   "INVALID_METADATA", "HANDLER_ERROR"}

Step == {"recv", "handle", "create", "hash_begin", "write", "hash_update", "flush",
         "close", "move", "drop", "fail", "nack", "ack", "ended"}
ProtocolType == [state : {"WAIT_FILE", "RECEIVING", "COMPLETE", "FAILED"},
                 file_active : BOOLEAN]
ReceiverType == [state : {"IDLE", "RECEIVING", "COMPLETE", "FAILED", "ABORTED"},
                 expected : Nat, sha256 : Digest \cup {None}, received : Nat,
                 sink_started : BOOLEAN, integrity_started : BOOLEAN]
SinkType == [final : Path \cup {None}, staging : Path \cup {None}, open : BOOLEAN]
HashType == [active : BOOLEAN, bytes : Seq(Byte)]
AckType == [type : MessageType \cup {"NONE"},
            status : {"NONE", "OK", "STORAGE_ERROR", "REJECTED", "PROTOCOL_ERROR"},
            received : Nat]
Delivery == [path : Path, size : Nat, sha256 : Digest \cup {None}]

\* Every variable has the values the code's types allow it.
TypeOK ==
    /\ pc \in Step
    /\ frame \in Frame \cup {None}
    /\ pc \notin {"recv", "ended"} => frame \in Frame
    /\ result \in ProtocolResult
    /\ outcome \in LoopResult \cup {"RUNNING"}
    /\ proto \in ProtocolType
    /\ handler_active \in BOOLEAN
    /\ fr \in ReceiverType
    /\ sink \in SinkType
    /\ hash \in HashType
    /\ ack \in AckType
    /\ event \in Event
    /\ files \subseteq Path
    /\ data \in [Path -> Seq(Byte)]
    /\ dirty \subseteq Path
    /\ completed \subseteq Delivery
    /\ before \subseteq Path

\* What the disk holds at the paths that were renamed to: the abstract state of
\* FileDrop, read from the disk and not from what the program believes.
Box == {[path |-> c.path, size |-> c.size, sha256 |-> c.sha256,
         data |-> data[c.path]] : c \in completed}

Drop == INSTANCE FileDrop WITH box <- Box

\* Every delivered file is whole, has the announced size and digest, and is
\* never changed again, through failing system calls, kills, power losses and
\* repeated job ids (CREATE_NEW, flush before rename, rename without replace).
ImplementsFileDrop == Drop!Spec

\* Every file that was renamed to its final path is on the disk, out of the
\* cache, with the size and the digest its FILE_BEGIN announced.
DeliveredIntact ==
    \A c \in completed : /\ c.path \in files \ dirty
                         /\ Len(data[c.path]) = c.size
                         /\ Sha256(data[c.path]) = c.sha256

\* While the loop waits for more of a file, the bytes it last acknowledged are
\* the bytes of the staging file, and the running digest covers just these
\* (pd_loop_send_ack reports received_bytes after the write and the update).
AcknowledgedIsStaged ==
    pc = "recv" /\ proto.state = "RECEIVING" =>
        /\ sink.staging \in files
        /\ data[sink.staging] = hash.bytes
        /\ ack.status = "OK"
        /\ ack.received = Len(data[sink.staging])

\* The window shows a finished transfer, and the sender is told so, only when
\* the file is in its final place (COMPLETE event, OK for FILE_END).
CompleteMeansDelivered ==
    event = "COMPLETE" \/ (ack.type = "FILE_END" /\ ack.status = "OK") =>
        \E c \in completed : c.path = sink.final /\ c.size = ack.received

\* The loop reports its events in the order the window relies on: only
\* the READY of another session follows COMPLETE or FAILED, and COMPLETE only
\* follows VERIFYING.
EventsInOrder ==
    [][event' \in {event, "READY"} \cup EventAfter(event)]_vars

\* Nothing of this session is left but a delivered file: no staging file, no open
\* handle, no hash context.
HoldsNothing == /\ ~sink.open /\ ~hash.active
                /\ files \ before \subseteq {c.path : c \in completed}

\* The loop was ended by a well-formed FILE_END that came before the last byte:
\* pd_win32_receive_finish got INCOMPLETE.
EarlyEnd == /\ result = "HANDLER_ERROR" /\ frame.type = "FILE_END"
            /\ frame.bytes = <<>> /\ fr.received # fr.expected

\* Once the loop has returned it holds nothing, as long as DeleteFileW works:
\* a lost connection, an answer that cannot be sent, a frame that is malformed,
\* out of place or too long, and a failing system call all release the file.  The
\* one exception is an early FILE_END (see StagingAlwaysRemoved).
ReleasedAtEnd == pc = "ended" /\ ~EarlyEnd /\ ~MayFail("delete") => HoldsNothing

\* docs/architecture.md:119 promises "deterministic cleanup for incomplete
\* transfers": a loop that has returned holds nothing, whatever ended it.
StagingAlwaysRemoved == pc = "ended" => HoldsNothing

\* What makes DeliveredIntact inductive.

\* The step being taken fits the frame and the state of the file receiver, and
\* the staging file of a started sink is there and is nobody's delivered file.
StagingOwned ==
    /\ pc \in {"create", "hash_begin"} =>
          frame.type = "FILE_BEGIN" /\ fr.state = "IDLE" /\ fr.received = 0
    /\ pc \in {"write", "hash_update"} => frame.type = "CHUNK" /\ frame.check = "ok"
    /\ pc \in {"flush", "close", "move"} => frame.type = "FILE_END"
    /\ pc \in {"write", "hash_update", "flush", "close", "move"} => fr.state = "RECEIVING"
    /\ pc \in {"hash_begin", "drop"} \/ fr.state = "RECEIVING" => fr.sink_started
    /\ pc = "create" \/ fr.sink_started =>
          sink.final \in Path /\ sink.staging \in Path /\ sink.staging # sink.final
    /\ fr.sink_started => /\ sink.staging \in files
                          /\ \A c \in completed : c.path # sink.staging
    /\ dirty \subseteq files

\* The staging file holds the bytes that were hashed and counted; once it has been
\* verified it holds the announced file, and once it is flushed it stays so.
StagedBytes ==
    /\ pc = "hash_begin" => data[sink.staging] = <<>>
    /\ fr.state = "RECEIVING" /\ pc \notin {"hash_update", "drop", "flush", "close", "move"}
       => data[sink.staging] = hash.bytes /\ Len(hash.bytes) = fr.received
    /\ pc = "hash_update" => /\ data[sink.staging] = hash.bytes \o frame.bytes
                             /\ Len(hash.bytes) = fr.received
    /\ pc \in {"flush", "close", "move"} =>
          /\ Len(data[sink.staging]) = fr.expected
          /\ Sha256(data[sink.staging]) = fr.sha256
    /\ pc \in {"close", "move"} => sink.staging \notin dirty

PipelineInv == TypeOK /\ StagingOwned /\ StagedBytes /\ DeliveredIntact

\* The worker never stops in the middle of a frame: it comes to an end with it and
\* waits for the next one, or returns (or the process ends).  Whether an answer was
\* sent is AcknowledgedIsStaged's and CompleteMeansDelivered's business.
FrameIsAnswered == pc = "handle" ~> pc \in {"recv", "ended"}
=============================================================================
