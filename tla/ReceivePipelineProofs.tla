----------------------- MODULE ReceivePipelineProofs -----------------------
(***************************************************************************)
(* ReceivePipeline for every value of its constants: any number of job     *)
(* ids and names, any sizes, payloads, digests and failing calls.          *)
(*                                                                         *)
(* The inductive invariant is PipelineInv.  Steps that leave the file and  *)
(* the disk alone are treated once (QuietStep), and so are the ones that   *)
(* release the current file (ReleaseStep) and those that start over        *)
(* (RestartStep).                                                          *)
(***************************************************************************)
EXTENDS ReceivePipeline, TLAPS

-----------------------------------------------------------------------------
\* Facts about frames and records.

\* A frame with a payload carries bytes.
LEMMA FrameBytes ==
  ASSUME NEW f \in Frame, f.type \in {"CHUNK", "FILE_END"}, f.check = "ok"
  PROVE  f.bytes \in Seq(Byte)
  BY DataAssumption DEF Frame, MessageType

\* An accepted FILE_BEGIN carries a size, a digest and a sanitized name.
LEMMA FrameMeta ==
  ASSUME NEW f \in Frame, f.type = "FILE_BEGIN", f.check = "ok"
  PROVE  /\ f.meta.size \in Nat
         /\ f.meta.sha256 \in Digest
         /\ f.meta.name \in Name
  <1>1. f.meta \in Meta
    BY DEF Frame, MessageType
  <1> QED BY <1>1, DataAssumption DEF Meta

\* The kinds of frames pd_receiver_protocol_handle tells apart.
LEMMA FrameKind == \A f \in Frame : /\ f.type \in MessageType
                                    /\ f.check \in {"ok", "metadata", "header"}
                                    /\ f.type \in {"CHUNK", "FILE_END"} => f.check # "metadata"
  BY DEF Frame, MessageType

\* Appending and cutting sequences of bytes.
LEMMA Bytes ==
  ASSUME NEW s \in Seq(Byte), NEW t \in Seq(Byte)
  PROVE  /\ s \o t \in Seq(Byte)
         /\ Len(s \o t) = Len(s) + Len(t)
         /\ Len(t) \in Nat
         /\ SubSeq(t, 1, Len(t)) = t
         /\ \A n \in 0 .. Len(t) : SubSeq(t, 1, n) \in Seq(Byte)
  OBVIOUS

\* Opening and closing the sink keeps its paths.
LEMMA SinkFields ==
  ASSUME sink \in SinkType, NEW b \in BOOLEAN
  PROVE  LET s == [sink EXCEPT !.open = b]
         IN  s \in SinkType /\ s.final = sink.final /\ s.staging = sink.staging
  BY DEF SinkType

\* The fields of pd_file_receiver have their types, and pd_file_receiver_init sets them.
LEMMA ReceiverFields ==
  ASSUME fr \in ReceiverType
  PROVE  /\ fr.expected \in Nat /\ fr.received \in Nat
         /\ fr.sha256 \in Digest \cup {None}
         /\ fr.sink_started \in BOOLEAN
         /\ NoReceiver \in ReceiverType
         /\ NoReceiver.state = "IDLE" /\ NoReceiver.received = 0
         /\ ~NoReceiver.sink_started
  BY DEF ReceiverType, NoReceiver

\* What pd_file_receiver_fail and _abort leave of the file receiver.
LEMMA ReleasedFields ==
  ASSUME fr \in ReceiverType, NEW st \in {"FAILED", "ABORTED"}
  PROVE  /\ Released(st) \in ReceiverType
         /\ Released(st).state = st
         /\ ~Released(st).sink_started
  BY DEF Released, ReceiverType

\* The state pd_receiver_protocol_fail leaves is one of the protocol's.
LEMMA FailedType == FailedProtocol \in ProtocolType
  BY DEF FailedProtocol, ProtocolType

\* A released hash context has its type.
LEMMA EmptyHash == NoHash \in HashType
  BY DEF NoHash, HashType

-----------------------------------------------------------------------------
\* Steps by what they touch.

Quiet == {"recv", "handle", "fail", "nack", "ack", "ended"}

\* A step that leaves the file, the disk and the deliveries as they are.
LEMMA QuietStep ==
  ASSUME PipelineInv, pc \notin {"hash_update", "drop", "flush", "close", "move"},
         pc' \in Quiet,
         UNCHANGED <<fr, sink, hash, files, data, dirty, completed>>
  PROVE  StagingOwned' /\ StagedBytes' /\ DeliveredIntact'
  BY DEF PipelineInv, StagingOwned, StagedBytes, DeliveredIntact, Quiet

\* Closing and deleting the staging file touches no delivered file.
LEMMA SinkAbortStep ==
  ASSUME PipelineInv, fr.sink_started, SinkAbort
  PROVE  /\ sink' \in SinkType
         /\ files' \subseteq Path /\ data' \in [Path -> Seq(Byte)] /\ dirty' \subseteq Path
         /\ dirty' \subseteq files'
         /\ \A c \in completed : /\ c.path \in files' \ dirty'
                                 /\ data'[c.path] = data[c.path]
  <1>1. sink \in SinkType /\ sink.staging \in Path
    BY DEF PipelineInv, TypeOK, StagingOwned
  <1>2. sink' \in SinkType
    BY <1>1, SinkFields DEF SinkAbort
  <1>3. /\ files \subseteq Path /\ data \in [Path -> Seq(Byte)] /\ dirty \subseteq Path
        /\ completed \subseteq Delivery /\ dirty \subseteq files
    BY DEF PipelineInv, TypeOK, StagingOwned
  <1>4. \A c \in completed : c.path # sink.staging /\ c.path \in files \ dirty /\ c.path \in Path
    BY <1>3 DEF PipelineInv, StagingOwned, DeliveredIntact, Delivery
  <1>5. CASE UNCHANGED diskVars
    BY <1>5, <1>2, <1>3, <1>4 DEF diskVars
  <1>6. CASE /\ files' = files \ {sink.staging}
             /\ data' = [data EXCEPT ![sink.staging] = <<>>]
             /\ dirty' = dirty \ {sink.staging}
    BY <1>6, <1>1, <1>2, <1>3, <1>4
  <1> QED BY <1>5, <1>6 DEF SinkAbort

\* The current file is given up: its sink aborted if it was started.
LEMMA ReleaseStep ==
  ASSUME PipelineInv, NEW st \in {"FAILED", "ABORTED"}, fr' = Released(st),
         IF fr.sink_started THEN SinkAbort ELSE UNCHANGED <<sink, diskVars>>,
         pc' \in Quiet, UNCHANGED completed
  PROVE  /\ StagingOwned' /\ StagedBytes' /\ DeliveredIntact'
         /\ fr' \in ReceiverType /\ sink' \in SinkType
         /\ files' \subseteq Path /\ data' \in [Path -> Seq(Byte)] /\ dirty' \subseteq Path
  <1>1. fr' \in ReceiverType /\ fr'.state = st /\ ~fr'.sink_started
    BY ReleasedFields DEF PipelineInv, TypeOK
  <1>2. (dirty \subseteq files)' => StagingOwned' /\ StagedBytes'
    BY <1>1 DEF StagingOwned, StagedBytes, Quiet
  <1>3. CASE fr.sink_started
    BY <1>1, <1>2, <1>3, SinkAbortStep DEF PipelineInv, DeliveredIntact
  <1>4. CASE ~fr.sink_started
    BY <1>1, <1>2, <1>4 DEF PipelineInv, TypeOK, StagingOwned, DeliveredIntact, diskVars
  <1> QED BY <1>3, <1>4

\* pd_receiver_protocol_abort and pd_receiver_protocol_fail end in the abort_file
\* callback, which releases the file or does nothing.
LEMMA AbortStep ==
  ASSUME PipelineInv, pc \in {"recv", "fail", "ack"}, pc' \in Quiet, UNCHANGED completed,
         AbortFile \/ UNCHANGED <<fileVars, diskVars, handler_active>>
  PROVE  /\ StagingOwned' /\ StagedBytes' /\ DeliveredIntact'
         /\ fr' \in ReceiverType /\ sink' \in SinkType /\ hash' \in HashType
         /\ files' \subseteq Path /\ data' \in [Path -> Seq(Byte)] /\ dirty' \subseteq Path
         /\ handler_active' \in BOOLEAN
  <1>1. CASE UNCHANGED <<fileVars, diskVars, handler_active>>
    BY <1>1, QuietStep DEF PipelineInv, TypeOK, fileVars, diskVars
  <1>2. CASE proto.file_active /\ HandlerAbort /\ handler_active /\ fr.state = "RECEIVING"
    <2>1. AbortResources /\ fr' = Released("ABORTED") /\ handler_active' = FALSE
      BY <1>2 DEF HandlerAbort, FileReceiverAbort
    <2>2. hash' \in HashType
      BY <2>1, EmptyHash DEF AbortResources, PipelineInv, TypeOK
    <2> QED BY <2>1, <2>2, ReleaseStep DEF AbortResources
  <1>3. CASE proto.file_active /\ HandlerAbort /\ ~(handler_active /\ fr.state = "RECEIVING")
    <2>1. UNCHANGED <<fileVars, diskVars>> /\ handler_active' = FALSE
      BY <1>3 DEF HandlerAbort, FileReceiverAbort, PipelineInv, TypeOK
    <2> QED BY <2>1, QuietStep DEF PipelineInv, TypeOK, fileVars, diskVars
  <1> QED BY <1>1, <1>2, <1>3 DEF AbortFile

\* A new session holds nothing; the disk keeps what was delivered.
LEMMA RestartStep ==
  ASSUME PipelineInv, StartSession, UNCHANGED <<files, completed>>,
         dirty' \subseteq dirty,
         \/ UNCHANGED data
         \/ \E lost \in SUBSET dirty :
               data' = [p \in Path |-> IF p \in lost THEN <<>> ELSE data[p]]
  PROVE  PipelineInv'
  <1>1. /\ files \subseteq Path /\ data \in [Path -> Seq(Byte)] /\ dirty \subseteq Path
        /\ completed \subseteq Delivery /\ fr \in ReceiverType /\ dirty \subseteq files
    BY DEF PipelineInv, TypeOK, StagingOwned
  <1>2. /\ data' \in [Path -> Seq(Byte)]
        /\ \A p \in Path : p \notin dirty => data'[p] = data[p]
    <2>1. CASE UNCHANGED data
      BY <1>1, <2>1
    <2>2. ASSUME NEW lost \in SUBSET dirty,
                 data' = [p \in Path |-> IF p \in lost THEN <<>> ELSE data[p]]
          PROVE  /\ data' \in [Path -> Seq(Byte)]
                 /\ \A p \in Path : p \notin dirty => data'[p] = data[p]
      <3>1. <<>> \in Seq(Byte)
        OBVIOUS
      <3>2. \A p \in Path : /\ data'[p] \in Seq(Byte)
                            /\ p \notin dirty => data'[p] = data[p]
        BY <1>1, <2>2, <3>1
      <3>3. data' = [p \in Path |-> data'[p]]
        BY <2>2
      <3> QED BY <3>2, <3>3
    <2> QED BY <2>1, <2>2
  <1>3. fr' = NoReceiver /\ fr' \in ReceiverType
    BY <1>1, ReceiverFields DEF StartSession
  <1>4. sink' \in SinkType /\ ack' \in AckType /\ proto' \in ProtocolType /\ hash' \in HashType
    BY EmptyHash DEF StartSession, NoSink, SinkType, NoAck, AckType, ProtocolType
  <1>5. TypeOK'
    BY <1>1, <1>2, <1>3, <1>4
       DEF TypeOK, StartSession, Step, ProtocolResult, Event
  <1>6. StagingOwned' /\ StagedBytes'
    BY <1>1, <1>3, ReceiverFields DEF StartSession, StagingOwned, StagedBytes
  <1>7. DeliveredIntact'
    BY <1>1, <1>2 DEF PipelineInv, DeliveredIntact, Delivery
  <1> QED BY <1>5, <1>6, <1>7 DEF PipelineInv

-----------------------------------------------------------------------------
\* The steps of the loop.

\* pd_receiver_loop_run: receiving, answering and starting over keep the invariant.
LEMMA LoopSteps ==
  ASSUME PipelineInv
  PROVE  /\ ReceiveFrame => PipelineInv'
         /\ ReceiveError => PipelineInv'
         /\ SendNack => PipelineInv'
         /\ SendAck => PipelineInv'
         /\ SendAckFails => PipelineInv'
         /\ ProtocolFail => PipelineInv'
  <1> USE DEF loopVars, fileVars, diskVars, history
  <1>0. TypeOK
    BY DEF PipelineInv
  <1>1. ASSUME ReceiveFrame PROVE PipelineInv'
    <2>1. TypeOK'
      BY <1>0, <1>1 DEF TypeOK, ReceiveFrame, Step, Event
    <2> QED BY <1>1, <2>1, QuietStep DEF PipelineInv, ReceiveFrame, Quiet
  <1>2. ASSUME ReceiveError PROVE PipelineInv'
    <2>1. AbortFile \/ UNCHANGED <<fileVars, diskVars, handler_active>>
      BY <1>2 DEF ReceiveError, ProtocolAbort
    <2>2. /\ StagingOwned' /\ StagedBytes' /\ DeliveredIntact'
          /\ fr' \in ReceiverType /\ sink' \in SinkType /\ hash' \in HashType
          /\ files' \subseteq Path /\ data' \in [Path -> Seq(Byte)] /\ dirty' \subseteq Path
          /\ handler_active' \in BOOLEAN
      BY <1>2, <2>1, AbortStep DEF ReceiveError, Quiet
    <2>3. proto' \in ProtocolType
      <3>1. proto' = proto \/ proto' = FailedProtocol
        BY <1>2 DEF ReceiveError, ProtocolAbort
      <3> QED BY <1>0, <3>1, FailedType DEF TypeOK
    <2>4. TypeOK'
      BY <1>0, <1>2, <2>2, <2>3 DEF TypeOK, ReceiveError, Step, Event, LoopResult
    <2> QED BY <2>2, <2>4 DEF PipelineInv
  <1>3. ASSUME SendNack PROVE PipelineInv'
    <2>1. Ack(ErrorStatus) \in AckType
      BY <1>0, <1>3, FrameKind, ReceiverFields DEF TypeOK, SendNack, Ack, AckType, ErrorStatus
    <2>2. TypeOK'
      BY <1>0, <1>3, <2>1 DEF TypeOK, SendNack, Step, Event, LoopResult
    <2> QED BY <1>3, <2>2, QuietStep DEF PipelineInv, SendNack, Quiet
  <1>4. ASSUME SendAck PROVE PipelineInv'
    <2>1. Ack("OK") \in AckType
      BY <1>0, <1>4, FrameKind, ReceiverFields DEF TypeOK, SendAck, Ack, AckType
    <2>2. TypeOK'
      BY <1>0, <1>4, <2>1 DEF TypeOK, SendAck, Step, Event, LoopResult
    <2> QED BY <1>4, <2>2, QuietStep DEF PipelineInv, SendAck, Quiet
  <1>5. ASSUME SendAckFails PROVE PipelineInv'
    <2>1. AbortFile \/ UNCHANGED <<fileVars, diskVars, handler_active>>
      BY <1>5 DEF SendAckFails, ProtocolAbort
    <2>2. /\ StagingOwned' /\ StagedBytes' /\ DeliveredIntact'
          /\ fr' \in ReceiverType /\ sink' \in SinkType /\ hash' \in HashType
          /\ files' \subseteq Path /\ data' \in [Path -> Seq(Byte)] /\ dirty' \subseteq Path
          /\ handler_active' \in BOOLEAN
      BY <1>5, <2>1, AbortStep DEF SendAckFails, Quiet
    <2>3. proto' \in ProtocolType
      <3>1. proto' = proto \/ proto' = FailedProtocol
        BY <1>5 DEF SendAckFails, ProtocolAbort
      <3> QED BY <1>0, <3>1, FailedType DEF TypeOK
    <2>4. TypeOK'
      BY <1>0, <1>5, <2>2, <2>3 DEF TypeOK, SendAckFails, Step, Event, LoopResult
    <2> QED BY <2>2, <2>4 DEF PipelineInv
  <1>6. ASSUME ProtocolFail PROVE PipelineInv'
    <2>2. /\ StagingOwned' /\ StagedBytes' /\ DeliveredIntact'
          /\ fr' \in ReceiverType /\ sink' \in SinkType /\ hash' \in HashType
          /\ files' \subseteq Path /\ data' \in [Path -> Seq(Byte)] /\ dirty' \subseteq Path
          /\ handler_active' \in BOOLEAN
      BY <1>6, AbortStep DEF ProtocolFail, Quiet
    <2>4. TypeOK'
      BY <1>0, <1>6, <2>2 DEF TypeOK, ProtocolFail, Step, FailedProtocol, ProtocolType
    <2> QED BY <2>2, <2>4 DEF PipelineInv
  <1> QED BY <1>1, <1>2, <1>3, <1>4, <1>5, <1>6
-----------------------------------------------------------------------------
\* The steps that refuse a frame without touching a file.

\* Refusing a frame keeps the invariant.
LEMMA RefusalSteps ==
  ASSUME PipelineInv
  PROVE  /\ Malformed => PipelineInv'
         /\ Unexpected => PipelineInv'
         /\ BeginRefused => PipelineInv'
         /\ FinishRefused => PipelineInv'
         /\ ChunkChecked => PipelineInv'
  <1> USE DEF loopVars, fileVars, diskVars, history
  <1>0. TypeOK
    BY DEF PipelineInv
  <1>1. ASSUME Malformed PROVE PipelineInv'
    <2>1. TypeOK'
      BY <1>0, <1>1 DEF TypeOK, Malformed, Refuse, Step, ProtocolResult
    <2> QED BY <1>1, <2>1, QuietStep DEF PipelineInv, Malformed, Refuse, Quiet
  <1>2. ASSUME Unexpected PROVE PipelineInv'
    <2>1. TypeOK'
      BY <1>0, <1>2 DEF TypeOK, Unexpected, Refuse, Step, ProtocolResult
    <2> QED BY <1>2, <2>1, QuietStep DEF PipelineInv, Unexpected, Refuse, Quiet
  <1>3. ASSUME BeginRefused PROVE PipelineInv'
    <2>1. TypeOK'
      BY <1>0, <1>3 DEF TypeOK, BeginRefused, Handling, Refuse, Step, ProtocolResult
    <2> QED BY <1>3, <2>1, QuietStep DEF PipelineInv, BeginRefused, Handling, Refuse, Quiet
  <1>4. ASSUME FinishRefused PROVE PipelineInv'
    <2>1. TypeOK'
      BY <1>0, <1>4 DEF TypeOK, FinishRefused, Handling, Refuse, Step, ProtocolResult
    <2> QED BY <1>4, <2>1, QuietStep DEF PipelineInv, FinishRefused, Handling, Refuse, Quiet
  <1>5. ASSUME ChunkChecked PROVE PipelineInv'
    <2>1. TypeOK'
      BY <1>0, <1>5 DEF TypeOK, ChunkChecked, Handling, Refuse, Step, ProtocolResult
    <2>2. CASE pc' = "fail"
      BY <1>5, <2>1, <2>2, QuietStep DEF PipelineInv, ChunkChecked, Handling, Quiet
    <2>3. CASE pc' = "write"
      <3>1. frame.type = "CHUNK" /\ frame.check = "ok" /\ fr.state = "RECEIVING"
        BY <1>0, <1>5, <2>3, FrameKind
           DEF ChunkChecked, Handling, HeaderValid, ChunkFits, Refuse, TypeOK
      <3>2. StagingOwned'
        BY <1>5, <2>3, <3>1 DEF PipelineInv, StagingOwned, ChunkChecked, Handling
      <3>3. StagedBytes' /\ DeliveredIntact'
        BY <1>5, <2>3, <3>1 DEF PipelineInv, StagedBytes, DeliveredIntact, ChunkChecked, Handling
      <3> QED BY <2>1, <3>2, <3>3 DEF PipelineInv
    <2> QED BY <1>5, <2>2, <2>3 DEF ChunkChecked, Refuse
  <1> QED BY <1>1, <1>2, <1>3, <1>4, <1>5

-----------------------------------------------------------------------------
\* The steps that begin a file.

\* pd_win32_receive_begin and what it calls keep the invariant.
LEMMA BeginSteps ==
  ASSUME PipelineInv
  PROVE  /\ BeginPrepare => PipelineInv'
         /\ SinkBegin => PipelineInv'
         /\ SinkBeginFails => PipelineInv'
         /\ HashBegin => PipelineInv'
  <1> USE DEF loopVars, fileVars, diskVars, history
  <1>0. TypeOK /\ fr \in ReceiverType /\ sink \in SinkType
    BY DEF PipelineInv, TypeOK
  <1>1. ASSUME BeginPrepare PROVE PipelineInv'
    <2>1. CASE Refuse("HANDLER_ERROR") /\ UNCHANGED fileVars
      <3>1. TypeOK'
        BY <1>0, <1>1, <2>1 DEF TypeOK, BeginPrepare, Handling, Refuse, Step, ProtocolResult
      <3> QED BY <1>1, <2>1, <3>1, QuietStep
              DEF PipelineInv, BeginPrepare, Handling, Refuse, Quiet
    <2>2. ASSUME NEW j \in JobId, pc' = "create",
                 sink' = [final |-> <<j, frame.meta.name>>,
                          staging |-> <<j, Part[frame.meta.name]>>, open |-> FALSE],
                 hash' = NoHash,
                 fr' = [NoReceiver EXCEPT !.expected = frame.meta.size,
                                          !.sha256 = frame.meta.sha256],
                 UNCHANGED result
          PROVE  PipelineInv'
      <3> DEFINE m == frame.meta
      <3>1. frame.type = "FILE_BEGIN" /\ frame \in Frame
            /\ m.size \in Nat /\ m.sha256 \in Digest /\ m.name \in Name
        BY <1>0, <1>1, FrameMeta DEF BeginPrepare, Handling, TypeOK
      <3>2. <<j, m.name>> \in Path /\ <<j, Part[m.name]>> \in Path
            /\ <<j, Part[m.name]>> # <<j, m.name>>
        BY <3>1, PathAssumption DEF Path
      <3>3. /\ fr' \in ReceiverType /\ fr'.state = "IDLE" /\ fr'.received = 0
            /\ ~fr'.sink_started
        BY <2>2, <3>1 DEF NoReceiver, ReceiverType
      <3>4. sink' \in SinkType /\ sink'.final \in Path /\ sink'.staging \in Path
            /\ sink'.staging # sink'.final
        BY <2>2, <3>2 DEF SinkType
      <3>5. TypeOK'
        BY <1>0, <1>1, <2>2, <3>3, <3>4, EmptyHash
           DEF TypeOK, BeginPrepare, Handling, Step, Path
      <3>6. frame' = frame /\ completed' = completed /\ UNCHANGED <<files, data, dirty>>
        BY <1>1 DEF BeginPrepare
      <3>7. StagingOwned'
        BY <2>2, <3>1, <3>3, <3>4, <3>6 DEF PipelineInv, StagingOwned
      <3>8. StagedBytes' /\ DeliveredIntact'
        BY <2>2, <3>3, <3>6 DEF PipelineInv, StagedBytes, DeliveredIntact
      <3> QED BY <3>5, <3>7, <3>8 DEF PipelineInv
    <2> QED BY <1>1, <2>1, <2>2 DEF BeginPrepare
  <1>2. ASSUME SinkBegin PROVE PipelineInv'
    <2>1. /\ pc = "create" /\ frame.type = "FILE_BEGIN" /\ fr.state = "IDLE" /\ fr.received = 0
          /\ sink.final \in Path /\ sink.staging \in Path /\ sink.staging # sink.final
      BY <1>2 DEF PipelineInv, StagingOwned, SinkBegin
    <2>2. /\ fr' \in ReceiverType /\ fr'.state = "IDLE" /\ fr'.received = 0 /\ fr'.sink_started
      BY <1>0, <1>2, <2>1 DEF SinkBegin, ReceiverType
    <2>3. sink' \in SinkType /\ sink'.final = sink.final /\ sink'.staging = sink.staging
      BY <1>0, <1>2, SinkFields DEF SinkBegin
    <2>4. /\ data' \in [Path -> Seq(Byte)] /\ data'[sink.staging] = <<>>
          /\ \A p \in Path : p # sink.staging => data'[p] = data[p]
      BY <1>0, <1>2, <2>1 DEF SinkBegin, TypeOK
    <2>5. TypeOK'
      BY <1>0, <1>2, <2>1, <2>2, <2>3, <2>4 DEF TypeOK, SinkBegin, Step
    <2>6. \A c \in completed : c.path \in files /\ c.path \notin dirty /\ c.path # sink.staging
                               /\ c.path \in Path
      BY <1>0, <1>2 DEF PipelineInv, TypeOK, DeliveredIntact, SinkBegin
    <2>7. StagingOwned'
      BY <1>2, <2>1, <2>2, <2>3, <2>6 DEF PipelineInv, StagingOwned, SinkBegin
    <2>8. StagedBytes'
      BY <1>2, <2>2, <2>3, <2>4 DEF StagedBytes, SinkBegin
    <2>9. DeliveredIntact'
      BY <1>2, <2>4, <2>6 DEF PipelineInv, DeliveredIntact, SinkBegin
    <2> QED BY <2>5, <2>7, <2>8, <2>9 DEF PipelineInv
  <1>3. ASSUME SinkBeginFails PROVE PipelineInv'
    <2>1. /\ fr' \in ReceiverType /\ fr'.state = "FAILED"
          /\ fr'.sink_started = fr.sink_started
      BY <1>0, <1>3 DEF SinkBeginFails, ReceiverType
    <2>2. TypeOK'
      BY <1>0, <1>3, <2>1 DEF TypeOK, SinkBeginFails, Refuse, Step, ProtocolResult
    <2>3. StagingOwned'
      BY <1>3, <2>1 DEF PipelineInv, StagingOwned, SinkBeginFails, Refuse
    <2>4. StagedBytes' /\ DeliveredIntact'
      BY <1>3, <2>1 DEF PipelineInv, StagedBytes, DeliveredIntact, SinkBeginFails, Refuse
    <2> QED BY <2>2, <2>3, <2>4 DEF PipelineInv
  <1>4. ASSUME HashBegin PROVE PipelineInv'
    <2>0. fr.sink_started /\ fr.received = 0 /\ data[sink.staging] = <<>> /\ pc = "hash_begin"
          /\ UNCHANGED <<sink, files, data, dirty, completed, frame>>
      BY <1>4 DEF PipelineInv, StagingOwned, StagedBytes, HashBegin
    <2>1. CASE pc' = "drop" /\ UNCHANGED <<hash, fr, handler_active, proto, result>>
      <3>1. TypeOK'
        BY <1>0, <1>4, <2>1 DEF TypeOK, HashBegin, Step
      <3>2. StagingOwned'
        BY <2>0, <2>1 DEF PipelineInv, StagingOwned
      <3>3. StagedBytes' /\ DeliveredIntact'
        BY <2>0, <2>1 DEF PipelineInv, StagedBytes, DeliveredIntact
      <3> QED BY <3>1, <3>2, <3>3 DEF PipelineInv
    <2>2. CASE /\ hash' = [active |-> TRUE, bytes |-> <<>>]
               /\ fr' = [fr EXCEPT !.integrity_started = TRUE, !.state = "RECEIVING"]
               /\ handler_active' = TRUE
               /\ proto' = [state |-> "RECEIVING", file_active |-> TRUE]
               /\ pc' = "ack" /\ result' = "OK"
      <3>1. /\ fr' \in ReceiverType /\ fr'.state = "RECEIVING" /\ fr'.received = 0
            /\ fr'.sink_started
        BY <1>0, <2>0, <2>2 DEF ReceiverType
      <3>2. hash' \in HashType /\ hash'.bytes = <<>> /\ proto' \in ProtocolType
        BY <2>2 DEF HashType, ProtocolType
      <3>3. TypeOK'
        BY <1>0, <1>4, <2>2, <3>1, <3>2 DEF TypeOK, HashBegin, Step, ProtocolResult
      <3>4. StagingOwned'
        BY <2>0, <2>2, <3>1 DEF PipelineInv, StagingOwned
      <3>5. Len(<<>>) = 0
        OBVIOUS
      <3>6. StagedBytes' /\ DeliveredIntact'
        BY <2>0, <2>2, <3>1, <3>2, <3>5 DEF PipelineInv, StagedBytes, DeliveredIntact
      <3> QED BY <3>3, <3>4, <3>6 DEF PipelineInv
    <2> QED BY <1>4, <2>1, <2>2 DEF HashBegin
  <1> QED BY <1>1, <1>2, <1>3, <1>4
-----------------------------------------------------------------------------
\* The steps that add to a file.

\* pd_file_receiver_write and what it calls keep the invariant.
LEMMA ChunkSteps ==
  ASSUME PipelineInv
  PROVE  /\ SinkWrite => PipelineInv'
         /\ HashUpdate => PipelineInv'
  <1> USE DEF loopVars, fileVars, diskVars, history
  <1>0. /\ TypeOK /\ fr \in ReceiverType /\ hash.bytes \in Seq(Byte)
        /\ data \in [Path -> Seq(Byte)] /\ completed \subseteq Delivery
    BY DEF PipelineInv, TypeOK, HashType
  <1>1. ASSUME SinkWrite PROVE PipelineInv'
    <2>1. /\ pc = "write" /\ fr.state = "RECEIVING" /\ fr.sink_started
          /\ frame.type = "CHUNK" /\ frame.check = "ok"
          /\ sink.staging \in Path /\ sink.staging \in files
      BY <1>1 DEF PipelineInv, StagingOwned, SinkWrite
    <2>2. frame.bytes \in Seq(Byte)
      BY <1>0, <2>1, FrameBytes DEF TypeOK
    <2>3. PICK n \in 0 .. Len(frame.bytes) :
             /\ data' = [data EXCEPT ![sink.staging] = @ \o SubSeq(frame.bytes, 1, n)]
             /\ IF n = Len(frame.bytes) THEN pc' = "hash_update"
                                        ELSE MayFail("write") /\ pc' = "drop"
      BY <1>1 DEF SinkWrite
    <2> DEFINE t == SubSeq(frame.bytes, 1, n)
    <2>4. t \in Seq(Byte) /\ (n = Len(frame.bytes) => t = frame.bytes)
      BY <2>2, <2>3, Bytes
    <2>5. data[sink.staging] \o t \in Seq(Byte)
      BY <1>0, <2>1, <2>4, Bytes
    <2> HIDE DEF t
    <2>6. /\ data' \in [Path -> Seq(Byte)] /\ data'[sink.staging] = data[sink.staging] \o t
          /\ \A p \in Path : p # sink.staging => data'[p] = data[p]
      <3>1. data' = [data EXCEPT ![sink.staging] = @ \o t]
        BY <2>3 DEF t
      <3> QED BY <1>0, <2>1, <2>5, <3>1
    <2>7. TypeOK'
      BY <1>0, <1>1, <2>1, <2>3, <2>6 DEF TypeOK, SinkWrite, Step
    <2>8. UNCHANGED <<fr, sink, hash, frame, completed, files>>
          /\ dirty' = dirty \cup {sink.staging} /\ pc' \in {"hash_update", "drop"}
      BY <1>1, <2>3 DEF SinkWrite
    <2>9. StagingOwned'
      BY <2>1, <2>8 DEF PipelineInv, StagingOwned
    <2>10. StagedBytes'
      <3>1. CASE pc' = "drop"
        BY <2>1, <2>8, <3>1 DEF StagedBytes
      <3>2. CASE pc' = "hash_update"
        <4>1. data'[sink.staging] = data[sink.staging] \o frame.bytes
          BY <2>3, <2>4, <2>6, <3>2
        <4>2. data[sink.staging] = hash.bytes /\ Len(hash.bytes) = fr.received
          BY <2>1 DEF PipelineInv, StagedBytes
        <4> QED BY <2>1, <2>8, <3>2, <4>1, <4>2 DEF StagedBytes
      <3> QED BY <2>8, <3>1, <3>2
    <2>11. DeliveredIntact'
      <3>1. \A c \in completed : c.path \in Path /\ c.path # sink.staging
        BY <1>0, <2>1 DEF PipelineInv, StagingOwned, Delivery
      <3> QED BY <2>6, <2>8, <3>1 DEF PipelineInv, DeliveredIntact
    <2> QED BY <2>7, <2>9, <2>10, <2>11 DEF PipelineInv
  <1>2. ASSUME HashUpdate PROVE PipelineInv'
    <2>1. /\ pc = "hash_update" /\ fr.state = "RECEIVING" /\ fr.sink_started
          /\ frame.type = "CHUNK" /\ frame.check = "ok"
          /\ data[sink.staging] = hash.bytes \o frame.bytes
          /\ Len(hash.bytes) = fr.received
          /\ UNCHANGED <<frame, sink, files, data, dirty, completed>>
      BY <1>2 DEF PipelineInv, StagingOwned, StagedBytes, HashUpdate
    <2>2. frame.bytes \in Seq(Byte)
      BY <1>0, <2>1, FrameBytes DEF TypeOK
    <2>3. CASE pc' = "drop" /\ UNCHANGED <<hash, fr, result>>
      <3>1. TypeOK'
        BY <1>0, <1>2, <2>3 DEF TypeOK, HashUpdate, Step
      <3>2. StagingOwned'
        BY <2>1, <2>3 DEF PipelineInv, StagingOwned
      <3>3. StagedBytes' /\ DeliveredIntact'
        BY <2>1, <2>3 DEF PipelineInv, StagedBytes, DeliveredIntact
      <3> QED BY <3>1, <3>2, <3>3 DEF PipelineInv
    <2>4. CASE /\ hash' = [active |-> TRUE, bytes |-> hash.bytes \o frame.bytes]
               /\ fr' = [fr EXCEPT !.received = @ + Len(frame.bytes)]
               /\ pc' = "ack" /\ result' = "OK"
      <3> DEFINE n == fr.received + Len(frame.bytes)
                 b == hash.bytes \o frame.bytes
      <3>1. n \in Nat /\ b \in Seq(Byte) /\ Len(b) = n
        <4>1. /\ hash.bytes \o frame.bytes \in Seq(Byte)
              /\ Len(hash.bytes \o frame.bytes) = Len(hash.bytes) + Len(frame.bytes)
              /\ Len(frame.bytes) \in Nat
          BY <1>0, <2>2, Bytes
        <4>2. fr.received \in Nat /\ Len(hash.bytes) = fr.received
          BY <1>0, <2>1, ReceiverFields
        <4> QED BY <4>1, <4>2
      <3>2. fr' = [fr EXCEPT !.received = n] /\ hash' = [active |-> TRUE, bytes |-> b]
        BY <2>4
      <3>3. data[sink.staging] = b
        BY <2>1
      <3> HIDE DEF n, b
      <3>4. /\ fr' \in ReceiverType /\ fr'.received = n /\ fr'.state = fr.state
            /\ fr'.sink_started = fr.sink_started
        BY <1>0, <3>1, <3>2 DEF ReceiverType
      <3>5. hash' \in HashType /\ hash'.bytes = b
        BY <3>1, <3>2 DEF HashType
      <3>6. TypeOK'
        BY <1>0, <1>2, <2>4, <3>4, <3>5 DEF TypeOK, HashUpdate, Step, ProtocolResult
      <3>7. StagingOwned'
        BY <2>1, <2>4, <3>4 DEF PipelineInv, StagingOwned
      <3>8. StagedBytes' /\ DeliveredIntact'
        BY <2>1, <2>4, <3>1, <3>3, <3>4, <3>5 DEF PipelineInv, StagedBytes, DeliveredIntact
      <3> QED BY <3>6, <3>7, <3>8 DEF PipelineInv
    <2> QED BY <1>2, <2>3, <2>4 DEF HashUpdate
  <1> QED BY <1>1, <1>2

-----------------------------------------------------------------------------
\* The steps that finish a file.

\* pd_file_receiver_finish, the commit and the failure paths keep the invariant.
LEMMA FinishSteps ==
  ASSUME PipelineInv
  PROVE  /\ FinishVerified => PipelineInv'
         /\ FinishMismatch => PipelineInv'
         /\ SinkFlush => PipelineInv'
         /\ SinkClose => PipelineInv'
         /\ SinkMove => PipelineInv'
         /\ SinkMoveFails => PipelineInv'
         /\ FileReceiverFail => PipelineInv'
  <1> USE DEF loopVars, fileVars, diskVars, history
  <1>0. /\ TypeOK /\ fr \in ReceiverType /\ sink \in SinkType
        /\ data \in [Path -> Seq(Byte)] /\ completed \subseteq Delivery
    BY DEF PipelineInv, TypeOK
  <1>1. ASSUME FinishVerified PROVE PipelineInv'
    <2>1. /\ pc = "handle" /\ frame.type = "FILE_END" /\ fr.state = "RECEIVING"
          /\ fr.received = fr.expected /\ fr.sink_started
          /\ data[sink.staging] = hash.bytes /\ Len(hash.bytes) = fr.received
          /\ hash' = NoHash /\ UNCHANGED <<frame, sink, files, data, dirty, completed>>
      BY <1>1 DEF PipelineInv, StagingOwned, StagedBytes, FinishVerified, Finishing, Handling
    <2>2. CASE pc' = "drop" /\ UNCHANGED fr
      <3>1. TypeOK'
        BY <1>0, <1>1, <2>1, <2>2, EmptyHash DEF TypeOK, FinishVerified, Step
      <3>2. StagingOwned'
        BY <2>1, <2>2 DEF PipelineInv, StagingOwned
      <3>3. StagedBytes' /\ DeliveredIntact'
        BY <2>1, <2>2 DEF PipelineInv, StagedBytes, DeliveredIntact
      <3> QED BY <3>1, <3>2, <3>3 DEF PipelineInv
    <2>3. CASE /\ DigestEqual /\ pc' = "flush"
               /\ fr' = [fr EXCEPT !.integrity_started = FALSE]
      <3>1. /\ fr' \in ReceiverType /\ fr'.state = "RECEIVING" /\ fr'.sink_started
            /\ fr'.expected = fr.expected /\ fr'.sha256 = fr.sha256
        BY <1>0, <2>1, <2>3 DEF ReceiverType
      <3>2. TypeOK'
        BY <1>0, <1>1, <2>1, <2>3, <3>1, EmptyHash DEF TypeOK, FinishVerified, Step
      <3>3. StagingOwned'
        BY <2>1, <2>3, <3>1 DEF PipelineInv, StagingOwned
      <3>4. StagedBytes' /\ DeliveredIntact'
        BY <2>1, <2>3, <3>1 DEF PipelineInv, StagedBytes, DeliveredIntact, DigestEqual
      <3> QED BY <3>2, <3>3, <3>4 DEF PipelineInv
    <2> QED BY <1>1, <2>2, <2>3 DEF FinishVerified
  <1>2. ASSUME FinishMismatch PROVE PipelineInv'
    <2>1. fr.sink_started /\ SinkAbort /\ fr' = Released("FAILED") /\ pc' = "fail"
          /\ hash' = NoHash /\ UNCHANGED <<frame, completed>> /\ frame \in Frame
      BY <1>0, <1>2 DEF FinishMismatch, Refuse, Finishing, Handling, PipelineInv, StagingOwned,
                        TypeOK
    <2>2. /\ StagingOwned' /\ StagedBytes' /\ DeliveredIntact'
          /\ fr' \in ReceiverType /\ sink' \in SinkType
          /\ files' \subseteq Path /\ data' \in [Path -> Seq(Byte)] /\ dirty' \subseteq Path
      BY <2>1, ReleaseStep DEF Quiet
    <2>3. TypeOK'
      BY <1>0, <1>2, <2>1, <2>2, EmptyHash
         DEF TypeOK, FinishMismatch, Refuse, Step, ProtocolResult
    <2> QED BY <2>2, <2>3 DEF PipelineInv
  <1>3. ASSUME SinkFlush PROVE PipelineInv'
    <2>1. TypeOK'
      BY <1>0, <1>3 DEF TypeOK, SinkFlush, Step
    <2>2. StagingOwned'
      BY <1>3 DEF PipelineInv, StagingOwned, SinkFlush
    <2>3. StagedBytes' /\ DeliveredIntact'
      BY <1>3 DEF PipelineInv, StagedBytes, DeliveredIntact, SinkFlush
    <2> QED BY <2>1, <2>2, <2>3 DEF PipelineInv
  <1>4. ASSUME SinkClose PROVE PipelineInv'
    <2>1. sink' \in SinkType /\ sink'.final = sink.final /\ sink'.staging = sink.staging
      BY <1>0, <1>4, SinkFields DEF SinkClose
    <2>2. TypeOK'
      BY <1>0, <1>4, <2>1 DEF TypeOK, SinkClose, Step
    <2>3. StagingOwned'
      BY <1>4, <2>1 DEF PipelineInv, StagingOwned, SinkClose
    <2>4. StagedBytes' /\ DeliveredIntact'
      BY <1>4, <2>1 DEF PipelineInv, StagedBytes, DeliveredIntact, SinkClose
    <2> QED BY <2>2, <2>3, <2>4 DEF PipelineInv
  <1>5. ASSUME SinkMove PROVE PipelineInv'
    <2>1. /\ pc = "move" /\ sink.final \in Path /\ sink.staging \in Path
          /\ sink.staging # sink.final /\ sink.staging \notin dirty
          /\ Len(data[sink.staging]) = fr.expected
          /\ Sha256(data[sink.staging]) = fr.sha256
          /\ \A c \in completed : /\ c.path \in Path /\ c.path \in files /\ c.path \notin dirty
                                  /\ c.path # sink.staging /\ c.path # sink.final
      BY <1>0, <1>5 DEF PipelineInv, StagingOwned, StagedBytes, DeliveredIntact, SinkMove,
                        Delivery
    <2>2. /\ fr' \in ReceiverType /\ fr'.state = "COMPLETE" /\ ~fr'.sink_started
      BY <1>0, <1>5 DEF SinkMove, ReceiverType
    <2>3. /\ data' \in [Path -> Seq(Byte)]
          /\ data'[sink.final] = data[sink.staging]
          /\ \A p \in Path : p # sink.staging /\ p # sink.final => data'[p] = data[p]
      BY <1>0, <1>5, <2>1 DEF SinkMove
    <2> DEFINE d == [path |-> sink.final, size |-> fr.expected, sha256 |-> fr.sha256]
    <2>4. /\ d \in Delivery /\ d.path = sink.final /\ d.size = fr.expected
          /\ d.sha256 = fr.sha256
      BY <1>0, <2>1, ReceiverFields DEF Delivery
    <2>5. completed' = completed \cup {d}
      BY <1>5 DEF SinkMove
    <2> HIDE DEF d
    <2>6. proto' \in ProtocolType
      BY <1>5 DEF SinkMove, ProtocolType
    <2>7. /\ files' = (files \ {sink.staging}) \cup {sink.final}
          /\ dirty' = dirty \ {sink.staging}
      BY <1>5, <2>1 DEF SinkMove
    <2>8. TypeOK'
      BY <1>0, <1>5, <2>1, <2>2, <2>3, <2>4, <2>5, <2>6, <2>7
         DEF TypeOK, SinkMove, Step, ProtocolResult
    <2>9. StagingOwned' /\ StagedBytes'
      <3>1. dirty' \subseteq files'
        BY <2>7 DEF PipelineInv, StagingOwned
      <3> QED BY <1>5, <2>2, <3>1 DEF StagingOwned, StagedBytes, SinkMove
    <2>10. DeliveredIntact'
      <3>1. sink.final \notin dirty
        BY <1>5, <2>1 DEF PipelineInv, StagingOwned, SinkMove, TypeOK
      <3> QED BY <2>1, <2>3, <2>4, <2>5, <2>7, <3>1 DEF PipelineInv, DeliveredIntact
    <2> QED BY <2>8, <2>9, <2>10 DEF PipelineInv
  <1>6. ASSUME SinkMoveFails PROVE PipelineInv'
    <2>1. TypeOK'
      BY <1>0, <1>6 DEF TypeOK, SinkMoveFails, Step
    <2>2. StagingOwned'
      BY <1>6 DEF PipelineInv, StagingOwned, SinkMoveFails
    <2>3. StagedBytes' /\ DeliveredIntact'
      BY <1>6 DEF PipelineInv, StagedBytes, DeliveredIntact, SinkMoveFails
    <2> QED BY <2>1, <2>2, <2>3 DEF PipelineInv
  <1>7. ASSUME FileReceiverFail PROVE PipelineInv'
    <2>1. AbortResources /\ fr' = Released("FAILED") /\ pc' = "fail" /\ frame \in Frame
          /\ UNCHANGED <<frame, completed>>
      BY <1>0, <1>7 DEF FileReceiverFail, Refuse, TypeOK
    <2>2. /\ StagingOwned' /\ StagedBytes' /\ DeliveredIntact'
          /\ fr' \in ReceiverType /\ sink' \in SinkType
          /\ files' \subseteq Path /\ data' \in [Path -> Seq(Byte)] /\ dirty' \subseteq Path
      BY <2>1, ReleaseStep DEF Quiet, AbortResources
    <2>3. hash' \in HashType
      BY <1>0, <2>1, EmptyHash DEF AbortResources, TypeOK
    <2>4. handler_active' \in BOOLEAN
      BY <1>7 DEF FileReceiverFail
    <2>5. TypeOK'
      BY <1>0, <1>7, <2>1, <2>2, <2>3, <2>4
         DEF TypeOK, FileReceiverFail, Refuse, Step, ProtocolResult
    <2> QED BY <2>2, <2>5 DEF PipelineInv
  <1> QED BY <1>1, <1>2, <1>3, <1>4, <1>5, <1>6, <1>7
-----------------------------------------------------------------------------
\* The theorems.

\* The invariant holds when the program is first started.
LEMMA InitInv == Init => PipelineInv
  <1> SUFFICES ASSUME Init PROVE PipelineInv
    OBVIOUS
  <1>1. fr = NoReceiver /\ fr \in ReceiverType /\ fr.state = "IDLE" /\ ~fr.sink_started
    BY DEF Init, NoReceiver, ReceiverType
  <1>2. sink \in SinkType /\ ack \in AckType /\ proto \in ProtocolType /\ hash \in HashType
    BY EmptyHash DEF Init, NoSink, SinkType, NoAck, AckType, ProtocolType
  <1>3. <<>> \in Seq(Byte)
    OBVIOUS
  <1>4. TypeOK
    BY <1>1, <1>2, <1>3 DEF Init, TypeOK, Step, ProtocolResult, Event
  <1>5. StagingOwned /\ StagedBytes /\ DeliveredIntact
    BY <1>1 DEF Init, StagingOwned, StagedBytes, DeliveredIntact
  <1> QED BY <1>4, <1>5 DEF PipelineInv

\* Every step of the receiving side keeps the invariant.
LEMMA NextInv == PipelineInv /\ [Next]_vars => PipelineInv'
  <1> SUFFICES ASSUME PipelineInv, [Next]_vars PROVE PipelineInv'
    OBVIOUS
  <1>1. CASE ReceiveFrame \/ ReceiveError \/ SendNack \/ SendAck \/ SendAckFails \/ ProtocolFail
    BY <1>1, LoopSteps
  <1>2. CASE Malformed \/ Unexpected \/ BeginRefused \/ FinishRefused \/ ChunkChecked
    BY <1>2, RefusalSteps
  <1>3. CASE BeginPrepare \/ SinkBegin \/ SinkBeginFails \/ HashBegin
    BY <1>3, BeginSteps
  <1>4. CASE SinkWrite \/ HashUpdate
    BY <1>4, ChunkSteps
  <1>5. CASE \/ FinishVerified \/ FinishMismatch \/ SinkFlush \/ SinkClose \/ SinkMove
             \/ SinkMoveFails \/ FileReceiverFail
    BY <1>5, FinishSteps
  <1>6. CASE NextSession \/ ProcessExit
    BY <1>6, RestartStep DEF NextSession, ProcessExit, diskVars
  <1>7. CASE PowerLoss
    BY <1>7, RestartStep DEF PowerLoss
  <1>8. CASE UNCHANGED vars
    <2>1. UNCHANGED <<pc, frame, result, outcome, ack, event, proto, handler_active, fr, sink,
                      hash, files, data, dirty, completed, before>>
      BY <1>8 DEF vars, loopVars, fileVars, diskVars, history
    <2>2. TypeOK'
      BY <2>1 DEF PipelineInv, TypeOK
    <2>3. StagingOwned' /\ StagedBytes' /\ DeliveredIntact'
      BY <2>1 DEF PipelineInv, StagingOwned, StagedBytes, DeliveredIntact
    <2> QED BY <2>2, <2>3 DEF PipelineInv
  <1> QED BY <1>1, <1>2, <1>3, <1>4, <1>5, <1>6, <1>7, <1>8 DEF Next, Worker

\* The inductive invariant holds: the staging file of the file in progress is its
\* own and holds the bytes hashed so far, and delivered files are intact.
THEOREM PipelineInvariant == Spec => []PipelineInv
  BY InitInv, NextInv, PTL DEF Spec

\* Every variable of the receiving side keeps its type.
THEOREM TypeCorrect == Spec => []TypeOK
  <1>1. PipelineInv => TypeOK
    BY DEF PipelineInv
  <1> QED BY <1>1, PipelineInvariant, PTL

\* Whatever frames arrive, whichever calls fail and whenever the process or the
\* machine stops, a file under its final name has the announced size and digest.
THEOREM DeliveredFilesIntact == Spec => []DeliveredIntact
  <1>1. PipelineInv => DeliveredIntact
    BY DEF PipelineInv
  <1> QED BY <1>1, PipelineInvariant, PTL
-----------------------------------------------------------------------------
\* The receiving side implements FileDrop.

Kept == completed' = completed /\ \A c \in completed : data'[c.path] = data[c.path]

\* Aborting the current file keeps the deliveries.
LEMMA AbortKeeps ==
  ASSUME PipelineInv, UNCHANGED completed,
         \/ AbortFile
         \/ AbortResources
         \/ UNCHANGED <<fileVars, diskVars, handler_active>>
  PROVE  Kept
  <1>1. AbortResources \/ UNCHANGED diskVars
    BY DEF AbortFile, HandlerAbort, FileReceiverAbort
  <1>2. (fr.sink_started /\ SinkAbort) \/ UNCHANGED diskVars
    BY <1>1 DEF AbortResources
  <1> QED BY <1>2, SinkAbortStep DEF Kept, diskVars

\* Only the rename adds a delivery, and no step changes one.
LEMMA OnlyMoveDelivers ==
  ASSUME PipelineInv, [Next]_vars, ~SinkMove
  PROVE  Kept
  <1> USE DEF loopVars, fileVars, diskVars, history
  <1>0. /\ data \in [Path -> Seq(Byte)] /\ completed \subseteq Delivery
        /\ \A c \in completed : c.path \in Path /\ c.path \in files /\ c.path \notin dirty
    BY DEF PipelineInv, TypeOK, DeliveredIntact, Delivery
  <1>1. CASE UNCHANGED <<completed, data>>
    BY <1>1 DEF Kept
  <1>2. CASE ReceiveFrame \/ Malformed \/ Unexpected \/ BeginRefused \/ BeginPrepare
             \/ SinkBeginFails \/ HashBegin \/ ChunkChecked \/ HashUpdate \/ FinishRefused
             \/ FinishVerified \/ SinkFlush \/ SinkClose \/ SinkMoveFails \/ SendNack
             \/ SendAck
    BY <1>1, <1>2 DEF ReceiveFrame, Malformed, Unexpected, BeginRefused, BeginPrepare,
             SinkBeginFails, HashBegin, ChunkChecked, HashUpdate, FinishRefused,
             FinishVerified, SinkFlush, SinkClose, SinkMoveFails, SendNack, SendAck
  <1>3. CASE ReceiveError \/ SendAckFails \/ ProtocolFail \/ FileReceiverFail
    BY <1>3, AbortKeeps DEF ReceiveError, SendAckFails, ProtocolFail, FileReceiverFail,
             ProtocolAbort
  <1>4. CASE FinishMismatch
    <2>1. fr.sink_started /\ SinkAbort /\ UNCHANGED completed
      BY <1>4 DEF FinishMismatch, Finishing, PipelineInv, StagingOwned
    <2> QED BY <2>1, SinkAbortStep DEF Kept
  <1>5. CASE SinkBegin
    BY <1>0, <1>5 DEF SinkBegin, Kept
  <1>6. CASE SinkWrite
    <2>1. \A c \in completed : c.path # sink.staging
      BY <1>6 DEF SinkWrite, PipelineInv, StagingOwned
    <2>2. PICK x : data' = [data EXCEPT ![sink.staging] = x]
      BY <1>6 DEF SinkWrite
    <2> QED BY <1>0, <1>6, <2>1, <2>2 DEF SinkWrite, Kept
  <1>7. CASE NextSession \/ ProcessExit
    BY <1>1, <1>7 DEF NextSession, ProcessExit
  <1>8. CASE PowerLoss
    <2>1. PICK lost \in SUBSET dirty :
             data' = [p \in Path |-> IF p \in lost THEN <<>> ELSE data[p]]
      BY <1>8 DEF PowerLoss
    <2> QED BY <1>0, <1>8, <2>1 DEF PowerLoss, Kept
  <1>9. CASE UNCHANGED vars
    BY <1>1, <1>9 DEF vars
  <1> QED BY <1>2, <1>3, <1>4, <1>5, <1>6, <1>7, <1>8, <1>9 DEF Next, Worker

\* A rename is a deposit of the staged file.
LEMMA MoveDeposits ==
  ASSUME PipelineInv, SinkMove
  PROVE  Drop!Deposit
  <1> DEFINE d == [path |-> sink.final, size |-> fr.expected, sha256 |-> fr.sha256]
             e == [path |-> sink.final, size |-> fr.expected, sha256 |-> fr.sha256,
                   data |-> data[sink.staging]]
             Stored(c, f) == [path |-> c.path, size |-> c.size, sha256 |-> c.sha256,
                              data |-> f[c.path]]
  <1>1. /\ sink.final \in Path /\ sink.staging \in Path /\ sink.staging # sink.final
        /\ data \in [Path -> Seq(Byte)]
        /\ Len(data[sink.staging]) = fr.expected /\ Sha256(data[sink.staging]) = fr.sha256
        /\ \A c \in completed : /\ c.path \in Path /\ c.path # sink.staging
                                /\ c.path # sink.final
    BY DEF PipelineInv, TypeOK, StagingOwned, StagedBytes, DeliveredIntact, SinkMove, Delivery
  <1>2. /\ data'[sink.final] = data[sink.staging]
        /\ \A c \in completed : data'[c.path] = data[c.path]
        /\ completed' = completed \cup {d}
    BY <1>1 DEF SinkMove
  <1>3. Box = {Stored(c, data) : c \in completed}
    BY DEF Box
  <1>4. Box' = {Stored(c, data') : c \in completed'}
    BY DEF Box
  <1>5. Stored(d, data') = e /\ \A c \in completed : Stored(c, data') = Stored(c, data)
    BY <1>2
  <1> HIDE DEF Stored, d, e
  <1>6. Box' = Box \cup {e}
    BY <1>2, <1>3, <1>4, <1>5
  <1>7. \A x \in Box : x.path # sink.final
    BY <1>1, <1>3 DEF Stored
  <1>8. e \in Box' \ Box
    BY <1>6, <1>7 DEF e
  <1>9. e.path \notin Drop!Paths(Box)
    BY <1>7 DEF Drop!Paths, e
  <1>10. Drop!Matches(e)
    BY <1>1 DEF Drop!Matches, e
  <1> QED BY <1>6, <1>8, <1>9, <1>10 DEF Drop!Deposit

\* Steps of the receiving side are deposits or leave the delivered files alone.
THEOREM PipelineImplementsFileDrop == Spec => ImplementsFileDrop
  <1>1. Init => Drop!Init
    BY DEF Init, Drop!Init, Box
  <1>2. PipelineInv /\ [Next]_vars => [Drop!Deposit]_Box
    <2> SUFFICES ASSUME PipelineInv, [Next]_vars PROVE Drop!Deposit \/ Box' = Box
      OBVIOUS
    <2>1. CASE SinkMove
      BY <2>1, MoveDeposits
    <2>2. CASE ~SinkMove
      BY <2>2, OnlyMoveDelivers DEF Kept, Box
    <2> QED BY <2>1, <2>2
  <1> QED BY <1>1, <1>2, PipelineInvariant, PTL DEF Spec, ImplementsFileDrop, Drop!Spec
=============================================================================
