------------------------- MODULE ReceiveLoopProofs -------------------------
(***************************************************************************)
(* What ReceivePipeline tells its sender and its window, and what it has   *)
(* left when the loop returns, for every value of the constants: an        *)
(* acknowledgement never runs ahead of the disk, a transfer is reported as *)
(* complete when its file is in place, the events come in order, and a     *)
(* loop that has returned holds nothing.                                   *)
(*                                                                         *)
(* The inductive invariant is LoopInv, on top of PipelineInv.              *)
(***************************************************************************)
EXTENDS ReceivePipelineProofs

Delivered(n) == \E c \in completed : c.path = sink.final /\ c.size = n

\* The protocol, the file receiver and the last acknowledgement agree whenever the
\* loop waits for a frame or has just handled one.
AnswersMatch ==
    /\ pc \in {"recv", "handle"} =>
          \/ proto.state = "WAIT_FILE" /\ fr.state = "IDLE"
          \/ /\ proto.state = "RECEIVING" /\ fr.state = "RECEIVING"
             /\ ack.status = "OK" /\ ack.received = fr.received
    /\ pc = "ack" =>
          \/ /\ frame.type \in {"FILE_BEGIN", "CHUNK"}
             /\ proto.state = "RECEIVING" /\ fr.state = "RECEIVING"
          \/ frame.type = "FILE_END" /\ proto.state = "COMPLETE" /\ Delivered(fr.received)
    /\ pc \in {"write", "hash_update"} => proto.state = "RECEIVING"
    /\ pc \in {"flush", "close", "move"} => fr.received = fr.expected
    /\ event = "COMPLETE" \/ (ack.type = "FILE_END" /\ ack.status = "OK") =>
          pc = "ended" /\ Delivered(ack.received)

\* Whatever is open or on the disk, the file receiver knows of, and it is receiving or
\* about to give up.
ResourcesKnown ==
    /\ sink.open => fr.sink_started
    /\ hash.active => fr.integrity_started
    /\ fr.sink_started \/ fr.integrity_started =>
          fr.state = "RECEIVING" \/ pc \in {"hash_begin", "drop"}
    /\ fr.state = "RECEIVING" /\ pc \in {"recv", "handle", "write", "hash_update", "ack"} =>
          fr.integrity_started
    /\ pc \in {"flush", "close", "move"} => ~fr.integrity_started
    /\ pc = "move" => ~sink.open

\* The files this session has made are delivered, but for the one being staged.
FilesKnown ==
    ~MayFail("delete") =>
        \A p \in files \ before : \/ \E c \in completed : c.path = p
                                  \/ fr.sink_started /\ p = sink.staging

\* A file that is being received can be aborted from above, through the protocol and the
\* handler, until it has been: only an early FILE_END takes that away.
AbortReaches ==
    /\ proto.file_active <=> proto.state = "RECEIVING"
    /\ fr.state = "RECEIVING" /\ pc \notin {"fail", "nack", "ended"} =>
          proto.state = "RECEIVING" /\ handler_active
    /\ fr.state = "RECEIVING" /\ pc = "fail" =>
          proto.state = "RECEIVING" /\ (handler_active \/ EarlyEnd)
    /\ fr.state = "RECEIVING" /\ pc \in {"nack", "ended"} => EarlyEnd

\* The last event fits the step of the loop.
EventsMatch ==
    /\ pc = "recv" => IF proto.state = "WAIT_FILE" THEN event = "READY"
                                                   ELSE event \in {"FILE_STARTED", "PROGRESS"}
    /\ pc \notin {"recv", "ended"} =>
          IF frame.type = "FILE_END" THEN event = "VERIFYING"
                                     ELSE event \in {"READY", "FILE_STARTED", "PROGRESS"}
    /\ pc = "handle" /\ frame.type # "FILE_END" =>
          (proto.state = "WAIT_FILE" <=> event = "READY")
    /\ pc \in {"create", "hash_begin"} => event = "READY"
    /\ pc \in {"write", "hash_update"} => event # "READY"
    /\ pc = "ack" /\ frame.type # "FILE_END" => (frame.type = "FILE_BEGIN" <=> event = "READY")

LoopInv == AnswersMatch /\ ResourcesKnown /\ FilesKnown /\ AbortReaches /\ EventsMatch

-----------------------------------------------------------------------------
\* What the steps do to the file receiver.

\* pd_file_receiver after pd_file_receiver_fail or _abort: nothing is held.
LEMMA GivenUp ==
  ASSUME TypeOK, ResourcesKnown, NEW st \in {"FAILED", "ABORTED"}, fr' = Released(st),
         AbortResources
  PROVE  /\ fr'.state = st /\ ~fr'.sink_started /\ ~fr'.integrity_started
         /\ ~sink'.open /\ ~hash'.active
         /\ sink'.final = sink.final /\ sink'.staging = sink.staging
         /\ files' \subseteq files
         /\ ~MayFail("delete") /\ fr.sink_started => sink.staging \notin files'
  <1>1. fr'.state = st /\ ~fr'.sink_started /\ ~fr'.integrity_started
    BY DEF TypeOK, Released, ReceiverType
  <1>2. ~hash'.active
    BY DEF AbortResources, ResourcesKnown, NoHash
  <1>3. CASE fr.sink_started
    BY <1>1, <1>2, <1>3 DEF AbortResources, SinkAbort, TypeOK, SinkType, diskVars
  <1>4. CASE ~fr.sink_started
    BY <1>1, <1>2, <1>4 DEF AbortResources, ResourcesKnown, diskVars
  <1> QED BY <1>3, <1>4

\* The abort_file callback gives the file up or does nothing.
LEMMA AbortCases ==
  ASSUME AbortFile \/ UNCHANGED <<fileVars, diskVars, handler_active>>
  PROVE  \/ UNCHANGED <<fr, sink, hash, files>>
         \/ AbortResources /\ fr' = Released("ABORTED")
  BY DEF AbortFile, HandlerAbort, FileReceiverAbort, fileVars, diskVars

\* The steps that leave the file, the disk and the protocol alone.
Untouched == UNCHANGED <<fr, sink, hash, files, completed, before, proto>>

\* A frame that is malformed or out of place, and a file that is refused at its beginning
\* or end, touch nothing.
LEMMA RefusalEffect ==
  ASSUME Malformed \/ Unexpected \/ BeginRefused \/ FinishRefused
  PROVE  Untouched /\ pc = "handle" /\ pc' = "fail" /\ UNCHANGED <<ack, event, frame>>
  BY DEF Malformed, Unexpected, BeginRefused, FinishRefused, Handling, Refuse, Untouched, fileVars,
         diskVars, history

\* The frames the message handlers see.
LEMMA HandlingState ==
  ASSUME NEW t, Handling(t)
  PROVE  /\ pc = "handle" /\ frame.type = t
         /\ t = "FILE_BEGIN" => proto.state = "WAIT_FILE"
         /\ t \in {"CHUNK", "FILE_END"} => proto.state # "WAIT_FILE"
  BY DEF Handling, Expected

\* pd_win32_receive_begin prepares the file receiver or refuses.
LEMMA PrepareEffect ==
  ASSUME BeginPrepare
  PROVE  /\ Handling("FILE_BEGIN") /\ UNCHANGED <<ack, event, frame, files, completed, before, proto>>
         /\ \/ pc' = "fail" /\ UNCHANGED <<fr, sink, hash>>
            \/ /\ pc' = "create" /\ ~sink'.open /\ ~hash'.active /\ fr'.state = "IDLE"
               /\ ~fr'.sink_started /\ ~fr'.integrity_started
  <1>1. CASE pc' = "create"
    <2>1. PICK j \in JobId :
             /\ sink' = [final |-> <<j, frame.meta.name>>,
                         staging |-> <<j, Part[frame.meta.name]>>, open |-> FALSE]
             /\ hash' = NoHash
             /\ fr' = [NoReceiver EXCEPT !.expected = frame.meta.size,
                                         !.sha256 = frame.meta.sha256]
      BY <1>1 DEF BeginPrepare, Refuse
    <2>2. ~sink'.open /\ ~hash'.active
      BY <2>1 DEF NoHash
    <2>3. fr'.state = "IDLE" /\ ~fr'.sink_started /\ ~fr'.integrity_started
      BY <2>1 DEF NoReceiver
    <2> QED BY <1>1, <2>2, <2>3 DEF BeginPrepare, history, diskVars
  <1>2. CASE pc' # "create"
    BY <1>2 DEF BeginPrepare, Refuse, history, diskVars, fileVars
  <1> QED BY <1>1, <1>2

\* pd_win32_sink_begin opens the staging file.
LEMMA SinkBeginEffect ==
  ASSUME TypeOK, SinkBegin
  PROVE  /\ pc = "create" /\ pc' = "hash_begin" /\ fr'.sink_started
         /\ fr'.state = fr.state /\ (fr'.integrity_started <=> fr.integrity_started)
         /\ sink'.staging = sink.staging /\ files' = files \cup {sink.staging}
         /\ UNCHANGED <<ack, event, frame, completed, before, proto, hash>>
  BY DEF TypeOK, SinkBegin, ReceiverType, SinkType, history

\* pd_file_receiver_begin when the staging file cannot be made.
LEMMA BeginFailsEffect ==
  ASSUME TypeOK, SinkBeginFails
  PROVE  /\ pc = "create" /\ pc' = "fail" /\ fr'.state = "FAILED"
         /\ fr'.sink_started <=> fr.sink_started
         /\ fr'.integrity_started <=> fr.integrity_started
         /\ UNCHANGED <<ack, event, frame, completed, before, proto, hash, sink, files>>
  BY DEF TypeOK, SinkBeginFails, ReceiverType, Refuse, history, diskVars

\* The hash context is opened and the file is being received, or given up.
LEMMA HashBeginEffect ==
  ASSUME TypeOK, HashBegin
  PROVE  /\ pc = "hash_begin"
         /\ UNCHANGED <<ack, event, frame, completed, before, sink, files>>
         /\ \/ pc' = "drop" /\ UNCHANGED <<fr, hash, proto>>
            \/ /\ pc' = "ack" /\ fr'.integrity_started /\ fr'.state = "RECEIVING"
               /\ fr'.sink_started <=> fr.sink_started
               /\ proto'.state = "RECEIVING"
  <1>1. CASE pc' = "drop"
    BY <1>1 DEF HashBegin, history, diskVars
  <1>2. CASE pc' # "drop"
    <2>1. /\ fr' = [fr EXCEPT !.integrity_started = TRUE, !.state = "RECEIVING"]
          /\ proto' = [state |-> "RECEIVING", file_active |-> TRUE] /\ pc' = "ack"
      BY <1>2 DEF HashBegin
    <2>2. /\ fr'.integrity_started /\ fr'.state = "RECEIVING"
          /\ fr'.sink_started <=> fr.sink_started
      BY <2>1 DEF TypeOK, ReceiverType
    <2> QED BY <2>1, <2>2 DEF HashBegin, history, diskVars
  <1> QED BY <1>1, <1>2

\* A chunk that has been written is hashed and counted, or the file is given up.
LEMMA UpdateEffect ==
  ASSUME TypeOK, HashUpdate
  PROVE  /\ pc = "hash_update"
         /\ UNCHANGED <<ack, event, frame, completed, before, sink, files, proto>>
         /\ fr'.state = fr.state /\ (fr'.sink_started <=> fr.sink_started)
         /\ fr'.integrity_started <=> fr.integrity_started
         /\ pc' = "ack" \/ (pc' = "drop" /\ hash' = hash)
  BY DEF TypeOK, HashUpdate, ReceiverType, history, diskVars

\* The last frame of a file: the digest is compared.
LEMMA VerifyEffect ==
  ASSUME TypeOK, FinishVerified
  PROVE  /\ Finishing /\ ~hash'.active
         /\ UNCHANGED <<ack, event, frame, completed, before, sink, files, proto>>
         /\ fr'.state = fr.state /\ (fr'.sink_started <=> fr.sink_started)
         /\ fr'.received = fr.received /\ fr'.expected = fr.expected
         /\ (pc' = "flush" /\ ~fr'.integrity_started) \/ (pc' = "drop" /\ fr' = fr)
  BY DEF TypeOK, FinishVerified, ReceiverType, history, diskVars, NoHash

\* The digest differs: the file is given up.
LEMMA MismatchEffect ==
  ASSUME PipelineInv, ResourcesKnown, FinishMismatch
  PROVE  /\ fr.state = "RECEIVING" /\ Handling("FILE_END")
         /\ fr' = Released("FAILED") /\ AbortResources /\ pc' = "fail"
         /\ UNCHANGED <<ack, event, frame, completed, before, proto>>
  <1>1. fr.state = "RECEIVING" /\ fr.sink_started /\ Handling("FILE_END")
    BY DEF FinishMismatch, Finishing, PipelineInv, StagingOwned
  <1>2. fr.integrity_started
    BY <1>1 DEF ResourcesKnown, Handling
  <1> QED BY <1>1, <1>2 DEF FinishMismatch, AbortResources, Refuse, history

\* The rename puts the file in its place.
LEMMA MoveEffect ==
  ASSUME TypeOK, SinkMove
  PROVE  /\ pc = "move" /\ pc' = "ack" /\ proto'.state = "COMPLETE" /\ fr'.state = "COMPLETE"
         /\ ~fr'.sink_started /\ (fr'.integrity_started <=> fr.integrity_started)
         /\ fr'.received = fr.received
         /\ files' = (files \ {sink.staging}) \cup {sink.final}
         /\ completed \subseteq completed'
         /\ \E c \in completed' : c.path = sink.final /\ c.size = fr.expected
         /\ UNCHANGED <<ack, event, frame, before, sink, hash>>
  <1>1. /\ ~fr'.sink_started /\ fr'.state = "COMPLETE" /\ fr'.received = fr.received
        /\ fr'.integrity_started <=> fr.integrity_started
    BY DEF TypeOK, SinkMove, ReceiverType
  <1>2. proto'.state = "COMPLETE" /\ completed \subseteq completed'
    BY DEF SinkMove
  <1>3. \E c \in completed' : c.path = sink.final /\ c.size = fr.expected
    <2> DEFINE c == [path |-> sink.final, size |-> fr.expected, sha256 |-> fr.sha256]
    <2>1. c \in completed' /\ c.path = sink.final /\ c.size = fr.expected
      BY DEF SinkMove
    <2> QED BY <2>1
  <1> QED BY <1>1, <1>2, <1>3 DEF SinkMove

\* The steps that only move the loop on.
LEMMA WriteEffect ==
  ASSUME ChunkChecked \/ SinkWrite \/ SinkFlush \/ SinkMoveFails
  PROVE  /\ Untouched /\ UNCHANGED <<ack, event, frame>>
         /\ ChunkChecked => Handling("CHUNK") /\ pc' \in {"fail", "write"}
         /\ SinkWrite => pc = "write" /\ pc' \in {"hash_update", "drop"}
         /\ SinkFlush => pc = "flush" /\ pc' \in {"close", "drop"}
         /\ SinkMoveFails => pc = "move" /\ pc' = "drop"
  BY DEF ChunkChecked, SinkWrite, SinkFlush, SinkMoveFails, Handling, Refuse, Untouched, fileVars,
         diskVars, history

\* The handle of the staging file is closed.
LEMMA CloseEffect ==
  ASSUME TypeOK, SinkClose
  PROVE  /\ pc = "close"
         /\ UNCHANGED <<ack, event, frame, fr, hash, files, completed, before, proto>>
         /\ \/ pc' = "drop" /\ sink' = sink
            \/ /\ pc' = "move" /\ ~sink'.open
               /\ sink'.final = sink.final /\ sink'.staging = sink.staging
  BY DEF TypeOK, SinkClose, SinkType, diskVars, history

\* pd_file_receiver_fail, and the callers that end the loop.
LEMMA FailEffect ==
  ASSUME FileReceiverFail
  PROVE  /\ pc = "drop" /\ pc' = "fail" /\ AbortResources /\ fr' = Released("FAILED")
         /\ UNCHANGED <<ack, event, frame, completed, before, proto>>
  BY DEF FileReceiverFail, Refuse, history

\* The ways a session fails: the file is aborted or was not begun, and no answer changes.
LEMMA EndEffect ==
  ASSUME ReceiveError \/ SendAckFails \/ ProtocolFail
  PROVE  /\ AbortFile \/ UNCHANGED <<fileVars, diskVars, handler_active>>
         /\ pc \in {"recv", "ack", "fail"} /\ UNCHANGED <<ack, frame, completed, before>>
         /\ \/ pc' = "ended" /\ event' = "FAILED"
            \/ pc' = "nack" /\ pc = "fail" /\ event' = event
  BY DEF ReceiveError, SendAckFails, ProtocolFail, ProtocolAbort, history

\* A new session.
LEMMA SessionEffect ==
  ASSUME NextSession \/ ProcessExit \/ PowerLoss
  PROVE  /\ pc' = "recv" /\ proto'.state = "WAIT_FILE" /\ event' = "READY"
         /\ ack'.type = "NONE" /\ fr'.state = "IDLE"
         /\ ~fr'.sink_started /\ ~fr'.integrity_started /\ ~sink'.open /\ ~hash'.active
         /\ before' = files'
  <1>1. StartSession /\ files' = files
    BY DEF NextSession, ProcessExit, PowerLoss, diskVars
  <1> QED BY <1>1 DEF StartSession, NoAck, NoReceiver, NoSink, NoHash

\* An OK answer tells the bytes received and raises the event of its frame.
LEMMA AckEffect ==
  ASSUME SendAck
  PROVE  /\ pc = "ack" /\ Untouched /\ frame' = frame
         /\ ack'.type = frame.type /\ ack'.status = "OK" /\ ack'.received = fr.received
         /\ \/ frame.type = "FILE_BEGIN" /\ event' = "FILE_STARTED" /\ pc' = "recv"
            \/ frame.type = "CHUNK" /\ event' = "PROGRESS" /\ pc' = "recv"
            \/ frame.type = "FILE_END" /\ event' = "COMPLETE" /\ pc' = "ended"
  BY DEF SendAck, Ack, Untouched, fileVars, diskVars, history

\* The one answer after a failure is not OK.
LEMMA NackEffect ==
  ASSUME SendNack
  PROVE  /\ pc = "nack" /\ pc' = "ended" /\ event' = "FAILED" /\ Untouched /\ frame' = frame
         /\ ack' = ack \/ ack'.status # "OK"
  BY DEF SendNack, Ack, ErrorStatus, Untouched, fileVars, diskVars, history

\* A frame comes in; FILE_END raises VERIFYING before it is handled.
LEMMA FrameEffect ==
  ASSUME ReceiveFrame
  PROVE  /\ pc = "recv" /\ pc' = "handle" /\ Untouched /\ ack' = ack
         /\ event' = IF frame'.type = "FILE_END" THEN "VERIFYING" ELSE event
  BY DEF ReceiveFrame, Untouched, fileVars, diskVars, history

-----------------------------------------------------------------------------
\* The parts of the invariant.

\* The answers match in every step.
LEMMA AnswersStep ==
  ASSUME PipelineInv, LoopInv, Next
  PROVE  AnswersMatch'
  <1>0. TypeOK /\ AnswersMatch /\ ResourcesKnown
    BY DEF PipelineInv, LoopInv
  <1> DEFINE Unfinished == event' # "COMPLETE" /\ ~(ack'.type = "FILE_END" /\ ack'.status = "OK")
  <1>1. ASSUME pc # "ended", ack' = ack, event' # "COMPLETE" PROVE Unfinished
    BY <1>0, <1>1 DEF AnswersMatch
  <1>2. ASSUME Unfinished, pc' \in {"create", "hash_begin", "drop", "fail", "nack", "ended"}
        PROVE  AnswersMatch'
    BY <1>2 DEF AnswersMatch
  <1>3. CASE ReceiveFrame
    BY <1>0, <1>1, <1>3, FrameEffect DEF AnswersMatch, Untouched
  <1>4. CASE ReceiveError \/ SendAckFails \/ ProtocolFail
    BY <1>0, <1>1, <1>2, <1>4, EndEffect DEF AnswersMatch
  <1>5. CASE Malformed \/ Unexpected \/ BeginRefused \/ FinishRefused
    BY <1>0, <1>1, <1>2, <1>5, RefusalEffect DEF AnswersMatch
  <1>6. CASE BeginPrepare
    BY <1>0, <1>1, <1>2, <1>6, PrepareEffect, HandlingState DEF AnswersMatch
  <1>7. CASE SinkBegin
    BY <1>0, <1>1, <1>2, <1>7, SinkBeginEffect DEF AnswersMatch
  <1>8. CASE SinkBeginFails
    BY <1>0, <1>1, <1>2, <1>8, BeginFailsEffect DEF AnswersMatch
  <1>9. CASE HashBegin
    <2>1. frame.type = "FILE_BEGIN"
      BY <1>9 DEF PipelineInv, StagingOwned, HashBegin
    <2> QED BY <1>0, <1>1, <1>2, <1>9, <2>1, HashBeginEffect DEF AnswersMatch
  <1>10. CASE ChunkChecked \/ SinkWrite \/ SinkFlush \/ SinkMoveFails
    BY <1>0, <1>1, <1>2, <1>10, WriteEffect, HandlingState DEF AnswersMatch, Untouched
  <1>11. CASE HashUpdate
    <2>1. frame.type = "CHUNK" /\ fr.state = "RECEIVING" /\ proto.state = "RECEIVING"
      BY <1>0, <1>11 DEF PipelineInv, StagingOwned, HashUpdate, AnswersMatch
    <2> QED BY <1>0, <1>1, <1>2, <1>11, <2>1, UpdateEffect DEF AnswersMatch
  <1>12. CASE FinishVerified
    BY <1>0, <1>1, <1>2, <1>12, VerifyEffect DEF AnswersMatch, Finishing, Handling
  <1>13. CASE FinishMismatch
    BY <1>0, <1>1, <1>2, <1>13, MismatchEffect DEF AnswersMatch, Handling
  <1>14. CASE SinkClose
    BY <1>0, <1>1, <1>2, <1>14, CloseEffect DEF AnswersMatch
  <1>15. CASE SinkMove
    <2>1. frame.type = "FILE_END"
      BY <1>15 DEF PipelineInv, StagingOwned, SinkMove
    <2> QED BY <1>0, <1>1, <1>15, <2>1, MoveEffect DEF AnswersMatch, Delivered
  <1>16. CASE FileReceiverFail
    BY <1>0, <1>1, <1>2, <1>16, FailEffect DEF AnswersMatch
  <1>17. CASE SendNack
    BY <1>0, <1>2, <1>17, NackEffect DEF AnswersMatch
  <1>18. CASE SendAck
    BY <1>0, <1>18, AckEffect DEF AnswersMatch, Delivered, Untouched
  <1>19. CASE NextSession \/ ProcessExit \/ PowerLoss
    BY <1>19, SessionEffect DEF AnswersMatch
  <1> QED BY <1>3, <1>4, <1>5, <1>6, <1>7, <1>8, <1>9, <1>10, <1>11, <1>12, <1>13, <1>14, <1>15,
             <1>16, <1>17, <1>18, <1>19 DEF Next, Worker

\* The resources are known in every step.
LEMMA ResourcesStep ==
  ASSUME PipelineInv, LoopInv, Next
  PROVE  ResourcesKnown'
  <1>0. TypeOK /\ AnswersMatch /\ ResourcesKnown
    BY DEF PipelineInv, LoopInv
  <1>1. ASSUME Untouched, pc' \in {"fail", "nack", "ended"}, pc \notin {"hash_begin", "drop"}
        PROVE  ResourcesKnown'
    BY <1>0, <1>1 DEF ResourcesKnown, Untouched
  <1>2. ASSUME AbortResources, NEW st \in {"FAILED", "ABORTED"}, fr' = Released(st),
               pc' \in {"fail", "nack", "ended"}
        PROVE  ResourcesKnown'
    BY <1>0, <1>2, GivenUp DEF ResourcesKnown
  <1>3. CASE ReceiveFrame
    BY <1>0, <1>3, FrameEffect DEF ResourcesKnown, Untouched
  <1>4. CASE ReceiveError \/ SendAckFails \/ ProtocolFail
    <2>1. /\ pc \in {"recv", "ack", "fail"} /\ pc' \in {"nack", "ended"}
          /\ \/ UNCHANGED <<fr, sink, hash, files>>
             \/ AbortResources /\ fr' = Released("ABORTED")
      BY <1>4, EndEffect, AbortCases
    <2> QED BY <1>0, <1>2, <2>1 DEF ResourcesKnown
  <1>5. CASE Malformed \/ Unexpected \/ BeginRefused \/ FinishRefused
    BY <1>0, <1>1, <1>5, RefusalEffect
  <1>6. CASE BeginPrepare
    BY <1>0, <1>6, PrepareEffect DEF ResourcesKnown, Handling
  <1>7. CASE SinkBegin
    BY <1>0, <1>7, SinkBeginEffect DEF ResourcesKnown
  <1>8. CASE SinkBeginFails
    BY <1>0, <1>8, BeginFailsEffect DEF ResourcesKnown, PipelineInv, StagingOwned
  <1>9. CASE HashBegin
    BY <1>0, <1>9, HashBeginEffect DEF ResourcesKnown
  <1>10. CASE ChunkChecked \/ SinkWrite \/ SinkFlush \/ SinkMoveFails
    BY <1>0, <1>10, WriteEffect DEF ResourcesKnown, Untouched, Handling
  <1>11. CASE HashUpdate
    <2>1. fr.state = "RECEIVING" /\ fr.integrity_started
      BY <1>0, <1>11 DEF PipelineInv, StagingOwned, HashUpdate, ResourcesKnown
    <2> QED BY <1>0, <1>11, <2>1, UpdateEffect DEF ResourcesKnown
  <1>12. CASE FinishVerified
    BY <1>0, <1>12, VerifyEffect DEF ResourcesKnown, Finishing
  <1>13. CASE FinishMismatch
    BY <1>0, <1>2, <1>13, MismatchEffect
  <1>14. CASE SinkClose
    BY <1>0, <1>14, CloseEffect DEF ResourcesKnown
  <1>15. CASE SinkMove
    BY <1>0, <1>15, MoveEffect DEF ResourcesKnown
  <1>16. CASE FileReceiverFail
    BY <1>2, <1>16, FailEffect
  <1>17. CASE SendNack
    BY <1>1, <1>17, NackEffect
  <1>18. CASE SendAck
    BY <1>0, <1>18, AckEffect DEF ResourcesKnown, Untouched
  <1>19. CASE NextSession \/ ProcessExit \/ PowerLoss
    BY <1>19, SessionEffect DEF ResourcesKnown
  <1> QED BY <1>3, <1>4, <1>5, <1>6, <1>7, <1>8, <1>9, <1>10, <1>11, <1>12, <1>13, <1>14, <1>15,
             <1>16, <1>17, <1>18, <1>19 DEF Next, Worker

\* The events match in every step.
LEMMA EventsStep ==
  ASSUME PipelineInv, LoopInv, Next
  PROVE  EventsMatch'
  <1>0. TypeOK /\ AnswersMatch /\ EventsMatch
    BY DEF PipelineInv, LoopInv
  <1>1. ASSUME pc \notin {"recv", "ended"}, pc' \in {"flush", "close", "move", "drop", "fail", "nack"},
               UNCHANGED <<event, frame>>
        PROVE  EventsMatch'
    BY <1>0, <1>1 DEF EventsMatch
  <1>2. ASSUME pc' = "ended" PROVE EventsMatch'
    BY <1>2 DEF EventsMatch
  <1>3. CASE ReceiveFrame
    BY <1>0, <1>3, FrameEffect DEF EventsMatch, AnswersMatch, Untouched
  <1>4. CASE ReceiveError \/ SendAckFails \/ ProtocolFail
    BY <1>1, <1>2, <1>4, EndEffect
  <1>5. CASE Malformed \/ Unexpected \/ BeginRefused \/ FinishRefused
    BY <1>1, <1>5, RefusalEffect
  <1>6. CASE BeginPrepare
    BY <1>0, <1>6, PrepareEffect, HandlingState DEF EventsMatch
  <1>7. CASE SinkBegin
    BY <1>0, <1>7, SinkBeginEffect DEF EventsMatch
  <1>8. CASE SinkBeginFails
    BY <1>0, <1>1, <1>8, BeginFailsEffect
  <1>9. CASE HashBegin
    <2>1. frame.type = "FILE_BEGIN"
      BY <1>9 DEF PipelineInv, StagingOwned, HashBegin
    <2> QED BY <1>0, <1>9, <2>1, HashBeginEffect DEF EventsMatch
  <1>10. CASE ChunkChecked \/ SinkWrite \/ SinkFlush \/ SinkMoveFails
    BY <1>0, <1>10, WriteEffect, HandlingState DEF EventsMatch
  <1>11. CASE HashUpdate
    <2>1. frame.type = "CHUNK"
      BY <1>11 DEF PipelineInv, StagingOwned, HashUpdate
    <2> QED BY <1>0, <1>11, <2>1, UpdateEffect DEF EventsMatch
  <1>12. CASE FinishVerified
    BY <1>1, <1>12, <1>0, VerifyEffect DEF Finishing, Handling
  <1>13. CASE FinishMismatch
    BY <1>1, <1>13, MismatchEffect DEF LoopInv, Handling
  <1>14. CASE SinkClose
    BY <1>0, <1>1, <1>14, CloseEffect
  <1>15. CASE SinkMove
    <2>1. frame.type = "FILE_END"
      BY <1>15 DEF PipelineInv, StagingOwned, SinkMove
    <2> QED BY <1>0, <1>15, <2>1, MoveEffect DEF EventsMatch
  <1>16. CASE FileReceiverFail
    BY <1>1, <1>16, FailEffect
  <1>17. CASE SendNack
    BY <1>2, <1>17, NackEffect
  <1>18. CASE SendAck
    BY <1>0, <1>2, <1>18, AckEffect DEF EventsMatch, AnswersMatch, Untouched
  <1>19. CASE NextSession \/ ProcessExit \/ PowerLoss
    BY <1>19, SessionEffect DEF EventsMatch
  <1> QED BY <1>3, <1>4, <1>5, <1>6, <1>7, <1>8, <1>9, <1>10, <1>11, <1>12, <1>13, <1>14, <1>15,
             <1>16, <1>17, <1>18, <1>19 DEF Next, Worker

\* Where a step leaves the protocol, the file receiver and the handler.
Standing == <<proto, fr, handler_active>>

\* A FILE_END that is refused came early or was not empty.
LEMMA RefusedEnd ==
  ASSUME PipelineInv, LoopInv, FinishRefused
  PROVE  /\ UNCHANGED <<proto, fr, frame>> /\ pc = "handle" /\ pc' = "fail"
         /\ fr.state = "RECEIVING" /\ proto.state = "RECEIVING"
         /\ handler_active' \/ EarlyEnd'
  <1>1. /\ Handling("FILE_END") /\ UNCHANGED <<proto, fr, frame>> /\ pc' = "fail"
        /\ \/ handler_active' = handler_active
           \/ /\ frame.bytes = <<>> /\ result' = "HANDLER_ERROR"
              /\ ~handler_active \/ fr.state # "RECEIVING" \/ fr.received # fr.expected
    BY DEF FinishRefused, Refuse, fileVars
  <1>2. pc = "handle" /\ frame.type = "FILE_END" /\ proto.state # "WAIT_FILE"
    BY <1>1, HandlingState
  <1>3. fr.state = "RECEIVING" /\ proto.state = "RECEIVING"
    BY <1>2 DEF LoopInv, AnswersMatch
  <1>4. handler_active
    BY <1>2, <1>3 DEF LoopInv, AbortReaches
  <1> QED BY <1>1, <1>2, <1>3, <1>4 DEF EarlyEnd

\* The ways a session fails release the file that is being received, unless FILE_END
\* came early.
LEMMA EndReleases ==
  ASSUME PipelineInv, LoopInv, ReceiveError \/ SendAckFails \/ ProtocolFail
  PROVE  AbortReaches'
  <1>0. TypeOK /\ AnswersMatch /\ AbortReaches
    BY DEF PipelineInv, LoopInv
  <1>1. /\ pc \in {"recv", "ack", "fail"} /\ pc' \in {"nack", "ended"}
    BY EndEffect
  <1>2. proto'.file_active <=> proto'.state = "RECEIVING"
    BY <1>0 DEF ReceiveError, SendAckFails, ProtocolFail, ProtocolAbort, FailedProtocol,
                AbortReaches
  <1>3. CASE fr.state # "RECEIVING"
    <2>1. fr' = fr
      BY <1>3 DEF ReceiveError, SendAckFails, ProtocolFail, ProtocolAbort, AbortFile,
                  HandlerAbort, FileReceiverAbort, fileVars
    <2> QED BY <1>1, <1>2, <1>3, <2>1 DEF AbortReaches
  <1>4. CASE fr.state = "RECEIVING" /\ handler_active
    <2>1. proto.state = "RECEIVING" /\ proto.file_active
      BY <1>0, <1>1, <1>4 DEF AbortReaches
    <2>2. fr' = Released("ABORTED")
      BY <1>4, <2>1 DEF ReceiveError, SendAckFails, ProtocolFail, ProtocolAbort, AbortFile,
                        HandlerAbort, FileReceiverAbort
    <2>3. fr'.state = "ABORTED"
      BY <1>0, <2>2 DEF TypeOK, Released, ReceiverType
    <2> QED BY <1>1, <1>2, <2>3 DEF AbortReaches
  <1>5. CASE fr.state = "RECEIVING" /\ ~handler_active
    <2>1. pc = "fail" /\ EarlyEnd /\ proto.file_active
      BY <1>0, <1>1, <1>5 DEF AbortReaches
    <2>2. UNCHANGED <<fr, frame, result>>
      BY <1>5, <2>1 DEF ReceiveError, SendAckFails, ProtocolFail, AbortFile, HandlerAbort,
                        fileVars
    <2>3. EarlyEnd'
      BY <2>1, <2>2 DEF EarlyEnd
    <2> QED BY <1>1, <1>2, <2>3 DEF AbortReaches
  <1> QED BY <1>3, <1>4, <1>5

\* A file that is being received can be aborted in every step.
LEMMA ReachesStep ==
  ASSUME PipelineInv, LoopInv, Next
  PROVE  AbortReaches'
  <1>0. TypeOK /\ AnswersMatch /\ AbortReaches
    BY DEF PipelineInv, LoopInv
  <1>1. ASSUME UNCHANGED Standing, pc \notin {"fail", "nack", "ended"},
               pc' \notin {"nack", "ended"}
        PROVE  AbortReaches'
    BY <1>0, <1>1 DEF AbortReaches, Standing
  <1>2. ASSUME fr'.state # "RECEIVING", proto' = proto PROVE AbortReaches'
    BY <1>0, <1>2 DEF AbortReaches
  <1>3. CASE ReceiveError \/ SendAckFails \/ ProtocolFail
    BY <1>3, EndReleases
  <1>4. CASE ReceiveFrame \/ Malformed \/ Unexpected \/ BeginRefused \/ ChunkChecked
    BY <1>1, <1>4 DEF ReceiveFrame, Malformed, Unexpected, BeginRefused, ChunkChecked, Handling,
                      Refuse, Standing, fileVars
  <1>5. CASE SinkWrite \/ SinkFlush \/ SinkClose \/ SinkMoveFails
    BY <1>1, <1>5 DEF SinkWrite, SinkFlush, SinkClose, SinkMoveFails, Standing, fileVars
  <1>6. CASE FinishRefused
    BY <1>0, <1>6, RefusedEnd DEF AbortReaches
  <1>7. CASE BeginPrepare
    <2>1. /\ proto' = proto /\ pc = "handle" /\ proto.state = "WAIT_FILE"
          /\ fr' = fr \/ fr'.state = "IDLE"
      BY <1>7, PrepareEffect, HandlingState
    <2>2. fr'.state # "RECEIVING"
      BY <1>0, <2>1 DEF AnswersMatch
    <2> QED BY <1>2, <2>1, <2>2
  <1>8. CASE SinkBegin \/ SinkBeginFails
    <2>1. /\ proto' = proto /\ pc = "create" /\ fr'.state \in {fr.state, "FAILED"}
      BY <1>0, <1>8, SinkBeginEffect, BeginFailsEffect
    <2>2. fr.state = "IDLE"
      BY <2>1 DEF PipelineInv, StagingOwned
    <2> QED BY <1>2, <2>1, <2>2
  <1>9. CASE HashBegin
    <2>1. fr.state = "IDLE" /\ pc = "hash_begin"
      BY <1>9 DEF HashBegin, PipelineInv, StagingOwned
    <2>2. CASE pc' = "ack"
      <3>1. proto' = [state |-> "RECEIVING", file_active |-> TRUE] /\ handler_active'
        BY <1>9, <2>2 DEF HashBegin
      <3> QED BY <2>2, <3>1 DEF AbortReaches
    <2>3. CASE pc' # "ack"
      BY <1>2, <1>9, <2>1, <2>3 DEF HashBegin
    <2> QED BY <2>2, <2>3
  <1>10. CASE HashUpdate
    <2>1. /\ pc = "hash_update" /\ pc' \in {"ack", "drop"} /\ fr'.state = fr.state
          /\ UNCHANGED <<proto, handler_active>>
      BY <1>0, <1>10, UpdateEffect DEF HashUpdate
    <2> QED BY <1>0, <2>1 DEF AbortReaches
  <1>11. CASE FinishVerified
    <2>1. /\ pc = "handle" /\ pc' \in {"flush", "drop"} /\ fr'.state = fr.state
          /\ UNCHANGED <<proto, handler_active>>
      BY <1>0, <1>11, VerifyEffect DEF FinishVerified, Finishing, Handling
    <2> QED BY <1>0, <2>1 DEF AbortReaches
  <1>12. CASE FinishMismatch \/ FileReceiverFail
    <2>1. proto' = proto /\ fr' = Released("FAILED")
      BY <1>12 DEF FinishMismatch, FileReceiverFail
    <2>2. fr'.state = "FAILED"
      BY <1>0, <2>1 DEF TypeOK, Released, ReceiverType
    <2> QED BY <1>2, <2>1, <2>2
  <1>13. CASE SinkMove
    <2>1. fr'.state = "COMPLETE"
      BY <1>0, <1>13, MoveEffect
    <2>2. proto' = [state |-> "COMPLETE", file_active |-> FALSE]
      BY <1>13 DEF SinkMove
    <2> QED BY <2>1, <2>2 DEF AbortReaches
  <1>14. CASE SendNack
    <2>1. pc = "nack" /\ pc' = "ended" /\ UNCHANGED <<proto, fr, frame, result>>
      BY <1>14 DEF SendNack, fileVars
    <2>2. EarlyEnd => EarlyEnd'
      BY <2>1 DEF EarlyEnd
    <2> QED BY <1>0, <2>1, <2>2 DEF AbortReaches
  <1>15. CASE SendAck
    <2>1. UNCHANGED Standing /\ pc = "ack"
      BY <1>15 DEF SendAck, Standing, fileVars
    <2>2. CASE frame.type = "FILE_END"
      <3>1. proto.state = "COMPLETE"
        BY <1>0, <2>1, <2>2 DEF AnswersMatch
      <3>2. fr.state # "RECEIVING"
        BY <1>0, <2>1, <3>1 DEF AbortReaches
      <3> QED BY <1>2, <2>1, <3>2 DEF Standing
    <2>3. CASE frame.type # "FILE_END"
      BY <1>1, <1>15, <2>1, <2>3 DEF SendAck
    <2> QED BY <2>2, <2>3
  <1>16. CASE NextSession \/ ProcessExit \/ PowerLoss
    <2>1. StartSession
      BY <1>16 DEF NextSession, ProcessExit, PowerLoss
    <2>2. ~proto'.file_active /\ proto'.state = "WAIT_FILE" /\ fr'.state = "IDLE"
      BY <2>1 DEF StartSession, NoReceiver
    <2> QED BY <2>2 DEF AbortReaches
  <1> QED BY <1>3, <1>4, <1>5, <1>6, <1>7, <1>8, <1>9, <1>10, <1>11, <1>12, <1>13, <1>14, <1>15,
             <1>16 DEF Next, Worker

\* The files of the session are known in every step.
LEMMA FilesStep ==
  ASSUME PipelineInv, LoopInv, Next
  PROVE  FilesKnown'
  <1>0. TypeOK /\ AnswersMatch /\ ResourcesKnown /\ FilesKnown
    BY DEF PipelineInv, LoopInv
  <1>1. ASSUME UNCHANGED <<files, before, completed>>, sink'.staging = sink.staging,
               fr.sink_started => fr'.sink_started
        PROVE  FilesKnown'
    BY <1>0, <1>1 DEF FilesKnown
  <1>2. ASSUME AbortResources, NEW st \in {"FAILED", "ABORTED"}, fr' = Released(st),
               UNCHANGED <<before, completed>>
        PROVE  FilesKnown'
    <2>1. /\ files' \subseteq files
          /\ ~MayFail("delete") /\ fr.sink_started => sink.staging \notin files'
      BY <1>0, <1>2, GivenUp
    <2> QED BY <1>0, <1>2, <2>1 DEF FilesKnown
  <1>3. ASSUME Untouched PROVE FilesKnown'
    BY <1>1, <1>3 DEF Untouched
  <1>4. CASE ReceiveError \/ SendAckFails \/ ProtocolFail
    <2>1. /\ UNCHANGED <<before, completed>>
          /\ \/ UNCHANGED <<fr, sink, hash, files>>
             \/ AbortResources /\ fr' = Released("ABORTED")
      BY <1>4, EndEffect, AbortCases
    <2> QED BY <1>1, <1>2, <2>1
  <1>5. CASE \/ ReceiveFrame \/ Malformed \/ Unexpected \/ BeginRefused \/ FinishRefused
             \/ ChunkChecked \/ SinkWrite \/ SinkFlush \/ SinkMoveFails \/ SendNack \/ SendAck
    BY <1>3, <1>5, FrameEffect, RefusalEffect, WriteEffect, NackEffect, AckEffect
  <1>6. CASE BeginPrepare
    <2>1. ~fr.sink_started
      BY <1>0, <1>6, PrepareEffect, HandlingState DEF AnswersMatch, ResourcesKnown
    <2> QED BY <1>0, <1>6, <2>1, PrepareEffect DEF FilesKnown
  <1>7. CASE SinkBegin
    BY <1>0, <1>7, SinkBeginEffect DEF FilesKnown
  <1>8. CASE SinkBeginFails
    BY <1>0, <1>1, <1>8, BeginFailsEffect
  <1>9. CASE HashBegin
    BY <1>0, <1>1, <1>9, HashBeginEffect
  <1>10. CASE HashUpdate
    BY <1>0, <1>1, <1>10, UpdateEffect
  <1>11. CASE FinishVerified
    BY <1>0, <1>1, <1>11, VerifyEffect
  <1>12. CASE FinishMismatch
    BY <1>0, <1>2, <1>12, MismatchEffect
  <1>13. CASE SinkClose
    BY <1>0, <1>1, <1>13, CloseEffect
  <1>14. CASE SinkMove
    <2>1. /\ files' = (files \ {sink.staging}) \cup {sink.final} /\ before' = before
          /\ completed \subseteq completed' /\ \E c \in completed' : c.path = sink.final
      BY <1>0, <1>14, MoveEffect
    <2> QED BY <1>0, <2>1 DEF FilesKnown
  <1>15. CASE FileReceiverFail
    BY <1>2, <1>15, FailEffect
  <1>16. CASE NextSession \/ ProcessExit \/ PowerLoss
    BY <1>16, SessionEffect DEF FilesKnown
  <1> QED BY <1>4, <1>5, <1>6, <1>7, <1>8, <1>9, <1>10, <1>11, <1>12, <1>13, <1>14, <1>15,
             <1>16 DEF Next, Worker

-----------------------------------------------------------------------------
\* The steps of the worker as its sender and its window see them: what is announced and
\* where the file goes, what is delivered, and what is answered.

Promised == <<fr.expected, fr.sha256, sink.final>>

Silent == UNCHANGED <<frame, ack, completed>>

\* A step on the way, or one that gives up.
MovesOn == /\ Silent /\ UNCHANGED Promised /\ proto'.state = proto.state
           /\ pc \notin {"recv", "ended"} /\ pc' \notin {"recv", "handle", "create", "ended"}
           /\ pc' = "hash_begin" => pc = "create"
           /\ pc' = "ack" => frame.type # "FILE_END"
           /\ pc \in {"drop", "fail", "nack"} => pc' = "fail"
           /\ pc = "handle" /\ frame.type = "FILE_BEGIN" => pc' = "fail"

\* pd_win32_receive_begin.
Prepares == /\ Silent /\ pc = "handle" /\ pc' = "create" /\ frame.type = "FILE_BEGIN"
            /\ frame.check = "ok" /\ proto.state = "WAIT_FILE" /\ proto' = proto
            /\ fr'.expected = frame.meta.size /\ fr'.sha256 = frame.meta.sha256
            /\ sink'.final[2] = frame.meta.name

\* The file is begun.
Begins == /\ Silent /\ UNCHANGED Promised /\ frame.type = "FILE_BEGIN"
          /\ pc = "hash_begin" /\ pc' = "ack" /\ proto'.state = "RECEIVING"

\* The file is in place.
Delivers ==
    /\ UNCHANGED <<frame, ack>> /\ UNCHANGED Promised /\ frame.type = "FILE_END"
    /\ pc = "move" /\ pc' = "ack" /\ proto'.state = "COMPLETE"
    /\ completed' = completed \cup {[path |-> sink.final, size |-> fr.expected,
                                     sha256 |-> fr.sha256]}
    /\ \A c \in completed : c.path # sink.final

\* The protocol fails, or the answer cannot be sent.
GivesUp == /\ Silent /\ UNCHANGED Promised
           /\ proto'.state \in {"COMPLETE", "FAILED"}
           /\ (pc = "fail" /\ pc' = "nack") \/ (pc = "ack" /\ pc' = "ended")

\* The refusal is sent, or is not.
Refuses == /\ UNCHANGED <<frame, completed, proto>> /\ UNCHANGED Promised
           /\ pc = "nack" /\ pc' = "ended"
           /\ ack' = ack \/ (ack'.type = frame.type /\ ack'.status # "OK")

\* The frame is acknowledged.
Confirms == /\ UNCHANGED <<frame, completed, proto>> /\ UNCHANGED Promised
            /\ pc = "ack" /\ ack'.type = frame.type /\ ack'.status = "OK"
            /\ \/ /\ frame.type \in {"FILE_BEGIN", "CHUNK"} /\ pc' = "recv"
                  /\ proto.state = "RECEIVING"
               \/ frame.type = "FILE_END" /\ pc' = "ended"

\* What is announced stays as it is until the next file is prepared.
LEMMA ReleaseKeepsPromise ==
  ASSUME TypeOK, NEW st, fr' = Released(st), AbortResources
  PROVE  UNCHANGED Promised
  <1>1. fr'.expected = fr.expected /\ fr'.sha256 = fr.sha256
    BY DEF TypeOK, Released, ReceiverType
  <1>2. sink'.final = sink.final
    BY DEF TypeOK, AbortResources, SinkAbort, SinkType
  <1> QED BY <1>1, <1>2 DEF Promised

\* What a step keeps of what was announced.
LEMMA PromiseKept ==
  ASSUME PipelineInv, ResourcesKnown, Worker
  PROVE  BeginPrepare \/ UNCHANGED Promised
  <1>0. TypeOK
    BY DEF PipelineInv
  <1>1. CASE Malformed \/ Unexpected \/ BeginRefused \/ FinishRefused
    BY <1>1, RefusalEffect DEF Untouched, Promised
  <1>2. CASE SinkBegin \/ SinkBeginFails
    BY <1>0, <1>2 DEF TypeOK, SinkBegin, SinkBeginFails, ReceiverType, SinkType, Promised
  <1>3. CASE HashBegin
    BY <1>0, <1>3 DEF TypeOK, HashBegin, ReceiverType, Promised
  <1>4. CASE HashUpdate
    BY <1>0, <1>4 DEF TypeOK, HashUpdate, ReceiverType, Promised
  <1>5. CASE ChunkChecked \/ SinkWrite \/ SinkFlush \/ SinkMoveFails
    BY <1>5, WriteEffect DEF Untouched, Promised
  <1>6. CASE FinishVerified
    BY <1>0, <1>6 DEF TypeOK, FinishVerified, ReceiverType, Promised
  <1>7. CASE FinishMismatch
    BY <1>0, <1>7, MismatchEffect, ReleaseKeepsPromise
  <1>8. CASE SinkClose
    BY <1>0, <1>8, CloseEffect DEF Promised
  <1>9. CASE SinkMove
    BY <1>0, <1>9 DEF TypeOK, SinkMove, ReceiverType, Promised
  <1>10. CASE FileReceiverFail
    BY <1>0, <1>10, FailEffect, ReleaseKeepsPromise
  <1>11. CASE ProtocolFail \/ SendAckFails
    <2>1. \/ UNCHANGED <<fr, sink, hash, files>>
          \/ AbortResources /\ fr' = Released("ABORTED")
      BY <1>11, EndEffect, AbortCases
    <2> QED BY <1>0, <2>1, ReleaseKeepsPromise DEF Promised
  <1>12. CASE SendNack \/ SendAck
    BY <1>12, NackEffect, AckEffect DEF Untouched, Promised
  <1> QED BY <1>1, <1>2, <1>3, <1>4, <1>5, <1>6, <1>7, <1>8, <1>9, <1>10, <1>11, <1>12
          DEF Worker

\* Every step of the worker is one of these.
LEMMA WorkerSteps ==
  ASSUME PipelineInv, LoopInv, Worker
  PROVE  MovesOn \/ Prepares \/ Begins \/ Delivers \/ GivesUp \/ Refuses \/ Confirms
  <1>0. TypeOK /\ StagingOwned /\ AnswersMatch /\ ResourcesKnown
    BY DEF PipelineInv, LoopInv
  <1>1. BeginPrepare \/ UNCHANGED Promised
    BY <1>0, PromiseKept
  <1>2. CASE Malformed \/ Unexpected \/ BeginRefused \/ FinishRefused
    <2>1. UNCHANGED Promised
      BY <1>2, RefusalEffect DEF Untouched, Promised
    <2> QED BY <1>2, <2>1, RefusalEffect DEF Untouched, MovesOn, Silent
  <1>3. CASE BeginPrepare
    <2>1. CASE pc' = "create"
      <3>1. PICK j \in JobId :
               /\ sink' = [final |-> <<j, frame.meta.name>>,
                           staging |-> <<j, Part[frame.meta.name]>>, open |-> FALSE]
               /\ fr' = [NoReceiver EXCEPT !.expected = frame.meta.size,
                                           !.sha256 = frame.meta.sha256]
        BY <1>3, <2>1 DEF BeginPrepare, Refuse
      <3>2. fr'.expected = frame.meta.size /\ fr'.sha256 = frame.meta.sha256
        BY <3>1 DEF NoReceiver
      <3>3. sink'.final[2] = frame.meta.name
        BY <3>1
      <3>4. frame.check = "ok"
        BY <1>3 DEF BeginPrepare
      <3> QED BY <1>3, <2>1, <3>2, <3>3, <3>4, PrepareEffect, HandlingState DEF Prepares, Silent
    <2>2. CASE pc' # "create"
      BY <1>3, <2>2, PrepareEffect, HandlingState DEF MovesOn, Silent, Promised
    <2> QED BY <2>1, <2>2
  <1>4. CASE SinkBegin \/ SinkBeginFails
    <2>1. frame.type = "FILE_BEGIN" /\ pc = "create"
      BY <1>0, <1>4 DEF StagingOwned, SinkBegin, SinkBeginFails
    <2>2. UNCHANGED Promised
      BY <1>1, <2>1 DEF BeginPrepare, Handling
    <2> QED BY <1>0, <1>4, <2>1, <2>2, SinkBeginEffect, BeginFailsEffect DEF MovesOn, Silent
  <1>5. CASE HashBegin
    <2>1. frame.type = "FILE_BEGIN" /\ pc = "hash_begin"
      BY <1>0, <1>5 DEF StagingOwned, HashBegin
    <2>2. UNCHANGED Promised
      BY <1>1, <2>1 DEF BeginPrepare, Handling
    <2> QED BY <1>0, <1>5, <2>1, <2>2, HashBeginEffect DEF MovesOn, Begins, Silent
  <1>6. CASE HashUpdate
    <2>1. frame.type = "CHUNK" /\ pc = "hash_update"
      BY <1>0, <1>6 DEF StagingOwned, HashUpdate
    <2>2. UNCHANGED Promised
      BY <1>1, <2>1 DEF BeginPrepare, Handling
    <2> QED BY <1>0, <1>6, <2>1, <2>2, UpdateEffect DEF MovesOn, Silent
  <1>7. CASE ChunkChecked \/ SinkWrite \/ SinkFlush \/ SinkMoveFails
    <2>1. UNCHANGED Promised
      BY <1>7, WriteEffect DEF Untouched, Promised
    <2> QED BY <1>7, <2>1, WriteEffect, HandlingState DEF MovesOn, Silent, Untouched
  <1>8. CASE FinishVerified
    <2>1. frame.type = "FILE_END" /\ pc = "handle"
      BY <1>8, HandlingState DEF FinishVerified, Finishing
    <2>2. UNCHANGED Promised
      BY <1>1, <2>1 DEF BeginPrepare, Handling
    <2> QED BY <1>0, <1>8, <2>1, <2>2, VerifyEffect DEF MovesOn, Silent
  <1>9. CASE FinishMismatch
    <2>1. frame.type = "FILE_END" /\ pc = "handle"
      BY <1>9, HandlingState DEF FinishMismatch, Finishing
    <2>2. UNCHANGED Promised
      BY <1>1, <2>1 DEF BeginPrepare, Handling
    <2> QED BY <1>0, <1>9, <2>1, <2>2, MismatchEffect DEF MovesOn, Silent
  <1>10. CASE SinkClose
    <2>2. UNCHANGED Promised
      BY <1>0, <1>1, <1>10, CloseEffect DEF BeginPrepare, Handling
    <2> QED BY <1>0, <1>10, <2>2, CloseEffect DEF MovesOn, Silent
  <1>11. CASE SinkMove
    <2>1. frame.type = "FILE_END" /\ pc = "move"
      BY <1>0, <1>11 DEF StagingOwned, SinkMove
    <2>2. UNCHANGED Promised
      BY <1>1, <2>1 DEF BeginPrepare, Handling
    <2>3. \A c \in completed : c.path # sink.final
      BY <1>11 DEF SinkMove, PipelineInv, DeliveredIntact
    <2>4. /\ completed' = completed \cup {[path |-> sink.final, size |-> fr.expected,
                                           sha256 |-> fr.sha256]}
          /\ proto'.state = "COMPLETE" /\ pc' = "ack" /\ UNCHANGED <<frame, ack>>
      BY <1>11 DEF SinkMove
    <2> QED BY <2>1, <2>2, <2>3, <2>4 DEF Delivers
  <1>12. CASE FileReceiverFail
    BY <1>1, <1>12, FailEffect DEF MovesOn, Silent, BeginPrepare, Handling
  <1>13. CASE ProtocolFail \/ SendAckFails
    <2>1. proto'.state \in {"COMPLETE", "FAILED"}
      BY <1>13 DEF ProtocolFail, SendAckFails, ProtocolAbort, FailedProtocol
    <2> QED BY <1>1, <1>13, <2>1, EndEffect DEF GivesUp, Silent, BeginPrepare, Handling,
                                                ProtocolFail, SendAckFails
  <1>14. CASE SendNack
    <2>1. ack' = ack \/ ack'.type = frame.type
      BY <1>14 DEF SendNack, Ack
    <2> QED BY <1>1, <1>14, <2>1, NackEffect DEF Refuses, Untouched, BeginPrepare, Handling
  <1>15. CASE SendAck
    BY <1>0, <1>1, <1>15, AckEffect DEF Confirms, Untouched, BeginPrepare, Handling, AnswersMatch
  <1> QED BY <1>2, <1>3, <1>4, <1>5, <1>6, <1>7, <1>8, <1>9, <1>10, <1>11, <1>12, <1>13, <1>14,
             <1>15 DEF Worker

-----------------------------------------------------------------------------
\* The theorems.

\* LoopInv holds when the first session starts.
LEMMA LoopInit == Init => LoopInv
  BY DEF Init, LoopInv, AnswersMatch, ResourcesKnown, FilesKnown, AbortReaches, EventsMatch,
         NoReceiver, NoSink, NoHash, NoAck

\* Every step keeps LoopInv.
LEMMA LoopNext == PipelineInv /\ LoopInv /\ [Next]_vars => LoopInv'
  <1> SUFFICES ASSUME PipelineInv, LoopInv, [Next]_vars PROVE LoopInv'
    OBVIOUS
  <1>1. CASE Next
    BY <1>1, AnswersStep, ResourcesStep, FilesStep, ReachesStep, EventsStep DEF LoopInv
  <1>2. CASE UNCHANGED vars
    BY <1>2 DEF vars, loopVars, fileVars, diskVars, history, LoopInv, AnswersMatch,
                ResourcesKnown, FilesKnown, AbortReaches, EarlyEnd, EventsMatch, Delivered
  <1> QED BY <1>1, <1>2

\* LoopInv holds in every reachable state of the receiving side.
THEOREM LoopInvariant == Spec => [](PipelineInv /\ LoopInv)
  BY LoopInit, LoopNext, PipelineInvariant, PTL DEF Spec

\* While the loop waits for more of a file, what it last acknowledged is on the disk and
\* hashed (pd_loop_send_ack).
THEOREM AcknowledgedBytesStaged == Spec => []AcknowledgedIsStaged
  <1>1. PipelineInv /\ LoopInv => AcknowledgedIsStaged
    <2> SUFFICES ASSUME PipelineInv, LoopInv, pc = "recv", proto.state = "RECEIVING"
                 PROVE  /\ sink.staging \in files
                        /\ data[sink.staging] = hash.bytes
                        /\ ack.status = "OK"
                        /\ ack.received = Len(data[sink.staging])
      BY DEF AcknowledgedIsStaged
    <2>1. fr.state = "RECEIVING" /\ ack.status = "OK" /\ ack.received = fr.received
      BY DEF LoopInv, AnswersMatch
    <2> QED BY <2>1 DEF PipelineInv, StagingOwned, StagedBytes
  <1> QED BY <1>1, LoopInvariant, PTL

\* The window and the sender are told of a finished transfer only when the file is in
\* its place (COMPLETE event, OK for FILE_END).
THEOREM CompleteIsDelivered == Spec => []CompleteMeansDelivered
  <1>1. LoopInv => CompleteMeansDelivered
    BY DEF LoopInv, AnswersMatch, CompleteMeansDelivered, Delivered
  <1> QED BY <1>1, LoopInvariant, PTL

\* A loop that has returned holds no handle, no hash context and no staging file, as
\* long as DeleteFileW works, whatever ended it but an empty FILE_END before the last byte.
THEOREM NothingHeldAtEnd == Spec => []ReleasedAtEnd
  <1>1. LoopInv => ReleasedAtEnd
    <2> SUFFICES ASSUME LoopInv, pc = "ended", ~EarlyEnd, ~MayFail("delete")
                 PROVE  HoldsNothing
      BY DEF ReleasedAtEnd
    <2>0. fr.state # "RECEIVING"
      BY DEF LoopInv, AbortReaches
    <2>1. ~fr.sink_started /\ ~fr.integrity_started
      BY <2>0 DEF LoopInv, ResourcesKnown
    <2> QED BY <2>1 DEF LoopInv, ResourcesKnown, FilesKnown, HoldsNothing
  <1> QED BY <1>1, LoopInvariant, PTL

\* The window sees the events in the order it relies on.
THEOREM EventsAreInOrder == Spec => EventsInOrder
  <1>1. PipelineInv /\ LoopInv /\ [Next]_vars =>
           [event' \in {event, "READY"} \cup EventAfter(event)]_vars
    <2> SUFFICES ASSUME PipelineInv, LoopInv, Next
                 PROVE  event' \in {event, "READY"} \cup EventAfter(event)
      OBVIOUS
    <2>0. TypeOK /\ EventsMatch /\ AnswersMatch
      BY DEF PipelineInv, LoopInv
    <2>1. CASE ReceiveFrame
      BY <2>0, <2>1, FrameEffect DEF EventsMatch, EventAfter
    <2>2. CASE SendAck
      BY <2>0, <2>2, AckEffect DEF EventsMatch, EventAfter
    <2>3. CASE event' = "FAILED" /\ pc # "ended"
      BY <2>0, <2>3 DEF EventsMatch, EventAfter, TypeOK, Step
    <2>4. CASE event' \in {event, "READY"}
      BY <2>4
    <2>5. ReceiveError \/ SendAckFails \/ ProtocolFail \/ SendNack =>
             (event' = "FAILED" /\ pc # "ended") \/ event' = event
      BY EndEffect, NackEffect
    <2>6. NextSession \/ ProcessExit \/ PowerLoss => event' = "READY"
      BY SessionEffect
    <2>7. CASE \/ Malformed \/ Unexpected \/ BeginRefused \/ BeginPrepare \/ SinkBegin
               \/ SinkBeginFails \/ HashBegin \/ ChunkChecked \/ SinkWrite \/ HashUpdate
               \/ FinishRefused \/ FinishVerified \/ FinishMismatch \/ SinkFlush \/ SinkClose
               \/ SinkMove \/ SinkMoveFails \/ FileReceiverFail
      BY <2>7 DEF Malformed, Unexpected, BeginRefused, BeginPrepare, SinkBegin, SinkBeginFails,
             HashBegin, ChunkChecked, SinkWrite, HashUpdate, FinishRefused, FinishVerified,
             FinishMismatch, SinkFlush, SinkClose, SinkMove, SinkMoveFails, FileReceiverFail
    <2> QED BY <2>1, <2>2, <2>3, <2>4, <2>5, <2>6, <2>7 DEF Next, Worker
  <1> QED BY <1>1, LoopInvariant, PTL DEF Spec, EventsInOrder
=============================================================================
