--------------------------- MODULE TransferProofs ---------------------------
(***************************************************************************)
(* A transfer from end to end, for any files, chunk sizes, failures and    *)
(* number of sessions: page and receiver go in lock step, and "File sent"  *)
(* is true.                                                                *)
(*                                                                         *)
(* The receiver of Transfer takes only steps of ReceivePipeline, so the    *)
(* invariants proved of that module hold here (Receiver).  The inductive   *)
(* invariant adds what page, queues and loop know of each other.           *)
(***************************************************************************)
EXTENDS Transfer, FiniteSetTheorems, SequenceTheorems, TLAPS

P == INSTANCE ReceiveLoopProofs

-----------------------------------------------------------------------------
\* The inductive invariant.

Begin(f) == [type |-> "FILE_BEGIN", check |-> "ok",
             meta |-> [size |-> Len(f.bytes), sha256 |-> Sha256(f.bytes), name |-> f.name]]
UpFrame == {Begin(f) : f \in File}
    \cup [type : {"CHUNK", "FILE_END"}, check : {"ok"},
          bytes : Seq(Byte) \cup {Altered(s) : s \in Seq(Byte)}]

Busy == page \in {"send", "wait"}

\* The page and its locals.
PageKnown ==
    /\ page \in {"ready", "hash", "connect", "send", "wait", "sent", "failed", "gone"}
    /\ sock \in {"none", "open", "closed"}
    /\ up \in Seq(UpFrame) /\ down \in Seq(P!AckType)
    /\ tx = [file |-> tx.file, digest |-> tx.digest, next |-> tx.next, offset |-> tx.offset,
             end |-> tx.end]
    /\ tx.offset \in Nat /\ tx.end \in Nat
    /\ page = "hash" => tx.file \in File
    /\ page \in {"connect", "send", "wait", "sent"} =>
          tx.file \in File /\ tx.digest = Sha256(tx.file.bytes)
    /\ page \in {"hash", "connect"} => tx.next = "FILE_BEGIN"
    /\ Busy => tx.next \in {"FILE_BEGIN", "CHUNK", "FILE_END"}

\* The bridge.  Before a page joins it, the receiver is fresh and nothing is under way.
LinkKnown ==
    /\ link \in {"none", "joined", "doomed", "cancelled"}
    /\ session \in Nat /\ opened \in Nat /\ opened <= session
    /\ sock = "open" => link \in {"joined", "doomed"} /\ Busy
    /\ link \in {"joined", "doomed"} => opened = session /\ (Busy => sock = "open")
    /\ link = "none" => /\ up = <<>> /\ pc = "recv" /\ proto.state = "WAIT_FILE"
                        /\ opened = session => down = <<>>

\* What a sender that waits, or has left after its first frame, has under way: its frame,
\* or the answer to it.
OneUnderWay ==
    \/ pc = "recv" /\ up = <<>> /\ proto.state = "RECEIVING" /\ Len(down) <= 1
    \/ pc = "recv" /\ Len(up) = 1 /\ down = <<>>
    \/ pc \notin {"recv", "ended"} /\ up = <<>> /\ down = <<>>
    \/ pc = "ended" /\ up = <<>> /\ Len(down) <= 1

Carries(f) == f.type = tx.next /\ (tx.next = "FILE_BEGIN" => f = Begin(tx.file))

\* The file the receiver is at is the one of the page.
Announced == /\ fr.expected = Len(tx.file.bytes) /\ fr.sha256 = tx.digest
             /\ sink.final[2] = tx.file.name

\* A sender nobody comes before: it has its frame under way, or the answer to it, and the
\* receiver is at its file.
InStep ==
    /\ page = "send" =>
          /\ up = <<>> /\ down = <<>> /\ pc = "recv"
          /\ proto.state = IF tx.next = "FILE_BEGIN" THEN "WAIT_FILE" ELSE "RECEIVING"
    /\ page = "wait" =>
          /\ OneUnderWay
          /\ up # <<>> => Carries(Head(up))
          /\ pc \notin {"recv", "ended"} => Carries(frame)
          /\ down # <<>> =>
                /\ Head(down).type = tx.next
                /\ pc = "ended" /\ Head(down).status = "OK" => tx.next = "FILE_END"
    /\ \/ proto.state = "RECEIVING"
       \/ pc \in {"create", "hash_begin"}
       \/ tx.next # "FILE_BEGIN"
       => Announced

\* The receiver as it is before the first frame.
Untouched == pc = "recv" /\ proto.state = "WAIT_FILE" /\ up = <<>> /\ down = <<>>

\* The first sender of a session, and what it leaves: something under way, or nothing when
\* encodeFileBegin refuses the name.
FirstSender ==
    /\ link = "joined" /\ Busy => InStep
    /\ link = "joined" /\ ~Busy /\ page # "gone" => OneUnderWay \/ Untouched

\* The receiver has ended, gives up, or is about to be given a FILE_BEGIN while it receives.
Barred ==
    \/ pc \in {"drop", "fail", "nack", "ended"}
    \/ pc = "handle" /\ frame.type = "FILE_BEGIN" /\ proto.state = "RECEIVING"
    \/ pc = "recv" /\ proto.state = "RECEIVING" /\ up # <<>> /\ Head(up).type = "FILE_BEGIN"

OneOk == \A i, j \in 1 .. Len(down) : down[i].status = "OK" /\ down[j].status = "OK" => i = j
NoOk == \A i \in 1 .. Len(down) : down[i].status # "OK"

\* A sender that follows one whose frames have reached the receiver may take the answer to
\* the FILE_BEGIN of the first for its own, but its FILE_BEGIN ends the loop before anything
\* is delivered.
Behind ==
    /\ page = "send" /\ tx.next = "FILE_BEGIN" => OneUnderWay
    /\ page = "wait" /\ tx.next = "FILE_BEGIN" =>
          \/ Barred /\ OneOk
          \/ pc = "recv" /\ Len(up) = 2 /\ up[2].type = "FILE_BEGIN" /\ down = <<>>
          \/ pc \notin {"recv", "ended"} /\ Len(up) = 1 /\ up[1].type = "FILE_BEGIN" /\ down = <<>>
    /\ tx.next # "FILE_BEGIN" => Barred /\ NoOk

\* The second sender of a session follows one that has sent nothing, or is barred.
SecondSender == link = "doomed" /\ Busy => InStep \/ Behind

\* An answer that says the file is delivered.
Confirming == \E i \in 1 .. Len(down) : down[i].type = "FILE_END" /\ down[i].status = "OK"

Fulfilled == \E c \in completed : /\ c.path[2] = tx.file.name /\ c.size = Len(tx.file.bytes)
                                  /\ c.sha256 = tx.digest

Answering == pc = "ack" /\ frame.type = "FILE_END"

\* Such an answer is about the file of the page that waits for it.
Truthful ==
    /\ Answering => [path |-> sink.final, size |-> fr.expected, sha256 |-> fr.sha256] \in completed
    /\ page = "wait" /\ tx.next = "FILE_END" /\ Confirming => Fulfilled
    /\ page = "sent" => Fulfilled

\* The deliveries of which a page may still hear.
Unheard == (IF page \notin {"sent", "gone"} /\ Confirming THEN 1 ELSE 0)
           + (IF Answering THEN 1 ELSE 0)

Counted == /\ confirmed \in Nat /\ IsFiniteSet(completed)
           /\ confirmed + Unheard <= Cardinality(completed)

Receiver == P!PipelineInv /\ P!LoopInv
TransferInv == /\ Receiver /\ PageKnown /\ LinkKnown
               /\ FirstSender /\ SecondSender /\ Truthful /\ Counted

-----------------------------------------------------------------------------
\* The receiver of Transfer is a ReceivePipeline.

\* The two instances of ReceivePipeline are the same.
LEMMA SameReceiver ==
  /\ R!Init <=> P!Init
  /\ R!ReceiveFrame <=> P!ReceiveFrame
  /\ R!ReceiveError <=> P!ReceiveError
  /\ R!Worker <=> P!Worker
  /\ R!NextSession <=> P!NextSession
  /\ R!ProcessExit <=> P!ProcessExit
  /\ R!PowerLoss <=> P!PowerLoss
  BY DEF R!Malformed, P!Malformed, R!Unexpected, P!Unexpected, R!BeginRefused, P!BeginRefused,
         R!BeginPrepare, P!BeginPrepare, R!SinkBegin, P!SinkBegin, R!SinkBeginFails,
         P!SinkBeginFails, R!HashBegin, P!HashBegin, R!ChunkChecked, P!ChunkChecked, R!SinkWrite,
         P!SinkWrite, R!HashUpdate, P!HashUpdate, R!FinishRefused, P!FinishRefused,
         R!FinishVerified, P!FinishVerified, R!FinishMismatch, P!FinishMismatch, R!SinkFlush,
         P!SinkFlush, R!SinkClose, P!SinkClose, R!SinkMove, P!SinkMove, R!SinkMoveFails,
         P!SinkMoveFails, R!FileReceiverFail, P!FileReceiverFail, R!ProtocolFail, P!ProtocolFail,
         R!SendNack, P!SendNack, R!SendAck, P!SendAck, R!SendAckFails, P!SendAckFails, R!Path,
         P!Path, R!Meta, P!Meta, R!MessageType, P!MessageType, R!Frame, P!Frame, R!fileVars,
         P!fileVars, R!diskVars, P!diskVars, R!history, P!history, R!NoSink, P!NoSink, R!NoHash,
         P!NoHash, R!NoReceiver, P!NoReceiver, R!NoAck, P!NoAck, R!MayFail, P!MayFail, R!Init,
         P!Init, R!StartSession, P!StartSession, R!SinkAbort, P!SinkAbort, R!AbortResources,
         P!AbortResources, R!Released, P!Released, R!FileReceiverAbort, P!FileReceiverAbort,
         R!HandlerAbort, P!HandlerAbort, R!AbortFile, P!AbortFile, R!FailedProtocol,
         P!FailedProtocol, R!ProtocolAbort, P!ProtocolAbort, R!ReceiveFrame, P!ReceiveFrame,
         R!ReceiveError, P!ReceiveError, R!Refuse, P!Refuse, R!HeaderValid, P!HeaderValid,
         R!Expected, P!Expected, R!Handling, P!Handling, R!ChunkFits, P!ChunkFits, R!Finishing,
         P!Finishing, R!DigestEqual, P!DigestEqual, R!ShouldAck, P!ShouldAck, R!ErrorStatus,
         P!ErrorStatus, R!Ack, P!Ack, R!NextSession, P!NextSession, R!ProcessExit, P!ProcessExit,
         R!PowerLoss, P!PowerLoss, R!Worker, P!Worker

\* The assumptions of ReceivePipeline.
LEMMA ReceiverConstants ==
  /\ Name \subseteq FileName /\ Part \in [Name -> FileName] /\ \A n \in Name : Part[n] # n
  /\ None \notin JobId \X FileName
  /\ Size \subseteq Nat /\ Payload \subseteq Seq(Byte) /\ MaxPayload \in Nat
  /\ Faults \subseteq P!FaultKinds
  BY ReceiverAssumption DEF R!FaultKinds, P!FaultKinds

\* Every step is one of the receiver or leaves it alone.
LEMMA ReceiverStep == [Next]_vars => [P!Next]_(P!vars)
  <1> SUFFICES ASSUME [Next]_vars PROVE [P!Next]_(P!vars)
    OBVIOUS
  <1>1. UNCHANGED receiverVars => UNCHANGED P!vars
    BY DEF receiverVars, P!vars, P!loopVars, P!fileVars, P!diskVars, P!history
  <1>2. CASE Connect \/ ConnectFails \/ PageRuns \/ UserActs \/ OpenPage
    BY <1>1, <1>2 DEF Connect, ConnectFails, PageRuns, UserActs, OpenPage
  <1>3. CASE Deliver \/ Work \/ Lose
    BY <1>3, SameReceiver DEF Deliver, Work, Lose, P!Next
  <1>4. CASE RelayCancels \/ RelayCloses \/ Break
    BY <1>1, <1>4 DEF RelayCancels, RelayCloses, Break, Cancel
  <1>5. CASE Again \/ Restart
    BY <1>5, SameReceiver DEF Again, Restart, P!Next
  <1>6. CASE UNCHANGED vars
    BY <1>1, <1>6 DEF vars
  <1> QED BY <1>2, <1>3, <1>4, <1>5, <1>6 DEF Next

\* What is proved of ReceivePipeline holds of the receiver here.
LEMMA ReceiverInit == Init => Receiver
  BY P!InitInv, P!LoopInit, ReceiverConstants, SameReceiver DEF Init, Receiver

\* Every step keeps the invariants of the receiver.
LEMMA ReceiverNext == Receiver /\ [Next]_vars => Receiver'
  BY P!NextInv, P!LoopNext, ReceiverConstants, ReceiverStep DEF Receiver

\* The steps of the worker.
LEMMA WorkSteps ==
  ASSUME Receiver, R!Worker
  PROVE  P!MovesOn \/ P!Prepares \/ P!Begins \/ P!Delivers \/ P!GivesUp \/ P!Refuses \/ P!Confirms
  BY P!WorkerSteps, ReceiverConstants, SameReceiver DEF Receiver

-----------------------------------------------------------------------------
\* Queues that lose messages.

\* t has only messages of s, and no more of them.
Within(t, s) == /\ t \in Seq(P!AckType) /\ Len(t) <= Len(s)
                /\ \A i \in 1 .. Len(t) : \E j \in 1 .. Len(s) : t[i] = s[j]

\* A part of a queue.
LEMMA Cut ==
  ASSUME NEW T, NEW s \in Seq(T), NEW m \in 0 .. Len(s), NEW n \in m .. Len(s)
  PROVE  LET t == SubSeq(s, m + 1, n)
         IN  t \in Seq(T) /\ Len(t) = n - m /\ \A i \in 1 .. Len(t) : t[i] = s[m + i]
  <1> DEFINE t == SubSeq(s, m + 1, n)
  <1>1. \A i \in m + 1 .. n : i \in 1 .. Len(s)
    OBVIOUS
  <1>2. t \in Seq(T)
    BY <1>1, SubSeqProperties
  <1>3. Len(t) = IF m + 1 <= n THEN n - (m + 1) + 1 ELSE 0
    BY <1>1, SubSeqProperties
  <1>4. \A i \in 1 .. n - (m + 1) + 1 : t[i] = s[m + 1 + i - 1]
    BY <1>1, SubSeqProperties
  <1> HIDE DEF t
  <1>5. m \in Nat /\ n \in Nat /\ m <= n
    BY LenProperties
  <1>6. Len(t) = n - m
    BY <1>3, <1>5
  <1>7. ASSUME NEW i \in 1 .. Len(t) PROVE t[i] = s[m + i]
    <2>1. i \in 1 .. n - (m + 1) + 1 /\ m + 1 + i - 1 = m + i
      BY <1>5, <1>6
    <2> QED BY <1>4, <2>1
  <1> QED BY <1>2, <1>6, <1>7 DEF t

\* closeActiveSocket, and the relay's cancelled writers, lose messages.
LEMMA CloseLoses ==
  ASSUME PageKnown, S!CloseSocket
  PROVE  Within(down', down) /\ sock' # "open" /\ sock' \in {"none", "open", "closed"}
  <1>1. PICK n \in 0 .. Len(down) : down' = SubSeq(down, n + 1, Len(down))
    BY DEF S!CloseSocket
  <1>2. down \in Seq(P!AckType)
    BY DEF PageKnown
  <1>3. n \in 0 .. Len(down) /\ Len(down) \in n .. Len(down)
    BY <1>2, LenProperties
  <1>4. /\ down' \in Seq(P!AckType) /\ Len(down') = Len(down) - n
        /\ \A i \in 1 .. Len(down') : down'[i] = down[n + i]
    BY <1>1, <1>2, <1>3, Cut
  <1>5. Len(down') <= Len(down) /\ \A i \in 1 .. Len(down') : n + i \in 1 .. Len(down)
    BY <1>2, <1>3, <1>4, LenProperties
  <1>6. sock' # "open" /\ sock' \in {"none", "open", "closed"}
    BY DEF S!CloseSocket, PageKnown
  <1> QED BY <1>4, <1>5, <1>6 DEF Within

\* So do a cancelled bridge and a session that is over.
LEMMA TruncateLoses ==
  ASSUME PageKnown, NEW n \in 0 .. Len(down),
         down' = IF sock = "open" THEN SubSeq(down, 1, n) ELSE <<>>
  PROVE  Within(down', down)
  <1>2. down \in Seq(P!AckType) /\ Len(down) \in Nat
    BY LenProperties DEF PageKnown
  <1>3. CASE sock = "open"
    <2>1. n \in 0 .. Len(down) /\ 0 \in 0 .. Len(down)
      BY <1>2
    <2>2. /\ down' \in Seq(P!AckType) /\ Len(down') = n - 0
          /\ \A i \in 1 .. Len(down') : down'[i] = down[0 + i]
      <3>1. down' = SubSeq(down, 0 + 1, n)
        BY <1>3
      <3>2. n \in 0 .. Len(down) /\ 0 \in 0 .. Len(down)
        BY <1>2
      <3> QED BY <1>2, <3>1, <3>2, Cut
    <2>3. Len(down') <= Len(down) /\ \A i \in 1 .. Len(down') : i \in 1 .. Len(down) /\ 0 + i = i
      BY <1>2, <2>1, <2>2
    <2> QED BY <2>2, <2>3 DEF Within
  <1>4. CASE sock # "open"
    <2>1. down' = <<>> /\ <<>> \in Seq(P!AckType) /\ Len(<<>>) = 0
      BY <1>4, EmptySeq
    <2> QED BY <1>2, <2>1 DEF Within
  <1> QED BY <1>3, <1>4

\* What the invariant says of a queue it says of what is left of it.
LEMMA WithinFacts ==
  ASSUME PageKnown, Within(down', down)
  PROVE  /\ down = <<>> => down' = <<>>
         /\ Len(down) <= 1 => Len(down') <= 1
         /\ Confirming' => Confirming
  <1>1. down \in Seq(P!AckType) /\ down' \in Seq(P!AckType) /\ Len(down) \in Nat /\ Len(down') \in Nat
    BY LenProperties DEF PageKnown, Within
  <1>2. down = <<>> => down' = <<>>
    <2> SUFFICES ASSUME down = <<>> PROVE down' = <<>>
      OBVIOUS
    <2>1. Len(down) = 0
      BY EmptySeq
    <2>2. Len(down') = 0
      BY <1>1, <2>1 DEF Within
    <2> QED BY <1>1, <2>2, EmptySeq
  <1>3. Len(down) <= 1 => Len(down') <= 1
    BY <1>1 DEF Within
  <1>4. Confirming' => Confirming
    BY DEF Confirming, Within
  <1> QED BY <1>2, <1>3, <1>4

\* The locals of the page after an assignment.
LEMMA TxFields ==
  ASSUME PageKnown
  PROVE  /\ \A e : LET t == [tx EXCEPT !.end = e]
                   IN  t = [file |-> tx.file, digest |-> tx.digest, next |-> tx.next,
                            offset |-> tx.offset, end |-> e]
         /\ \A d : LET t == [tx EXCEPT !.digest = d]
                   IN  t = [file |-> tx.file, digest |-> d, next |-> tx.next,
                            offset |-> tx.offset, end |-> tx.end]
         /\ \A o, x : LET t == [tx EXCEPT !.offset = o, !.next = x]
                      IN  t = [file |-> tx.file, digest |-> tx.digest, next |-> x,
                               offset |-> o, end |-> tx.end]
  <1> DEFINE f == tx.file  d0 == tx.digest  n == tx.next  o0 == tx.offset  e0 == tx.end
  <1>1. tx = [file |-> f, digest |-> d0, next |-> n, offset |-> o0, end |-> e0]
    BY DEF PageKnown
  <1> HIDE DEF f, d0, n, o0, e0
  <1>2. ASSUME NEW e
        PROVE  [tx EXCEPT !.end = e]
                  = [file |-> f, digest |-> d0, next |-> n, offset |-> o0, end |-> e]
    BY <1>1
  <1>3. ASSUME NEW d
        PROVE  [tx EXCEPT !.digest = d]
                  = [file |-> f, digest |-> d, next |-> n, offset |-> o0, end |-> e0]
    BY <1>1
  <1>4. ASSUME NEW o, NEW x
        PROVE  [tx EXCEPT !.offset = o, !.next = x]
                  = [file |-> f, digest |-> d0, next |-> x, offset |-> o, end |-> e0]
    <2>1. tx \in [file : {f}, digest : {d0}, next : {n, x}, offset : {o0, o}, end : {e0}]
      BY <1>1
    <2> DEFINE t == [tx EXCEPT !.offset = o, !.next = x]
    <2>2. /\ t \in [file : {f}, digest : {d0}, next : {n, x}, offset : {o0, o}, end : {e0}]
          /\ t.next = x /\ t.offset = o
      BY <2>1
    <2> HIDE DEF t
    <2>3. t = [file |-> f, digest |-> d0, next |-> x, offset |-> o, end |-> e0]
      BY <2>2
    <2> QED BY <2>3 DEF t
  <1> QED BY <1>2, <1>3, <1>4 DEF f, d0, n, o0, e0

-----------------------------------------------------------------------------
\* The page.

Ends == PageKnown /\ LinkKnown /\ FirstSender /\ SecondSender /\ Truthful /\ Counted

\* What a step of the page leaves alone.
Receiving == UNCHANGED <<pc, frame, proto, fr, sink, completed>>

\* It does so when it leaves the receiver alone.
LEMMA PageOnly ==
  ASSUME UNCHANGED receiverVars
  PROVE  Receiving
  BY DEF receiverVars, Receiving

\* What was under way stays so when answers are lost.
LEMMA UnderWayLoses ==
  ASSUME PageKnown, OneUnderWay, Receiving, up' = up, Within(down', down)
  PROVE  OneUnderWay'
  BY WithinFacts DEF OneUnderWay, Receiving

\* Nothing more is to be heard of when answers are lost.
LEMMA CountLoses ==
  ASSUME PageKnown, Counted, Within(down', down), UNCHANGED <<completed, confirmed>>,
         Answering' => Answering, page' \in {"sent", "gone"} \/ page \notin {"sent", "gone"}
  PROVE  Counted'
  <1>1. Confirming' => Confirming
    BY WithinFacts
  <1>2. Unheard' \in Nat /\ Unheard \in Nat /\ Unheard' <= Unheard
    BY <1>1 DEF Unheard
  <1>3. confirmed \in Nat /\ Cardinality(completed) \in Nat
    BY FS_CardinalityType DEF Counted
  <1> QED BY <1>2, <1>3 DEF Counted

\* A page that gives up, or is left.
LEMMA LeaveStep ==
  ASSUME Ends, Receiving, UNCHANGED <<link, session, opened, confirmed, tx, up>>,
         S!CloseSocket,
         \/ page' = "gone"
         \/ page' = "failed" /\ page \in {"hash", "connect", "send", "wait"}
  PROVE  Ends'
  <1>0. PageKnown /\ LinkKnown /\ FirstSender /\ SecondSender /\ Truthful /\ Counted
    BY DEF Ends
  <1>1. Within(down', down) /\ sock' # "open" /\ sock' \in {"none", "open", "closed"} /\ ~Busy'
    BY <1>0, CloseLoses DEF Busy
  <1>2. PageKnown'
    BY <1>0, <1>1 DEF PageKnown, Within, Busy
  <1>3. LinkKnown'
    BY <1>0, <1>1, WithinFacts DEF LinkKnown, Receiving
  <1>4. FirstSender'
    <2>1. Len(<<>>) = 0
      BY EmptySeq
    <2>2. link = "joined" /\ page' # "gone" => OneUnderWay \/ Untouched
      BY <1>0, <2>1 DEF FirstSender, InStep, OneUnderWay, Untouched, Busy
    <2>3. OneUnderWay => OneUnderWay'
      BY <1>0, <1>1, UnderWayLoses
    <2>4. Untouched => Untouched'
      BY <1>0, <1>1, WithinFacts DEF Untouched, Receiving
    <2> QED BY <1>0, <1>1, <2>2, <2>3, <2>4 DEF FirstSender
  <1>5. SecondSender'
    BY <1>1 DEF SecondSender
  <1>6. Truthful'
    BY <1>0 DEF Truthful, Receiving, Answering
  <1>7. Counted'
    <2>1. UNCHANGED <<completed, confirmed>> /\ (Answering' => Answering)
      BY DEF Receiving, Answering
    <2> QED BY <1>0, <1>1, <2>1, CountLoses
  <1> QED BY <1>2, <1>3, <1>4, <1>5, <1>6, <1>7 DEF Ends

\* The user picks a file, and the page hashes it.
LEMMA HashStep ==
  ASSUME Ends, Receiving, UNCHANGED <<link, session, opened, confirmed>>, S!Click \/ S!HashFile
  PROVE  Ends'
  <1>0. PageKnown /\ LinkKnown /\ FirstSender /\ SecondSender /\ Truthful /\ Counted
    BY DEF Ends
  <1>1. /\ ~Busy /\ ~Busy' /\ page \notin {"sent", "gone"} /\ page' \in {"hash", "connect"}
        /\ UNCHANGED <<sock, up, down>>
    BY DEF S!Click, S!HashFile, Busy
  <1>2. PageKnown'
    <2>1. CASE S!Click
      <3>1. PICK f \in File : tx' = [S!NoTx EXCEPT !.file = f]
        BY <2>1 DEF S!Click
      <3>2. tx' = [file |-> f, digest |-> Sha256(<<>>), next |-> "FILE_BEGIN", offset |-> 0, end |-> 0]
        BY <3>1 DEF S!NoTx
      <3>3. page' = "hash"
        BY <2>1 DEF S!Click
      <3> QED BY <1>0, <1>1, <3>2, <3>3 DEF PageKnown, Busy
    <2>2. CASE S!HashFile
      <3>1. /\ page = "hash" /\ page' = "connect"
            /\ tx' = [file |-> tx.file, digest |-> Sha256(tx.file.bytes), next |-> tx.next,
                      offset |-> tx.offset, end |-> tx.end]
        BY <1>0, <2>2, TxFields DEF S!HashFile
      <3> QED BY <1>0, <1>1, <3>1 DEF PageKnown, Busy
    <2> QED BY <2>1, <2>2
  <1>3. LinkKnown'
    BY <1>0, <1>1 DEF LinkKnown, Receiving
  <1>4. FirstSender'
    BY <1>0, <1>1 DEF FirstSender, OneUnderWay, Untouched, Receiving
  <1>5. SecondSender'
    BY <1>1 DEF SecondSender
  <1>6. Truthful'
    BY <1>0, <1>1 DEF Truthful, Receiving, Answering
  <1>7. Counted'
    BY <1>0, <1>1 DEF Counted, Unheard, Confirming, Answering, Receiving
  <1> QED BY <1>2, <1>3, <1>4, <1>5, <1>6, <1>7 DEF Ends

\* The relay lets the page join.
LEMMA ConnectStep ==
  ASSUME Ends, Connect
  PROVE  Ends'
  <1>0. PageKnown /\ LinkKnown /\ FirstSender /\ SecondSender /\ Truthful /\ Counted
    BY DEF Ends
  <1>1. /\ page = "connect" /\ page' = "send" /\ sock' = "open" /\ opened = session
        /\ UNCHANGED <<tx, up, down, session, opened, confirmed>>
        /\ (link = "none" /\ link' = "joined") \/ (link = "joined" /\ link' = "doomed")
        /\ tx.next = "FILE_BEGIN" /\ Receiving
    BY <1>0, PageOnly DEF Connect, CanJoin, S!Opened, PageKnown
  <1>2. PageKnown'
    BY <1>0, <1>1 DEF PageKnown, Busy
  <1>3. LinkKnown'
    BY <1>0, <1>1 DEF LinkKnown, Receiving, Busy
  <1>4. FirstSender'
    BY <1>0, <1>1 DEF FirstSender, InStep, LinkKnown, Receiving, Busy
  <1>5. SecondSender'
    <2>1. CASE link = "joined" /\ OneUnderWay
      <3>1. Behind'
        BY <1>1, <2>1 DEF Behind, OneUnderWay, Receiving
      <3> QED BY <3>1 DEF SecondSender
    <2>2. CASE link = "joined" /\ Untouched
      <3>1. InStep'
        BY <1>1, <2>2 DEF InStep, Untouched, Receiving
      <3> QED BY <3>1 DEF SecondSender
    <2>3. CASE link = "none"
      BY <1>1, <2>3 DEF SecondSender
    <2> QED BY <1>0, <1>1, <2>1, <2>2, <2>3 DEF FirstSender, Busy
  <1>6. Truthful'
    BY <1>0, <1>1 DEF Truthful, Receiving, Answering
  <1>7. Counted'
    BY <1>0, <1>1 DEF Counted, Unheard, Confirming, Answering, Receiving
  <1> QED BY <1>2, <1>3, <1>4, <1>5, <1>6, <1>7 DEF Ends

\* A page is opened for the session of the receiver.
LEMMA OpenStep ==
  ASSUME Ends, OpenPage
  PROVE  Ends'
  <1>0. PageKnown /\ LinkKnown /\ FirstSender /\ SecondSender /\ Truthful /\ Counted
    BY DEF Ends
  <1>1. /\ page' = "ready" /\ tx' = S!NoTx /\ sock' = "none" /\ down' = <<>> /\ opened' = session
        /\ UNCHANGED <<up, link, session, confirmed>> /\ Receiving /\ opened # session
    BY PageOnly DEF OpenPage
  <1>2. /\ link' \notin {"joined", "doomed"} /\ ~Busy'
    BY <1>0, <1>1 DEF LinkKnown, Busy
  <1>3. <<>> \in Seq(P!AckType) /\ Len(<<>>) = 0
    BY EmptySeq
  <1>4. PageKnown'
    BY <1>0, <1>1, <1>3 DEF PageKnown, Busy, S!NoTx
  <1>5. LinkKnown'
    BY <1>0, <1>1, <1>2 DEF LinkKnown, Receiving
  <1>6. FirstSender' /\ SecondSender'
    BY <1>2 DEF FirstSender, SecondSender
  <1>7. Truthful'
    BY <1>0, <1>1 DEF Truthful, Receiving, Answering
  <1>8. ~Confirming'
    BY <1>1, <1>3 DEF Confirming
  <1>9. Counted'
    <2>1. Unheard' \in Nat /\ Unheard \in Nat /\ Unheard' <= Unheard
      BY <1>1, <1>8 DEF Unheard, Answering, Receiving
    <2>2. confirmed \in Nat /\ Cardinality(completed) \in Nat
      BY <1>0, FS_CardinalityType DEF Counted
    <2> QED BY <1>0, <1>1, <2>1, <2>2 DEF Counted, Receiving
  <1> QED BY <1>4, <1>5, <1>6, <1>7, <1>9 DEF Ends

\* A frame on its way.
LEMMA Appended ==
  ASSUME NEW T, NEW s \in Seq(T), NEW e \in T
  PROVE  LET t == Append(s, e)
         IN  /\ t \in Seq(T) /\ Len(t) = Len(s) + 1 /\ t # <<>> /\ t[Len(t)] = e
             /\ \A i \in 1 .. Len(s) : t[i] = s[i]
             /\ s = <<>> => Len(t) = 1 /\ Head(t) = e
             /\ s # <<>> => Head(t) = Head(s) /\ Len(s) > 0
  <1> DEFINE t == Append(s, e)
  <1>1. /\ t \in Seq(T) /\ Len(t) = Len(s) + 1 /\ t[Len(s) + 1] = e
        /\ \A i \in 1 .. Len(s) : t[i] = s[i]
    BY AppendProperties
  <1>2. Len(s) \in Nat
    BY LenProperties
  <1>3. t # <<>> /\ Head(t) = t[1]
    BY AppendProperties, HeadTailProperties
  <1>4. s = <<>> <=> Len(s) = 0
    BY EmptySeq
  <1>5. s # <<>> => Head(s) = s[1]
    BY HeadTailProperties
  <1> HIDE DEF t
  <1>6. s = <<>> => Len(t) = 1 /\ Head(t) = e
    BY <1>1, <1>3, <1>4
  <1>7. s # <<>> => Head(t) = Head(s) /\ Len(s) > 0
    BY <1>1, <1>2, <1>3, <1>4, <1>5
  <1>8. t[Len(t)] = e
    BY <1>1
  <1> QED BY <1>1, <1>3, <1>6, <1>7, <1>8 DEF t

\* sendFrameAndWait: the frame of the page is the only thing under way, or it follows what
\* the first sender left.
LEMMA SendStep ==
  ASSUME Ends, Receiving, UNCHANGED <<link, session, opened, confirmed>>,
         NEW f \in UpFrame, NEW e \in Nat, S!Send(f, e),
         page = "send", sock = "open", Carries(f)
  PROVE  Ends'
  <1>0. PageKnown /\ LinkKnown /\ FirstSender /\ SecondSender /\ Truthful /\ Counted
    BY DEF Ends
  <1>1. /\ up' = Append(up, f) /\ page' = "wait" /\ UNCHANGED <<sock, down>>
        /\ tx' = [file |-> tx.file, digest |-> tx.digest, next |-> tx.next,
                  offset |-> tx.offset, end |-> e]
    BY <1>0, TxFields DEF S!Send
  <1>2. tx'.file = tx.file /\ tx'.digest = tx.digest /\ tx'.next = tx.next
    BY <1>1
  <1>3. /\ up \in Seq(UpFrame) /\ up' \in Seq(UpFrame) /\ Len(up') = Len(up) + 1
        /\ Len(up) \in Nat /\ up' # <<>> /\ up'[Len(up')] = f
        /\ up = <<>> => Len(up') = 1 /\ Head(up') = f
        /\ up # <<>> => Head(up') = Head(up) /\ Len(up) > 0
        /\ up = <<>> <=> Len(up) = 0
    <2>1. up \in Seq(UpFrame)
      BY <1>0 DEF PageKnown
    <2>2. Len(up) \in Nat /\ (up = <<>> <=> Len(up) = 0)
      BY <2>1, LenProperties, EmptySeq
    <2> QED BY <1>1, <2>1, <2>2, Appended
  <1>4. link \in {"joined", "doomed"} /\ Busy /\ Busy'
    BY <1>0, <1>1 DEF LinkKnown, Busy
  <1>5. PageKnown'
    BY <1>0, <1>1, <1>3, <1>4 DEF PageKnown, Busy
  <1>6. LinkKnown'
    BY <1>0, <1>1, <1>4 DEF LinkKnown, Receiving
  <1>7. InStep => InStep'
    <2> SUFFICES ASSUME InStep PROVE InStep'
      OBVIOUS
    <2>1. /\ up = <<>> /\ down = <<>> /\ pc = "recv"
          /\ (proto.state = "RECEIVING" \/ pc \in {"create", "hash_begin"}
                \/ tx.next # "FILE_BEGIN") => Announced
      BY DEF InStep
    <2>2. OneUnderWay'
      BY <1>1, <1>3, <2>1 DEF OneUnderWay, Receiving
    <2>3. Carries(Head(up))'
      BY <1>2, <1>3, <2>1 DEF Carries
    <2>4. Announced => Announced'
      BY <1>2 DEF Announced, Receiving
    <2> QED BY <1>1, <1>2, <2>1, <2>2, <2>3, <2>4 DEF InStep, Receiving
  <1>8. Behind => Behind'
    <2> SUFFICES ASSUME Behind PROVE Behind'
      OBVIOUS
    <2>1. CASE tx.next = "FILE_BEGIN"
      <3>1. OneUnderWay /\ f.type = "FILE_BEGIN"
        BY <2>1 DEF Behind, Carries
      <3>2. down \in Seq(P!AckType) /\ Len(down) \in Nat
        BY <1>0, LenProperties DEF PageKnown
      <3>3. Len(down) <= 1 => OneOk'
        BY <1>1, <3>2 DEF OneOk
      <3>4. CASE pc = "recv" /\ up = <<>> /\ proto.state = "RECEIVING" /\ Len(down) <= 1
        BY <1>1, <1>2, <2>1, <1>3, <3>1, <3>3, <3>4 DEF Behind, Barred, Receiving
      <3>5. CASE pc = "recv" /\ Len(up) = 1 /\ down = <<>>
        BY <1>1, <1>2, <2>1, <1>3, <3>1, <3>5 DEF Behind, Receiving
      <3>6. CASE pc \notin {"recv", "ended"} /\ up = <<>> /\ down = <<>>
        BY <1>1, <1>2, <2>1, <1>3, <3>1, <3>6 DEF Behind, Receiving
      <3>7. CASE pc = "ended" /\ up = <<>> /\ Len(down) <= 1
        BY <1>1, <1>2, <2>1, <3>3, <3>7 DEF Behind, Barred, Receiving
      <3> QED BY <3>1, <3>4, <3>5, <3>6, <3>7 DEF OneUnderWay
    <2>2. CASE tx.next # "FILE_BEGIN"
      <3>1. Barred' /\ NoOk'
        BY <1>1, <1>3, <2>2 DEF Behind, Barred, NoOk, Receiving
      <3> QED BY <1>1, <1>2, <2>2, <3>1 DEF Behind
    <2> QED BY <2>1, <2>2
  <1>9. FirstSender' /\ SecondSender'
    BY <1>0, <1>4, <1>7, <1>8 DEF FirstSender, SecondSender
  <1>10. Truthful'
    <2>1. InStep \/ Behind
      BY <1>0, <1>4 DEF FirstSender, SecondSender
    <2>2. CASE InStep
      <3>1. down = <<>> /\ Len(<<>>) = 0
        BY <2>2, EmptySeq DEF InStep
      <3>2. ~Confirming'
        BY <1>1, <3>1 DEF Confirming
      <3> QED BY <1>0, <1>1, <3>2 DEF Truthful, Receiving, Answering
    <2>3. CASE Behind
      <3>1. tx.next = "FILE_END" => ~Confirming'
        BY <1>1, <2>3 DEF Behind, NoOk, Confirming
      <3> QED BY <1>0, <1>1, <1>2, <3>1 DEF Truthful, Receiving, Answering
    <2> QED BY <2>1, <2>2, <2>3
  <1>11. Counted'
    BY <1>0, <1>1 DEF Counted, Unheard, Confirming, Answering, Receiving
  <1> QED BY <1>5, <1>6, <1>9, <1>10, <1>11 DEF Ends

\* The frames of sendFile.
LEMMA SendSteps ==
  ASSUME Ends, Receiving, UNCHANGED <<link, session, opened, confirmed>>,
         S!SendBegin \/ S!SendChunk \/ S!SendAltered \/ S!SendEnd
  PROVE  Ends'
  <1>1. page = "send" /\ sock = "open" /\ PageKnown
    BY DEF S!SendBegin, S!SendChunk, S!SendAltered, S!SendEnd, S!Sending, Ends
  <1>2. /\ tx.file \in File /\ tx.digest = Sha256(tx.file.bytes) /\ tx.offset \in Nat
        /\ tx.file.bytes \in Seq(Byte) /\ Len(tx.file.bytes) \in Nat /\ ChunkSize \in Nat
    BY <1>1, FileAssumption, LenProperties DEF PageKnown
  <1>3. S!FileSize = Len(tx.file.bytes) /\ S!FileSize \in Nat /\ S!NextEnd \in Nat
    BY <1>2 DEF S!FileSize, S!NextEnd
  <1>4. CASE S!SendBegin
    <2>1. S!BeginFrame = Begin(tx.file) /\ Begin(tx.file) \in UpFrame
      BY <1>2 DEF S!BeginFrame, S!FileSize, Begin, UpFrame
    <2>2. S!Send(Begin(tx.file), 0) /\ tx.next = "FILE_BEGIN"
      BY <1>4, <2>1 DEF S!SendBegin, S!Sending
    <2>3. Carries(Begin(tx.file))
      BY <2>2 DEF Carries, Begin
    <2> QED BY <1>1, <2>1, <2>2, <2>3, SendStep
  <1>5. CASE S!SendChunk \/ S!SendAltered
    <2> DEFINE b == S!Slice(tx.offset, S!NextEnd)
    <2>1. b \in Seq(Byte)
      <3>1. \A i \in tx.offset + 1 .. (IF S!NextEnd < S!FileSize THEN S!NextEnd ELSE S!FileSize) :
               i \in 1 .. Len(tx.file.bytes)
        BY <1>2, <1>3
      <3>2. /\ tx.offset + 1 \in Int
            /\ (IF S!NextEnd < S!FileSize THEN S!NextEnd ELSE S!FileSize) \in Int
        BY <1>2, <1>3
      <3> QED BY <1>2, <3>1, <3>2, SubSeqProperties DEF S!Slice
    <2> HIDE DEF b
    <2>2. PICK x \in {b, Altered(b)} : S!Send(S!DataFrame("CHUNK", x), S!NextEnd)
      BY <1>5 DEF S!SendChunk, S!SendAltered, b
    <2>3. x \in Seq(Byte) \cup {Altered(s) : s \in Seq(Byte)}
      BY <2>1
    <2>4. /\ S!DataFrame("CHUNK", x) \in UpFrame /\ S!DataFrame("CHUNK", x).type = "CHUNK"
      BY <2>3 DEF S!DataFrame, UpFrame
    <2>5. tx.next = "CHUNK"
      BY <1>5 DEF S!SendChunk, S!SendAltered, S!Sending
    <2>6. Carries(S!DataFrame("CHUNK", x))
      BY <2>4, <2>5 DEF Carries
    <2> QED BY <1>1, <1>3, <2>2, <2>4, <2>6, SendStep
  <1>6. CASE S!SendEnd
    <2>1. <<>> \in Seq(Byte)
      BY EmptySeq
    <2>2. /\ S!DataFrame("FILE_END", <<>>) \in UpFrame
          /\ S!DataFrame("FILE_END", <<>>).type = "FILE_END"
      BY <2>1 DEF S!DataFrame, UpFrame
    <2>3. S!Send(S!DataFrame("FILE_END", <<>>), S!FileSize) /\ tx.next = "FILE_END"
      BY <1>6 DEF S!SendEnd, S!Sending
    <2>4. Carries(S!DataFrame("FILE_END", <<>>))
      BY <2>2, <2>3 DEF Carries
    <2> QED BY <1>1, <1>3, <2>2, <2>3, <2>4, SendStep
  <1> QED BY <1>4, <1>5, <1>6

\* waitForAck resolves for a frame that is not the last.
LEMMA AcceptStep ==
  ASSUME Ends, Receiving, UNCHANGED <<link, session, opened, confirmed>>,
         S!Acknowledged, tx.next # "FILE_END"
  PROVE  Ends'
  <1>0. PageKnown /\ LinkKnown /\ FirstSender /\ SecondSender /\ Truthful /\ Counted
    BY DEF Ends
  <1>1. /\ page = "wait" /\ page' = "send" /\ down # <<>> /\ S!Accepts(Head(down))
        /\ down' = Tail(down) /\ UNCHANGED <<sock, up>>
        /\ tx' = [file |-> tx.file, digest |-> tx.digest, next |-> S!After(tx.next, tx.end),
                  offset |-> tx.end, end |-> tx.end]
    BY <1>0, TxFields DEF S!Acknowledged
  <1>2. /\ tx'.file = tx.file /\ tx'.digest = tx.digest /\ tx'.next \in {"CHUNK", "FILE_END"}
        /\ Busy /\ Busy'
    BY <1>1 DEF S!After, Busy
  <1>3. /\ Head(down).type = tx.next /\ Head(down).status = "OK"
    BY <1>1 DEF S!Accepts
  <1>4. /\ down \in Seq(P!AckType) /\ down' \in Seq(P!AckType) /\ Len(down) \in Nat \ {0}
        /\ Len(down') = Len(down) - 1 /\ Head(down) = down[1]
        /\ \A i \in 1 .. Len(down') : down'[i] = down[i + 1]
    <2>1. down \in Seq(P!AckType)
      BY <1>0 DEF PageKnown
    <2> QED BY <1>1, <2>1, HeadTailProperties, EmptySeq
  <1>5. Within(down', down)
    <2>1. Len(down') <= Len(down) /\ \A i \in 1 .. Len(down') : i + 1 \in 1 .. Len(down)
      BY <1>4
    <2> QED BY <1>4, <2>1 DEF Within
  <1>6. PageKnown'
    BY <1>0, <1>1, <1>2, <1>4 DEF PageKnown, Busy
  <1>7. LinkKnown'
    BY <1>0, <1>1, <1>2, <1>5, WithinFacts DEF LinkKnown, Receiving
  <1>8. InStep => InStep'
    <2> SUFFICES ASSUME InStep PROVE InStep'
      OBVIOUS
    <2>1. OneUnderWay /\ (pc = "ended" => tx.next = "FILE_END")
      BY <1>1, <1>3 DEF InStep
    <2>2. pc = "recv" /\ up = <<>> /\ proto.state = "RECEIVING" /\ Len(down) <= 1
      BY <1>1, <2>1 DEF OneUnderWay
    <2>3. down' = <<>>
      <3>1. Len(down') = 0
        BY <1>4, <2>2
      <3> QED BY <1>4, <3>1, EmptySeq
    <2>4. Announced'
      BY <1>2, <2>2 DEF InStep, Announced, Receiving
    <2> QED BY <1>1, <1>2, <2>2, <2>3, <2>4 DEF InStep, Receiving
  <1>9. Behind => Behind'
    <2> SUFFICES ASSUME Behind PROVE Behind'
      OBVIOUS
    <2>1. ~NoOk
      BY <1>3, <1>4 DEF NoOk
    <2>2. Barred /\ OneOk
      BY <1>1, <2>1 DEF Behind
    <2>3. \A i \in 1 .. Len(down') : i + 1 \in 1 .. Len(down) /\ i + 1 # 1 /\ 1 \in 1 .. Len(down)
      BY <1>4
    <2>4. NoOk'
      BY <1>3, <1>4, <2>2, <2>3 DEF NoOk, OneOk
    <2>5. Barred'
      BY <1>1, <2>2 DEF Barred, Receiving
    <2> QED BY <1>1, <1>2, <2>4, <2>5 DEF Behind
  <1>10. FirstSender' /\ SecondSender'
    BY <1>0, <1>2, <1>8, <1>9 DEF FirstSender, SecondSender
  <1>11. Truthful'
    BY <1>0, <1>1 DEF Truthful, Receiving, Answering
  <1>12. Counted'
    <2>1. UNCHANGED <<completed, confirmed>> /\ (Answering' => Answering) /\ page \notin {"sent", "gone"}
      BY <1>1 DEF Receiving, Answering
    <2> QED BY <1>0, <1>5, <2>1, CountLoses
  <1> QED BY <1>6, <1>7, <1>10, <1>11, <1>12 DEF Ends

\* waitForAck resolves for FILE_END: the page tells its user that the file is sent.
LEMMA SentStep ==
  ASSUME Ends, Receiving, UNCHANGED <<link, session, opened>>, confirmed' = confirmed + 1,
         S!Acknowledged, tx.next = "FILE_END"
  PROVE  Ends'
  <1>0. PageKnown /\ LinkKnown /\ FirstSender /\ SecondSender /\ Truthful /\ Counted
    BY DEF Ends
  <1>1. /\ page = "wait" /\ page' = "sent" /\ down # <<>> /\ S!Accepts(Head(down))
        /\ S!CloseSocket /\ UNCHANGED up
        /\ tx' = [file |-> tx.file, digest |-> tx.digest, next |-> S!After(tx.next, tx.end),
                  offset |-> tx.end, end |-> tx.end]
    BY <1>0, TxFields DEF S!Acknowledged
  <1>2. tx'.file = tx.file /\ tx'.digest = tx.digest /\ ~Busy'
    BY <1>1 DEF Busy
  <1>3. Within(down', down) /\ sock' # "open" /\ sock' \in {"none", "open", "closed"}
    BY <1>0, <1>1, CloseLoses
  <1>4. Confirming
    <2>1. down \in Seq(P!AckType) /\ Head(down) = down[1] /\ 1 \in 1 .. Len(down)
      BY <1>0, <1>1, EmptySeq, HeadTailProperties DEF PageKnown
    <2> QED BY <1>1, <2>1 DEF Confirming, S!Accepts
  <1>5. PageKnown'
    BY <1>0, <1>1, <1>2, <1>3 DEF PageKnown, Within, Busy
  <1>6. LinkKnown'
    BY <1>0, <1>1, <1>2, <1>3, WithinFacts DEF LinkKnown, Receiving
  <1>7. FirstSender'
    <2>1. link = "joined" => OneUnderWay
      BY <1>0, <1>1 DEF FirstSender, InStep, Busy
    <2> QED BY <1>0, <1>1, <1>2, <1>3, <2>1, UnderWayLoses DEF FirstSender
  <1>8. SecondSender'
    BY <1>2 DEF SecondSender
  <1>9. Truthful'
    BY <1>0, <1>1, <1>2, <1>4 DEF Truthful, Receiving, Answering, Fulfilled
  <1>10. Counted'
    <2>1. Unheard' \in Nat /\ Unheard \in Nat /\ Unheard' + 1 <= Unheard
      BY <1>1, <1>4 DEF Unheard, Answering, Receiving
    <2>2. confirmed \in Nat /\ Cardinality(completed) \in Nat
      BY <1>0, FS_CardinalityType DEF Counted
    <2>3. confirmed + Unheard <= Cardinality(completed) /\ IsFiniteSet(completed)
      BY <1>0 DEF Counted
    <2>4. confirmed' \in Nat /\ confirmed' + Unheard' <= Cardinality(completed)
      <3>1. \A a, u, v, k \in Nat : u + 1 <= v /\ a + v <= k => a + 1 \in Nat /\ (a + 1) + u <= k
        OBVIOUS
      <3> QED BY <2>1, <2>2, <2>3, <3>1
    <2>5. completed' = completed
      BY DEF Receiving
    <2> QED BY <2>3, <2>4, <2>5 DEF Counted
  <1> QED BY <1>5, <1>6, <1>7, <1>8, <1>9, <1>10 DEF Ends

\* Every step of the page and its user.
LEMMA PageSteps ==
  ASSUME Ends, Connect \/ ConnectFails \/ PageRuns \/ UserActs \/ OpenPage
  PROVE  Ends'
  <1>0. PageKnown
    BY DEF Ends
  <1>1. Receiving
    BY PageOnly DEF Connect, ConnectFails, PageRuns, UserActs, OpenPage
  <1>2. CASE Connect \/ OpenPage
    BY <1>2, ConnectStep, OpenStep
  <1>3. CASE ConnectFails \/ UserActs
    <2>1. UNCHANGED <<link, session, opened, confirmed>>
      BY <1>3 DEF ConnectFails, UserActs, linkVars
    <2>2. CASE S!ConnectFails
      <3>1. page = "connect" /\ page' = "failed" /\ S!CloseSocket /\ UNCHANGED <<tx, up>>
        BY <2>2 DEF S!ConnectFails, S!Fail
      <3> QED BY <1>1, <2>1, <3>1, LeaveStep
    <2>3. CASE S!Click
      BY <1>1, <2>1, <2>3, HashStep
    <2>4. CASE S!PageHide
      <3>1. page' = "gone" /\ S!CloseSocket /\ UNCHANGED <<tx, up>>
        BY <2>4 DEF S!PageHide
      <3> QED BY <1>1, <2>1, <3>1, LeaveStep
    <2> QED BY <1>3, <2>2, <2>3, <2>4 DEF ConnectFails, UserActs
  <1>4. CASE PageRuns
    <2>1. /\ UNCHANGED <<link, session, opened>>
          /\ page' = "sent" => confirmed' = confirmed + 1
          /\ page' # "sent" => confirmed' = confirmed
      BY <1>4 DEF PageRuns, linkVars
    <2>2. CASE S!HashFile
      <3>1. page' # "sent"
        BY <2>2 DEF S!HashFile
      <3> QED BY <1>1, <2>1, <2>2, <3>1, HashStep
    <2>3. CASE S!SendBegin \/ S!SendChunk \/ S!SendAltered \/ S!SendEnd
      <3>1. page' # "sent"
        BY <2>3 DEF S!SendBegin, S!SendChunk, S!SendAltered, S!SendEnd, S!Send
      <3> QED BY <1>1, <2>1, <2>3, <3>1, SendSteps
    <2>4. CASE \/ S!SendFails \/ S!Rejected \/ S!Disconnected
               \/ S!NameRefused \/ S!Unreadable \/ S!AckTimeout
      <3>1. /\ page' = "failed" /\ S!CloseSocket /\ UNCHANGED <<tx, up>>
            /\ page \in {"hash", "send", "wait"}
        BY <2>4 DEF S!SendFails, S!Rejected, S!Disconnected, S!NameRefused, S!Sending,
                    S!Unreadable, S!AckTimeout, S!Fail
      <3> QED BY <1>1, <2>1, <3>1, LeaveStep
    <2>5. CASE S!Acknowledged
      <3>1. CASE tx.next = "FILE_END"
        <4>1. page' = "sent"
          BY <2>5, <3>1 DEF S!Acknowledged
        <4>2. confirmed' = confirmed + 1
          BY <2>1, <4>1
        <4> QED BY <1>1, <2>1, <2>5, <3>1, <4>2, SentStep
      <3>2. CASE tx.next # "FILE_END"
        <4>1. page' # "sent"
          BY <2>5, <3>2 DEF S!Acknowledged
        <4>2. confirmed' = confirmed
          BY <2>1, <4>1
        <4> QED BY <1>1, <2>1, <2>5, <3>2, <4>2, AcceptStep
      <3> QED BY <3>1, <3>2
    <2> QED BY <1>4, <2>2, <2>3, <2>4, <2>5 DEF PageRuns, PageStep, PageFault
  <1> QED BY <1>2, <1>3, <1>4

-----------------------------------------------------------------------------
\* The receiver and the relay.

\* A frame of the page comes in.
LEMMA DeliverStep ==
  ASSUME Ends, Deliver
  PROVE  Ends'
  <1>0. PageKnown /\ LinkKnown /\ FirstSender /\ SecondSender /\ Truthful /\ Counted
    BY DEF Ends
  <1>1. /\ up # <<>> /\ pc = "recv" /\ pc' = "handle" /\ frame' = Head(up) /\ up' = Tail(up)
        /\ UNCHANGED <<proto, fr, sink, completed, page, tx, sock, down, link, session, opened>>
        /\ UNCHANGED confirmed
    BY DEF Deliver, R!ReceiveFrame, R!fileVars, R!history, linkVars
  <1>2. /\ up \in Seq(UpFrame) /\ up' \in Seq(UpFrame) /\ Len(up) \in Nat \ {0}
        /\ Len(up') = Len(up) - 1 /\ Head(up) = up[1]
        /\ \A i \in 1 .. Len(up') : up'[i] = up[i + 1]
    <2>1. up \in Seq(UpFrame)
      BY <1>0 DEF PageKnown
    <2> QED BY <1>1, <2>1, HeadTailProperties, EmptySeq
  <1>3. Len(up) = 1 => up' = <<>>
    BY <1>2, EmptySeq
  <1>4. Len(up) = 2 => Len(up') = 1 /\ up'[1] = up[2]
    BY <1>2
  <1>5. OneUnderWay => OneUnderWay'
    BY <1>1, <1>3 DEF OneUnderWay
  <1>6. PageKnown'
    BY <1>0, <1>1, <1>2 DEF PageKnown, Busy
  <1>7. LinkKnown'
    BY <1>0, <1>1 DEF LinkKnown, Busy
  <1>8. Busy /\ InStep => InStep'
    <2> SUFFICES ASSUME Busy, InStep PROVE InStep'
      OBVIOUS
    <2>1. page = "wait" /\ OneUnderWay /\ Carries(Head(up))
      BY <1>1 DEF InStep, Busy
    <2>2. up' = <<>> /\ down' = <<>> /\ Carries(frame)'
      BY <1>1, <1>3, <2>1 DEF OneUnderWay, Carries
    <2>3. proto'.state = "RECEIVING" \/ pc' \in {"create", "hash_begin"} \/ tx'.next # "FILE_BEGIN"
            => Announced'
      BY <1>1 DEF InStep, Announced
    <2> QED BY <1>1, <1>5, <2>1, <2>2, <2>3 DEF InStep
  <1>9. Busy /\ Behind => Behind'
    <2> SUFFICES ASSUME Busy, Behind PROVE Behind'
      OBVIOUS
    <2>1. Barred => Barred'
      BY <1>1 DEF Barred
    <2>2. (OneOk => OneOk') /\ (NoOk => NoOk')
      BY <1>1 DEF OneOk, NoOk
    <2>3. CASE page = "wait" /\ tx.next = "FILE_BEGIN"
      <3>1. \/ Barred /\ OneOk
            \/ Len(up) = 2 /\ up[2].type = "FILE_BEGIN" /\ down = <<>>
        BY <1>1, <2>3 DEF Behind
      <3> QED BY <1>1, <1>4, <2>1, <2>2, <2>3, <3>1 DEF Behind
    <2>4. CASE ~(page = "wait" /\ tx.next = "FILE_BEGIN")
      BY <1>1, <1>5, <2>1, <2>2, <2>4 DEF Behind
    <2> QED BY <2>3, <2>4
  <1>10. FirstSender' /\ SecondSender'
    BY <1>0, <1>1, <1>5, <1>8, <1>9 DEF FirstSender, SecondSender, Untouched, Busy
  <1>11. Truthful'
    BY <1>0, <1>1 DEF Truthful, Answering, Confirming, Fulfilled
  <1>12. Counted'
    BY <1>0, <1>1 DEF Counted, Unheard, Confirming, Answering
  <1> QED BY <1>6, <1>7, <1>10, <1>11, <1>12 DEF Ends

\* The receiver finds its connection cancelled.
LEMMA LoseStep ==
  ASSUME Ends, Lose
  PROVE  Ends'
  <1>0. PageKnown /\ LinkKnown /\ FirstSender /\ SecondSender /\ Truthful /\ Counted
    BY DEF Ends
  <1>1. /\ link = "cancelled" /\ pc = "recv" /\ pc' = "ended"
        /\ UNCHANGED <<completed, page, tx, sock, up, down, link, session, opened, confirmed>>
    BY DEF Lose, R!ReceiveError, R!history, senderVars, linkVars
  <1>2. PageKnown'
    BY <1>0, <1>1 DEF PageKnown, Busy
  <1>3. LinkKnown'
    BY <1>0, <1>1 DEF LinkKnown, Busy
  <1>4. FirstSender' /\ SecondSender'
    BY <1>1 DEF FirstSender, SecondSender
  <1>5. Truthful'
    BY <1>0, <1>1 DEF Truthful, Answering, Confirming, Fulfilled
  <1>6. Counted'
    BY <1>0, <1>1 DEF Counted, Unheard, Confirming, Answering
  <1> QED BY <1>2, <1>3, <1>4, <1>5, <1>6 DEF Ends

\* The relay cancels the bridge.
LEMMA CancelStep ==
  ASSUME Ends, Cancel
  PROVE  Ends'
  <1>0. PageKnown /\ LinkKnown /\ FirstSender /\ SecondSender /\ Truthful /\ Counted
    BY DEF Ends
  <1>1. /\ Receiving /\ link' = "cancelled" /\ sock' # "open" /\ sock' \in {"none", "open", "closed"}
        /\ UNCHANGED <<page, tx, session, opened, confirmed>> /\ Truncate
    BY <1>0, PageOnly DEF Cancel, Hangup, PageKnown
  <1>2. Within(down', down)
    BY <1>0, <1>1, TruncateLoses DEF Truncate
  <1>3. up' \in Seq(UpFrame)
    <2>1. PICK n \in 0 .. Len(up) : up' = SubSeq(up, 0 + 1, n)
      BY <1>1 DEF Truncate
    <2>2. up \in Seq(UpFrame) /\ Len(up) \in Nat
      BY <1>0, LenProperties DEF PageKnown
    <2>3. n \in 0 .. Len(up) /\ 0 \in 0 .. Len(up)
      BY <2>2
    <2> QED BY <2>1, <2>2, <2>3, Cut
  <1>4. PageKnown'
    BY <1>0, <1>1, <1>2, <1>3 DEF PageKnown, Within, Busy
  <1>5. LinkKnown'
    BY <1>0, <1>1 DEF LinkKnown
  <1>6. FirstSender' /\ SecondSender'
    BY <1>1 DEF FirstSender, SecondSender
  <1>7. Truthful'
    BY <1>0, <1>1, <1>2, WithinFacts DEF Truthful, Receiving, Answering, Fulfilled
  <1>8. Counted'
    <2>1. UNCHANGED <<completed, confirmed>> /\ (Answering' => Answering) /\ page' = page
      BY <1>1 DEF Receiving, Answering
    <2> QED BY <1>0, <1>2, <2>1, CountLoses
  <1> QED BY <1>4, <1>5, <1>6, <1>7, <1>8 DEF Ends

\* The receiver starts another session.
LEMMA SessionStep ==
  ASSUME Ends, Again \/ Restart
  PROVE  Ends'
  <1>0. PageKnown /\ LinkKnown /\ FirstSender /\ SecondSender /\ Truthful /\ Counted
    BY DEF Ends
  <1>1. pc' = "recv" /\ proto'.state = "WAIT_FILE" /\ completed' = completed
    BY DEF Again, Restart, R!NextSession, R!ProcessExit, R!PowerLoss, R!StartSession
  <1>2. NewSession
    BY DEF Again, Restart
  <1>3. /\ session' = session + 1 /\ link' = "none" /\ up' = <<>> /\ sock' # "open"
        /\ sock' \in {"none", "open", "closed"} /\ UNCHANGED <<page, tx, opened, confirmed>>
    BY <1>0, <1>2 DEF NewSession, Hangup, PageKnown
  <1>4. Within(down', down)
    BY <1>0, <1>2, TruncateLoses DEF NewSession
  <1>5. PageKnown'
    <2>1. up' \in Seq(UpFrame)
      BY <1>3, EmptySeq
    <2> QED BY <1>0, <1>3, <1>4, <2>1 DEF PageKnown, Within, Busy
  <1>6. LinkKnown'
    BY <1>0, <1>1, <1>3 DEF LinkKnown
  <1>7. FirstSender' /\ SecondSender'
    BY <1>3 DEF FirstSender, SecondSender
  <1>8. Truthful'
    BY <1>0, <1>1, <1>3, <1>4, WithinFacts DEF Truthful, Answering, Fulfilled
  <1>9. Counted'
    <2>1. UNCHANGED <<completed, confirmed>> /\ (Answering' => Answering) /\ page' = page
      BY <1>1, <1>3 DEF Answering
    <2> QED BY <1>0, <1>4, <2>1, CountLoses
  <1> QED BY <1>5, <1>6, <1>7, <1>8, <1>9 DEF Ends

\* A step of the worker that answers nothing.
LEMMA QuietStep ==
  ASSUME Ends, UNCHANGED <<page, tx, sock, up, down, link, session, opened, confirmed>>,
         P!MovesOn \/ P!Prepares \/ P!Begins \/ P!Delivers \/ P!GivesUp
  PROVE  Ends'
  <1>0. PageKnown /\ LinkKnown /\ FirstSender /\ SecondSender /\ Truthful /\ Counted
    BY DEF Ends
  <1>1. /\ pc \notin {"recv", "ended"} /\ pc' # "recv" /\ frame' = frame /\ link # "none"
        /\ pc' = "ended" => P!GivesUp
    BY <1>0 DEF P!MovesOn, P!Prepares, P!Begins, P!Delivers, P!GivesUp, P!Silent, LinkKnown
  <1>2. OneUnderWay => OneUnderWay' /\ up = <<>> /\ down = <<>>
    BY <1>1, EmptySeq DEF OneUnderWay
  <1>3. PageKnown'
    BY <1>0 DEF PageKnown, Busy
  <1>4. LinkKnown'
    BY <1>0, <1>1 DEF LinkKnown, Busy
  <1>5. Busy /\ InStep => InStep'
    <2> SUFFICES ASSUME Busy, InStep PROVE InStep'
      OBVIOUS
    <2>1. /\ page = "wait" /\ OneUnderWay /\ Carries(frame)
          /\ tx.file \in File /\ tx.digest = Sha256(tx.file.bytes)
      BY <1>0, <1>1 DEF InStep, Busy, PageKnown
    <2>2. Announced => Announced' \/ P!Prepares
      BY DEF P!MovesOn, P!Begins, P!Delivers, P!GivesUp, P!Promised, Announced
    <2>3. P!Prepares => Announced'
      <3> SUFFICES ASSUME P!Prepares PROVE Announced'
        OBVIOUS
      <3>1. frame = Begin(tx.file)
        BY <2>1 DEF P!Prepares, Carries
      <3>2. frame.meta = [size |-> Len(tx.file.bytes), sha256 |-> tx.digest,
                          name |-> tx.file.name]
        BY <2>1, <3>1 DEF Begin
      <3> QED BY <3>2 DEF P!Prepares, Announced
    <2>4. proto'.state = "RECEIVING" \/ pc' \in {"create", "hash_begin"} \/ tx'.next # "FILE_BEGIN"
            => Announced \/ P!Prepares
      BY DEF InStep, P!MovesOn, P!Begins, P!Delivers, P!GivesUp
    <2>5. Carries(frame)'
      BY <1>1, <2>1 DEF Carries
    <2> QED BY <1>2, <2>1, <2>2, <2>3, <2>4, <2>5 DEF InStep
  <1>6. Busy /\ Behind => Behind'
    <2> SUFFICES ASSUME Busy, Behind PROVE Behind'
      OBVIOUS
    <2>1. Barred => Barred'
      BY <1>1 DEF Barred, P!MovesOn, P!Prepares, P!Begins, P!Delivers, P!GivesUp
    <2>2. (OneOk => OneOk') /\ (NoOk => NoOk')
      BY DEF OneOk, NoOk
    <2>3. CASE page = "wait" /\ tx.next = "FILE_BEGIN"
      <3>1. \/ Barred /\ OneOk
            \/ Len(up) = 1 /\ up[1].type = "FILE_BEGIN" /\ down = <<>>
        BY <1>1, <2>3 DEF Behind
      <3>2. down = <<>> => OneOk'
        BY EmptySeq DEF OneOk
      <3>3. pc' = "ended" => Barred'
        BY DEF Barred
      <3> QED BY <1>1, <2>1, <2>2, <2>3, <3>1, <3>2, <3>3 DEF Behind
    <2>4. CASE ~(page = "wait" /\ tx.next = "FILE_BEGIN")
      BY <1>2, <2>1, <2>2, <2>4 DEF Behind
    <2> QED BY <2>3, <2>4
  <1>7. Answering' => P!Delivers
    BY <1>1 DEF Answering, P!MovesOn, P!Prepares, P!Begins, P!GivesUp
  <1>8. completed \subseteq completed' /\ (completed' = completed \/ P!Delivers)
    BY DEF P!MovesOn, P!Prepares, P!Begins, P!Delivers, P!GivesUp, P!Silent
  <1>9. Truthful'
    <2>1. P!Delivers =>
             [path |-> sink'.final, size |-> fr'.expected, sha256 |-> fr'.sha256] \in completed'
      BY DEF P!Delivers, P!Promised
    <2>2. (Fulfilled => Fulfilled') /\ (Confirming' => Confirming)
      BY <1>8 DEF Fulfilled, Confirming
    <2> QED BY <1>0, <1>7, <2>1, <2>2 DEF Truthful
  <1>10. Counted'
    <2>1. confirmed \in Nat /\ IsFiniteSet(completed) /\ Cardinality(completed) \in Nat
      BY <1>0, FS_CardinalityType DEF Counted
    <2>2. Confirming' <=> Confirming
      BY DEF Confirming
    <2>3. Unheard \in Nat /\ Unheard' \in Nat
      BY DEF Unheard
    <2>4. CASE ~P!Delivers
      <3>1. completed' = completed /\ Unheard' <= Unheard
        BY <1>7, <1>8, <2>2, <2>4 DEF Unheard
      <3> QED BY <1>0, <2>1, <2>3, <3>1 DEF Counted
    <2>5. CASE P!Delivers
      <3>1. Unheard' <= Unheard + 1
        BY <2>2, <2>5 DEF Unheard, Answering, P!Delivers
      <3>2. [path |-> sink.final, size |-> fr.expected, sha256 |-> fr.sha256] \notin completed
        BY <2>5 DEF P!Delivers
      <3>3. IsFiniteSet(completed') /\ Cardinality(completed') = Cardinality(completed) + 1
        BY <2>1, <2>5, <3>2, FS_AddElement DEF P!Delivers
      <3>4. \A a, u, v, k \in Nat : u <= v + 1 /\ a + v <= k => a + u <= k + 1
        OBVIOUS
      <3> QED BY <1>0, <2>1, <2>3, <3>1, <3>3, <3>4 DEF Counted
    <2> QED BY <2>4, <2>5
  <1>11. FirstSender' /\ SecondSender'
    BY <1>0, <1>1, <1>2, <1>5, <1>6 DEF FirstSender, SecondSender, Untouched, Busy
  <1> QED BY <1>3, <1>4, <1>9, <1>10, <1>11 DEF Ends

\* The worker answers a frame.
LEMMA AnswerStep ==
  ASSUME Ends, UNCHANGED <<page, tx, sock, up, link, session, opened, confirmed>>,
         P!Refuses \/ P!Confirms, ack' \in P!AckType,
         down' = IF ack' # ack /\ link \in {"joined", "doomed"} THEN Append(down, ack') ELSE down
  PROVE  Ends'
  <1>0. PageKnown /\ LinkKnown /\ FirstSender /\ SecondSender /\ Truthful /\ Counted
    BY DEF Ends
  <1>1. /\ pc \in {"ack", "nack"} /\ pc' \in {"recv", "ended"} /\ link # "none"
        /\ UNCHANGED <<frame, completed, proto>> /\ UNCHANGED P!Promised /\ ~Answering'
        /\ pc' = "recv" => proto'.state = "RECEIVING"
    BY <1>0 DEF P!Refuses, P!Confirms, LinkKnown, Answering
  <1>2. down \in Seq(P!AckType) /\ Len(down) \in Nat
    BY <1>0, LenProperties DEF PageKnown
  <1>3. /\ down' \in Seq(P!AckType)
        /\ \/ down' = down
           \/ /\ ack' # ack /\ link \in {"joined", "doomed"}
              /\ Len(down') = Len(down) + 1 /\ down'[Len(down) + 1] = ack'
              /\ \A i \in 1 .. Len(down) : down'[i] = down[i]
    BY <1>2, AppendProperties
  <1>4. down = <<>> => /\ Len(down') <= 1
                       /\ down' # <<>> => Head(down') = ack' /\ ack' # ack
    <2> SUFFICES ASSUME down = <<>>
                 PROVE  /\ Len(down') <= 1
                        /\ down' # <<>> => Head(down') = ack' /\ ack' # ack
      OBVIOUS
    <2>1. Len(down) = 0
      BY EmptySeq
    <2>2. down' # <<>> => Head(down') = down'[1]
      BY <1>3, HeadTailProperties
    <2> QED BY <1>3, <2>1, <2>2
  <1>5. OneUnderWay => OneUnderWay' /\ up = <<>> /\ down = <<>>
    BY <1>1, <1>4 DEF OneUnderWay
  <1>6. PageKnown'
    BY <1>0, <1>3 DEF PageKnown, Busy
  <1>7. LinkKnown'
    BY <1>0, <1>1 DEF LinkKnown, Busy
  <1>8. Announced => Announced'
    BY <1>1 DEF P!Promised, Announced
  <1>9. Busy /\ InStep => InStep'
    <2> SUFFICES ASSUME Busy, InStep PROVE InStep'
      OBVIOUS
    <2>1. page = "wait" /\ OneUnderWay /\ frame.type = tx.next
      BY <1>1 DEF InStep, Busy, Carries
    <2>2. down' # <<>> => /\ Head(down').type = tx'.next
                          /\ pc' = "ended" /\ Head(down').status = "OK" => tx'.next = "FILE_END"
      BY <1>4, <1>5, <2>1 DEF P!Refuses, P!Confirms
    <2>3. proto'.state = "RECEIVING" \/ pc' \in {"create", "hash_begin"} \/ tx'.next # "FILE_BEGIN"
            => Announced'
      BY <1>1, <1>8 DEF InStep
    <2> QED BY <1>1, <1>5, <2>1, <2>2, <2>3 DEF InStep
  <1>10. Busy /\ Behind => Behind'
    <2> SUFFICES ASSUME Busy, Behind PROVE Behind'
      OBVIOUS
    <2>1. Barred => P!Refuses /\ Barred'
      BY <1>1 DEF Barred, P!Refuses, P!Confirms
    <2>2. P!Refuses /\ down' # down => ack'.status # "OK"
      BY DEF P!Refuses
    <2>3. P!Refuses /\ down' # down => \A i \in 1 .. Len(down') :
             \/ i \in 1 .. Len(down) /\ down'[i] = down[i]
             \/ down'[i].status # "OK"
      BY <1>2, <1>3, <2>2
    <2>4. P!Refuses => (OneOk => OneOk') /\ (NoOk => NoOk')
      <3>1. CASE down' = down
        BY <3>1 DEF OneOk, NoOk
      <3>2. CASE down' # down
        BY <2>3, <3>2 DEF OneOk, NoOk
      <3> QED BY <3>1, <3>2
    <2>5. CASE page = "wait" /\ tx.next = "FILE_BEGIN"
      <3>1. \/ Barred /\ OneOk
            \/ Len(up) = 1 /\ up[1].type = "FILE_BEGIN" /\ down = <<>>
        BY <1>1, <2>5 DEF Behind
      <3>2. CASE Barred /\ OneOk
        BY <2>1, <2>4, <2>5, <3>2 DEF Behind
      <3>3. CASE Len(up) = 1 /\ up[1].type = "FILE_BEGIN" /\ down = <<>>
        <4>1. OneOk'
          BY <1>3, <1>4, <3>3, LenProperties DEF OneOk
        <4>2. up # <<>> /\ Head(up) = up[1]
          <5>1. up \in Seq(UpFrame)
            BY <1>0 DEF PageKnown
          <5> QED BY <3>3, <5>1, EmptySeq, HeadTailProperties
        <4>3. Barred'
          BY <1>1, <3>3, <4>2 DEF Barred
        <4> QED BY <4>1, <4>3, <2>5 DEF Behind
      <3> QED BY <3>1, <3>2, <3>3
    <2>6. CASE ~(page = "wait" /\ tx.next = "FILE_BEGIN")
      BY <1>5, <2>1, <2>4, <2>6 DEF Behind
    <2> QED BY <2>5, <2>6
  <1>11. Confirming' => Confirming \/ (Answering /\ link \in {"joined", "doomed"})
    <2> SUFFICES ASSUME NEW i \in 1 .. Len(down'), down'[i].type = "FILE_END",
                        down'[i].status = "OK", ~Confirming
                 PROVE  Answering /\ link \in {"joined", "doomed"}
      BY DEF Confirming
    <2>1. down' # down /\ i \notin 1 .. Len(down)
      BY <1>3 DEF Confirming
    <2>2. ack'.type = "FILE_END" /\ ack'.status = "OK" /\ link \in {"joined", "doomed"} /\ ack' # ack
      BY <1>2, <1>3, <2>1
    <2> QED BY <2>2 DEF Answering, P!Refuses, P!Confirms
  <1>12. Truthful'
    <2>1. Fulfilled => Fulfilled'
      BY <1>1 DEF Fulfilled
    <2>2. ASSUME page = "wait", tx.next = "FILE_END", Answering, link \in {"joined", "doomed"}
          PROVE  Fulfilled
      <3>1. InStep
        BY <1>0, <2>2 DEF FirstSender, SecondSender, Behind, Barred, Answering, Busy
      <3>2. Announced
        BY <2>2, <3>1 DEF InStep
      <3>3. [path |-> sink.final, size |-> fr.expected, sha256 |-> fr.sha256] \in completed
        BY <1>0, <2>2 DEF Truthful
      <3> QED BY <3>2, <3>3 DEF Fulfilled, Announced
    <2> QED BY <1>0, <1>1, <1>11, <2>1, <2>2 DEF Truthful
  <1>13. Counted'
    <2>1. Unheard \in Nat /\ Unheard' \in Nat /\ Unheard' <= Unheard
      BY <1>1, <1>11 DEF Unheard
    <2>2. confirmed \in Nat /\ Cardinality(completed) \in Nat
      BY <1>0, FS_CardinalityType DEF Counted
    <2> QED BY <1>0, <1>1, <2>1, <2>2 DEF Counted
  <1>14. FirstSender' /\ SecondSender'
    BY <1>0, <1>1, <1>5, <1>9, <1>10 DEF FirstSender, SecondSender, Untouched, Busy
  <1> QED BY <1>6, <1>7, <1>12, <1>13, <1>14 DEF Ends

\* Every step of the worker.
LEMMA WorkStep ==
  ASSUME Receiver, Receiver', Ends, Work
  PROVE  Ends'
  <1>1. /\ UNCHANGED <<page, tx, sock, up, link, session, opened, confirmed>>
        /\ down' = IF ack' # ack /\ link \in {"joined", "doomed"} THEN Append(down, ack') ELSE down
    BY DEF Work, linkVars
  <1>2. CASE P!Refuses \/ P!Confirms
    <2>1. ack' \in P!AckType
      BY DEF Receiver, P!PipelineInv, P!TypeOK
    <2> QED BY <1>1, <1>2, <2>1, AnswerStep
  <1>3. CASE P!MovesOn \/ P!Prepares \/ P!Begins \/ P!Delivers \/ P!GivesUp
    <2>1. ack' = ack
      BY <1>3 DEF P!MovesOn, P!Prepares, P!Begins, P!Delivers, P!GivesUp, P!Silent
    <2>2. UNCHANGED <<page, tx, sock, up, down, link, session, opened, confirmed>>
      BY <1>1, <2>1
    <2> QED BY <1>3, <2>2, QuietStep
  <1> QED BY <1>2, <1>3, WorkSteps DEF Work

-----------------------------------------------------------------------------
\* The theorems.

\* A page that has just been opened, and a receiver that waits for it.
LEMMA EndsInit == Init => Ends
  <1> SUFFICES ASSUME Init PROVE Ends
    OBVIOUS
  <1>1. /\ pc = "recv" /\ proto.state = "WAIT_FILE" /\ completed = {}
        /\ page = "ready" /\ tx = S!NoTx /\ sock = "none" /\ up = <<>> /\ down = <<>>
        /\ link = "none" /\ session = 1 /\ opened = 1 /\ confirmed = 0
    BY DEF Init, R!Init, S!SenderInit
  <1>2. PageKnown
    <2>1. up \in Seq(UpFrame) /\ down \in Seq(P!AckType)
      BY <1>1, EmptySeq
    <2>2. /\ tx = [file |-> tx.file, digest |-> tx.digest, next |-> tx.next,
                   offset |-> tx.offset, end |-> tx.end]
          /\ tx.offset \in Nat /\ tx.end \in Nat
      BY <1>1 DEF S!NoTx
    <2> QED BY <1>1, <2>1, <2>2 DEF PageKnown, Busy
  <1>3. LinkKnown /\ FirstSender /\ SecondSender
    BY <1>1 DEF LinkKnown, FirstSender, SecondSender
  <1>4. ~Answering /\ ~Confirming
    BY <1>1, EmptySeq DEF Answering, Confirming
  <1>5. Truthful
    BY <1>1, <1>4 DEF Truthful
  <1>6. Counted
    BY <1>1, <1>4, FS_EmptySet DEF Counted, Unheard
  <1> QED BY <1>2, <1>3, <1>5, <1>6 DEF Ends

\* Nothing happens.
LEMMA EndsStutter == Ends /\ UNCHANGED vars => Ends'
  <1> SUFFICES ASSUME Ends, UNCHANGED vars PROVE Ends'
    OBVIOUS
  <1>1. UNCHANGED <<pc, frame, proto, fr, sink, completed, page, tx, sock, up, down, link, session,
                    opened, confirmed>>
    BY DEF vars, receiverVars, senderVars, linkVars
  <1>2. (PageKnown /\ LinkKnown)'
    BY <1>1 DEF Ends, PageKnown, LinkKnown, Busy
  <1>3. (InStep => InStep') /\ (Untouched => Untouched') /\ (OneUnderWay => OneUnderWay')
    BY <1>1 DEF InStep, Untouched, OneUnderWay, Carries, Announced
  <1>4. Behind => Behind'
    BY <1>1 DEF Behind, OneUnderWay, Barred, OneOk, NoOk
  <1>5. (Truthful /\ Counted)'
    BY <1>1 DEF Ends, Truthful, Counted, Unheard, Answering, Confirming, Fulfilled
  <1>6. (FirstSender /\ SecondSender)'
    BY <1>1, <1>3, <1>4 DEF Ends, FirstSender, SecondSender, Busy
  <1> QED BY <1>2, <1>5, <1>6 DEF Ends

\* The inductive invariant: what page, queues, bridge and loop know of each other, for
\* every file, chunk size, failure and number of sessions.
THEOREM TransferInvariant == Spec => []TransferInv
  <1>1. Init => TransferInv
    BY ReceiverInit, EndsInit DEF TransferInv, Ends
  <1>2. TransferInv /\ [Next]_vars => TransferInv'
    <2> SUFFICES ASSUME TransferInv, [Next]_vars PROVE TransferInv'
      OBVIOUS
    <2>1. Receiver /\ Ends
      BY DEF TransferInv, Ends
    <2>2. Receiver'
      BY <2>1, ReceiverNext
    <2>3. Ends'
      <3>1. CASE Connect \/ ConnectFails \/ PageRuns \/ UserActs \/ OpenPage
        BY <2>1, <3>1, PageSteps
      <3>2. CASE Deliver
        BY <2>1, <3>2, DeliverStep
      <3>3. CASE Work
        BY <2>1, <2>2, <3>3, WorkStep
      <3>4. CASE Lose
        BY <2>1, <3>4, LoseStep
      <3>5. CASE RelayCancels \/ RelayCloses \/ Break
        BY <2>1, <3>5, CancelStep DEF RelayCancels, RelayCloses, Break
      <3>6. CASE Again \/ Restart
        BY <2>1, <3>6, SessionStep
      <3>7. CASE UNCHANGED vars
        BY <2>1, <3>7, EndsStutter
      <3> QED BY <3>1, <3>2, <3>3, <3>4, <3>5, <3>6, <3>7 DEF Next
    <2> QED BY <2>2, <2>3 DEF TransferInv, Ends
  <1> QED BY <1>1, <1>2, PTL DEF Spec

\* The sender and the receiver go in lock step, so the relay's channels of one message
\* never fill and no acknowledgement is taken for another (sendFrameAndWait).
THEOREM SenderAndReceiverInStep == Spec => []LockStep
  <1>1. TransferInv => LockStep
    <2> SUFFICES ASSUME TransferInv, link = "joined", sock = "open"
                 PROVE  /\ Len(up) + Len(down) <= 1
                        /\ up # <<>> => pc = "recv"
                        /\ page = "send" => up = <<>> /\ down = <<>>
      BY DEF LockStep
    <2>1. page \in {"send", "wait"} /\ InStep
      BY DEF TransferInv, LinkKnown, FirstSender, Busy
    <2>2. Len(up) \in Nat /\ Len(down) \in Nat
      BY LenProperties DEF TransferInv, PageKnown
    <2>3. Len(<<>>) = 0
      BY EmptySeq
    <2>4. CASE page = "send"
      BY <2>1, <2>3, <2>4 DEF InStep
    <2>5. CASE page = "wait"
      <3>1. OneUnderWay
        BY <2>1, <2>5 DEF InStep
      <3>2. \/ up = <<>> /\ Len(down) <= 1
            \/ Len(up) = 1 /\ down = <<>> /\ pc = "recv"
        BY <2>3, <3>1 DEF OneUnderWay
      <3>3. Len(up) + Len(down) <= 1
        <4>1. (Len(up) = 0 /\ Len(down) <= 1) \/ (Len(up) = 1 /\ Len(down) = 0)
          BY <2>3, <3>2
        <4>2. \A m, n \in Nat : (m = 0 /\ n <= 1) \/ (m = 1 /\ n = 0) => m + n <= 1
          OBVIOUS
        <4> QED BY <2>2, <4>1, <4>2
      <3> QED BY <2>5, <3>2, <3>3
    <2> QED BY <2>1, <2>4, <2>5
  <1> QED BY <1>1, TransferInvariant, PTL

\* "File sent" is true: the file is on the receiver's disk with the bytes the user picked,
\* and no delivery is told twice, through lost, late and refused messages, changed files,
\* failing system calls and restarts.
THEOREM SentIsDelivered == Spec => []SentMeansDelivered
  <1>1. TransferInv => SentMeansDelivered
    <2> SUFFICES ASSUME TransferInv PROVE SentMeansDelivered
      OBVIOUS
    <2>1. confirmed <= Cardinality(completed)
      <3>1. /\ confirmed \in Nat /\ Cardinality(completed) \in Nat
            /\ confirmed + Unheard <= Cardinality(completed)
        BY FS_CardinalityType DEF TransferInv, Counted
      <3>2. Unheard \in Nat
        BY DEF Unheard
      <3> QED BY <3>1, <3>2
    <2>2. ASSUME page = "sent" PROVE DeliveriesOf(tx.file) # {}
      <3>1. PICK c \in completed : /\ c.path[2] = tx.file.name /\ c.size = Len(tx.file.bytes)
                                   /\ c.sha256 = tx.digest
        BY <2>2 DEF TransferInv, Truthful, Fulfilled
      <3>2. tx.file \in File /\ tx.digest = Sha256(tx.file.bytes)
        BY <2>2 DEF TransferInv, PageKnown
      <3>3. /\ Len(data[c.path]) = c.size /\ Sha256(data[c.path]) = c.sha256
            /\ c.path \in P!Path /\ data \in [P!Path -> Seq(Byte)]
        BY <3>1 DEF TransferInv, Receiver, P!PipelineInv, P!DeliveredIntact, P!TypeOK, P!Delivery
      <3>4. data[c.path] \in [1 .. Len(tx.file.bytes) -> Byte]
        <4>1. data[c.path] \in Seq(Byte)
          BY <3>3
        <4>2. data[c.path] \in [1 .. Len(data[c.path]) -> Byte]
          BY <4>1, LenProperties
        <4> QED BY <3>1, <3>3, <4>2
      <3>5. data[c.path] = tx.file.bytes
        BY <3>1, <3>2, <3>3, <3>4, FileAssumption
      <3> QED BY <3>1, <3>5 DEF DeliveriesOf
    <2> QED BY <2>1, <2>2 DEF SentMeansDelivered
  <1> QED BY <1>1, TransferInvariant, PTL

\* The receiver behind the relay is the ReceivePipeline of its own module: whatever is
\* proved of that for frames in any order holds of a transfer.
THEOREM ReceiverIsPipeline == Spec => P!Spec
  <1>1. Init => P!Init
    BY SameReceiver DEF Init
  <1> QED BY <1>1, ReceiverStep, PTL DEF Spec, P!Spec
=============================================================================
