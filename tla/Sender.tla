------------------------------- MODULE Sender -------------------------------
(***************************************************************************)
(* web/app.js and web/sender.js: the page that sends one file.             *)
(*                                                                         *)
(* The click handler hashes the file, opens a WebSocket and calls          *)
(* sendFile, which sends FILE_BEGIN, the CHUNKs and FILE_END and waits for *)
(* the acknowledgement of each before it sends the next.  Whatever goes    *)
(* wrong rejects a promise and ends in the handler's catch block: the      *)
(* socket is closed and the button is enabled again.  What the awaited     *)
(* promises settle with is one step each; the page reacts to nothing in    *)
(* between.                                                                *)
(***************************************************************************)
EXTENDS Naturals, Sequences

CONSTANTS
    File,            \* the files the user may pick: [name, bytes]
    ChunkSize,       \* FILE_CHUNK_SIZE
    Sha256(_),
    Altered(_),      \* what a chunk reads as when the file changed after hashing
    Disturbances     \* what may happen to page, link and receiver

VARIABLES
    page,      \* where the click handler is
    tx,        \* its locals: file, digest, the next frame's type, offset, end
    sock,      \* activeSocket: "none", "open" or "closed"
    up,        \* frames on their way to the receiver
    down       \* acknowledgements on their way to the page

senderVars == <<page, tx, sock, up, down>>

NoTx == [file |-> [name |-> "", bytes |-> <<>>], digest |-> Sha256(<<>>),
         next |-> "FILE_BEGIN", offset |-> 0, end |-> 0]

SenderInit == /\ page = "ready" /\ tx = NoTx /\ sock = "none"
              /\ up = <<>> /\ down = <<>>

Happens(what) == what \in Disturbances

\* closeActiveSocket.  What has reached the socket is not listened to any more;
\* what the relay still holds may stay there.
CloseSocket == /\ sock' = IF sock = "open" THEN "closed" ELSE sock
               /\ \E n \in 0 .. Len(down) : down' = SubSeq(down, n + 1, Len(down))

\* Mutated form: the button is not enabled again.
FailStaysBusy == CloseSocket /\ UNCHANGED <<page, tx>>

\* The catch block of the click handler.
Fail == page' = "failed" /\ CloseSocket /\ UNCHANGED tx

\* The user picks a file and clicks; after a failure the page allows it again.
Click ==
    /\ page \in {"ready", "failed"}
    /\ \E f \in File : tx' = [NoTx EXCEPT !.file = f]
    /\ page' = "hash"
    /\ UNCHANGED <<sock, up, down>>

\* hashFileIncremental, over the bytes the file has now.
HashFile ==
    /\ page = "hash"
    /\ tx' = [tx EXCEPT !.digest = Sha256(tx.file.bytes)]
    /\ page' = "connect"
    /\ UNCHANGED <<sock, up, down>>

\* waitForSocketOpen: the relay accepts the connection, or refuses it, or the
\* connection is not open in time.
Opened == /\ page = "connect"
          /\ page' = "send" /\ sock' = "open"
          /\ UNCHANGED <<tx, up, down>>

ConnectFails == page = "connect" /\ Fail /\ UNCHANGED up

FileSize == Len(tx.file.bytes)

NextEnd == IF tx.offset + ChunkSize < FileSize THEN tx.offset + ChunkSize ELSE FileSize

BeginFrame == [type |-> "FILE_BEGIN", check |-> "ok",
               meta |-> [size |-> FileSize, sha256 |-> tx.digest, name |-> tx.file.name]]
DataFrame(type, bytes) == [type |-> type, check |-> "ok", bytes |-> bytes]

\* Mutated form: the acknowledgement is not awaited.
SendOnly(frame, expect) ==
    /\ up' = Append(up, frame)
    /\ tx' = [tx EXCEPT !.end = expect]
    /\ page' = "send"
    /\ UNCHANGED <<sock, down>>

\* sendFrameAndWait up to its await.  expect is the byte count the
\* acknowledgement has to carry.
Send(frame, expect) ==
    /\ up' = Append(up, frame)
    /\ tx' = [tx EXCEPT !.end = expect]
    /\ page' = "wait"
    /\ UNCHANGED <<sock, down>>

Sending(type) == page = "send" /\ sock = "open" /\ tx.next = type

SendBegin == Sending("FILE_BEGIN") /\ Send(BeginFrame, 0)

\* encodeFileBegin throws: the name does not fit into a FILE_BEGIN.
NameRefused == Sending("FILE_BEGIN") /\ Happens("overlong") /\ Fail /\ UNCHANGED up

\* Blob.slice cuts off what lies behind the end of the file.
Slice(offset, end) ==
    SubSeq(tx.file.bytes, offset + 1, IF end < FileSize THEN end ELSE FileSize)

SendChunk == /\ Sending("CHUNK")
             /\ Send(DataFrame("CHUNK", Slice(tx.offset, NextEnd)), NextEnd)

\* The slice is read from the file as it is now, and not as it was hashed.
SendAltered == /\ Sending("CHUNK") /\ Happens("altered")
               /\ Send(DataFrame("CHUNK", Altered(Slice(tx.offset, NextEnd))), NextEnd)

SendEnd == Sending("FILE_END") /\ Send(DataFrame("FILE_END", <<>>), FileSize)

\* The socket is no longer open when the next frame is due.
SendFails == page = "send" /\ sock # "open" /\ Fail /\ UNCHANGED up

\* The file cannot be read, to hash it or for the next chunk.
Unreadable == /\ Happens("unreadable")
              /\ page = "hash" \/ (page = "send" /\ tx.next = "CHUNK")
              /\ Fail /\ UNCHANGED up

\* Mutated form: one chunk too many.
AfterOneMore(type, offset) == IF type = "FILE_END" THEN "DONE"
                              ELSE IF offset <= FileSize THEN "CHUNK" ELSE "FILE_END"

\* What sendFile does after the acknowledgement of a frame.
After(type, offset) == IF type = "FILE_END" THEN "DONE"
                       ELSE IF offset < FileSize THEN "CHUNK" ELSE "FILE_END"

\* Mutated form: the status is not looked at.
AcceptsAnyStatus(a) == a.type = tx.next /\ a.received = tx.end

Accepts(a) == a.type = tx.next /\ a.status = "OK" /\ a.received = tx.end

\* waitForAck resolves and the byte count agrees.
Acknowledged ==
    /\ page = "wait" /\ down # <<>> /\ Accepts(Head(down))
    /\ tx' = [tx EXCEPT !.offset = tx.end, !.next = After(tx.next, tx.end)]
    /\ IF tx.next = "FILE_END"
       THEN page' = "sent" /\ CloseSocket
       ELSE page' = "send" /\ down' = Tail(down) /\ UNCHANGED sock
    /\ UNCHANGED up

\* waitForAck rejects: the acknowledgement refuses the frame, the socket closes,
\* or none comes within the time.
Rejected == page = "wait" /\ down # <<>> /\ ~Accepts(Head(down)) /\ Fail /\ UNCHANGED up

Disconnected == page = "wait" /\ down = <<>> /\ sock = "closed" /\ Fail /\ UNCHANGED up

AckTimeout == page = "wait" /\ Happens("timeout") /\ Fail /\ UNCHANGED up

\* pagehide.
PageHide == /\ page # "gone" /\ Happens("hide")
            /\ page' = "gone" /\ CloseSocket /\ UNCHANGED <<tx, up>>
=============================================================================
