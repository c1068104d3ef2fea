------------------------------ MODULE Transfer ------------------------------
(***************************************************************************)
(* A transfer from end to end: the page of Sender, the receiving side of   *)
(* ReceivePipeline and, between them, the connections and the relay as the *)
(* two ends see it.  Each WebSocket keeps its messages in order.  When     *)
(* either end leaves, the relay cancels the bridge, and what was under way *)
(* in either direction may be lost: the select of servePeer's writer       *)
(* chooses between its message and the cancelled context.                  *)
(*                                                                         *)
(* Every session has an id of its own, so a page reaches the receiver only *)
(* while the session it was opened for lasts.                              *)
(***************************************************************************)
EXTENDS Naturals, Sequences, FiniteSets

CONSTANTS JobId, Name, FileName, Part, Byte, Size, Payload, Digest, Sha256(_), MaxPayload,
          Faults, None, File, ChunkSize, Altered(_), Disturbances,
          MaxSessions   \* bound on the sessions of the receiver

VARIABLES
    pc, frame, result, outcome, proto, handler_active, fr, sink, hash, ack, event,
    files, data, dirty, completed, before,   \* ReceivePipeline
    page, tx, sock, up, down,                \* Sender
    link,       \* the bridge: "none" while no sender has joined it, "joined",
                \* "doomed" when a second sender has joined it, "cancelled"
    session,    \* the session the receiver is in
    opened,     \* the session the page was opened for
    confirmed,  \* history: how often a page has told its user "File sent"
    disturbed   \* history: page, file, connection, relay or receiver has failed

R == INSTANCE ReceivePipeline
S == INSTANCE Sender

\* What ReceivePipeline assumes of its parameters.
ASSUME ReceiverAssumption ==
    /\ Name \subseteq FileName /\ Part \in [Name -> FileName] /\ \A n \in Name : Part[n] # n
    /\ None \notin JobId \X FileName
    /\ Size \subseteq Nat /\ Payload \subseteq Seq(Byte) /\ MaxPayload \in Nat
    /\ Faults \subseteq R!FaultKinds

\* No other bytes of the same length have the digest of a file the user picks.
ASSUME FileAssumption ==
    /\ ChunkSize \in Nat
    /\ \A f \in File : /\ f.bytes \in Seq(Byte)
                       /\ \A s \in [1 .. Len(f.bytes) -> Byte] :
                             Sha256(s) = Sha256(f.bytes) => s = f.bytes

receiverVars == <<pc, frame, result, outcome, proto, handler_active, fr, sink, hash, ack,
                  event, files, data, dirty, completed, before>>
senderVars == <<page, tx, sock, up, down>>
linkVars == <<link, session, opened>>
vars == <<receiverVars, senderVars, linkVars, confirmed, disturbed>>

Happens(what) == what \in Disturbances

Init == /\ R!Init /\ S!SenderInit
        /\ link = "none" /\ session = 1 /\ opened = 1 /\ confirmed = 0 /\ disturbed = FALSE

-----------------------------------------------------------------------------
\* The page.

\* The relay lets the page join the receiver of its session if nobody has, or
\* after the last sender has been detached and before its bridge is cancelled.
CanJoin == /\ opened = session /\ pc # "ended"
           /\ link = "none" \/ (link = "joined" /\ sock = "closed")

Connect == /\ CanJoin /\ S!Opened
           /\ link' = IF link = "none" THEN "joined" ELSE "doomed"
           /\ UNCHANGED <<receiverVars, session, opened, confirmed, disturbed>>

ConnectFails == /\ ~CanJoin \/ Happens("break")
                /\ S!ConnectFails
                /\ disturbed' = (disturbed \/ CanJoin)
                /\ UNCHANGED <<receiverVars, linkVars, confirmed>>

\* What the page does by itself, and what may happen to it.
PageStep == \/ S!HashFile \/ S!SendBegin \/ S!SendChunk \/ S!SendEnd \/ S!SendFails
            \/ S!Acknowledged \/ S!Rejected \/ S!Disconnected
PageFault == S!SendAltered \/ S!NameRefused \/ S!Unreadable \/ S!AckTimeout

PageRuns == /\ \/ PageStep /\ UNCHANGED disturbed
               \/ PageFault /\ disturbed' = TRUE
            /\ confirmed' = IF page' = "sent" THEN confirmed + 1 ELSE confirmed
            /\ UNCHANGED <<receiverVars, linkVars>>

UserActs == /\ \/ S!Click /\ UNCHANGED disturbed
               \/ S!PageHide /\ disturbed' = TRUE
            /\ UNCHANGED <<receiverVars, linkVars, confirmed>>

\* The user scans the code of the session the receiver is in now.
OpenPage == /\ page \in {"ready", "sent", "failed", "gone"} /\ opened # session
            /\ page' = "ready" /\ tx' = S!NoTx /\ sock' = "none" /\ opened' = session
            /\ down' = <<>>
            /\ UNCHANGED <<receiverVars, up, link, session, confirmed, disturbed>>

-----------------------------------------------------------------------------
\* The receiver.

Deliver == /\ up # <<>>
           /\ R!ReceiveFrame /\ frame' = Head(up) /\ up' = Tail(up)
           /\ UNCHANGED <<page, tx, sock, down, linkVars, confirmed, disturbed>>

\* An acknowledgement sent over a cancelled bridge goes nowhere.
Work == /\ R!Worker
        /\ down' = IF ack' # ack /\ link \in {"joined", "doomed"}
                   THEN Append(down, ack') ELSE down
        /\ disturbed' = (disturbed \/ outcome' = "SEND_ERROR")
        /\ UNCHANGED <<page, tx, sock, up, linkVars, confirmed>>

\* The connection of the receiver fails once everything on it has been read.
Lose == /\ link = "cancelled" /\ up = <<>>
        /\ R!ReceiveError
        /\ UNCHANGED <<senderVars, linkVars, confirmed, disturbed>>

-----------------------------------------------------------------------------
\* The relay between them.

Hangup == sock' = IF sock = "open" THEN "closed" ELSE sock

\* Of the messages under way the last may be lost.
Truncate == /\ \E n \in 0 .. Len(up) : up' = SubSeq(up, 1, n)
            /\ \E n \in 0 .. Len(down) : down' = IF sock = "open" THEN SubSeq(down, 1, n)
                                                                  ELSE <<>>

Cancel == link' = "cancelled" /\ Hangup /\ Truncate
          /\ UNCHANGED <<receiverVars, page, tx, session, opened, confirmed>>

\* handleSender returns and cancels the bridge.
SenderLeft == (link = "joined" /\ sock = "closed") \/ link = "doomed"

\* Mutated form: the sender is detached and the bridge kept for another one.
RelayKeepsBridge == /\ SenderLeft /\ link' = "none" /\ Hangup /\ Truncate
                    /\ UNCHANGED <<receiverVars, page, tx, session, opened, confirmed, disturbed>>

RelayCancels == SenderLeft /\ Cancel /\ UNCHANGED disturbed

\* The receiver has closed its connection: pd_win32_relay_client_cleanup.
RelayCloses == /\ pc = "ended" /\ link \in {"none", "joined"} /\ Cancel
               /\ UNCHANGED disturbed

\* The session expires, or a connection or the relay fails.
Break == Happens("break") /\ link \in {"none", "joined"} /\ Cancel /\ disturbed' = TRUE

-----------------------------------------------------------------------------
\* The next session of the receiver, after a delivery or a restart.

NewSession == /\ session < MaxSessions /\ session' = session + 1
              /\ link' = "none" /\ Hangup
              /\ up' = <<>>
              /\ \E n \in 0 .. Len(down) :
                    down' = IF sock = "open" THEN SubSeq(down, 1, n) ELSE <<>>
              /\ UNCHANGED <<page, tx, opened, confirmed>>

Again   == R!NextSession /\ NewSession /\ UNCHANGED disturbed
Restart == /\ \/ Happens("exit")  /\ R!ProcessExit
              \/ Happens("power") /\ R!PowerLoss
           /\ NewSession /\ disturbed' = TRUE

-----------------------------------------------------------------------------
Next == \/ Connect \/ ConnectFails \/ PageRuns \/ UserActs \/ OpenPage
        \/ Deliver \/ Work \/ Lose
        \/ RelayCancels \/ RelayCloses \/ Break
        \/ Again \/ Restart

Spec == Init /\ [][Next]_vars

\* The page's promises settle (each has a timer), the worker thread runs, messages
\* of an open connection arrive, and the relay's handlers return.
FairSpec == /\ Spec
            /\ WF_vars(PageRuns) /\ WF_vars(Connect) /\ WF_vars(ConnectFails)
            /\ WF_vars(Deliver) /\ WF_vars(Work) /\ WF_vars(Lose)
            /\ WF_vars(RelayCancels) /\ WF_vars(RelayCloses)

-----------------------------------------------------------------------------
\* Properties.

\* The deliveries of the file the page holds.
DeliveriesOf(f) == {c \in completed : /\ c.path[2] = f.name
                                      /\ c.size = Len(f.bytes)
                                      /\ data[c.path] = f.bytes}

\* Every "File sent" stands for a delivery of its own, with the bytes the user
\* picked, whatever was lost, late or refused and however often the receiver was
\* restarted (waitForAck's checks, the acknowledgement of FILE_END after the
\* rename).
SentMeansDelivered ==
    /\ confirmed <= Cardinality(completed)
    /\ page = "sent" => DeliveriesOf(tx.file) # {}

\* A sender that waits for each acknowledgement never has a frame under way while
\* the receiver handles another, so the relay's channels of one message never
\* fill, nor meets the acknowledgement of an earlier frame.
LockStep ==
    link = "joined" /\ sock = "open" =>
        /\ Len(up) + Len(down) <= 1
        /\ up # <<>> => pc = "recv"
        /\ page = "send" => up = <<>> /\ down = <<>>

\* The click handler always comes to an end: the file is sent or the button works
\* again (or the page is gone).
SenderSettles == page \in {"hash", "connect", "send", "wait"} ~>
                     page \in {"sent", "failed", "gone"}

\* A receiver whose sender has left does not wait for ever with a half-received
\* file: its loop returns, or it goes on to the next session.
ReceiverSettles == \A n \in 1 .. MaxSessions :
    (session = n /\ SenderLeft) ~> (session # n \/ pc = "ended")

\* With nothing in its way a transfer delivers its file: in the first session, whose
\* job id is not one that has been drawn before.  (No run of this property has
\* failures of the disk or the digest, which disturbed does not record.)
CalmDelivers ==
    (page = "connect" /\ CanJoin /\ session = 1) ~> (DeliveriesOf(tx.file) # {} \/ disturbed)
=============================================================================
