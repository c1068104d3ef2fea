----------------------------- MODULE RelayClient -----------------------------
(***************************************************************************)
(* win32_relay_client.c as pd_win32_receiver_run_session and its loop use  *)
(* it: one WebSocket, and one buffer in which messages are put together    *)
(* from the pieces curl_ws_recv returns and from which answers are sent in *)
(* the pieces curl_ws_send takes.                                          *)
(*                                                                         *)
(* A message is a sequence of cells.  Its header takes HeaderSize of them: *)
(* a magic cell and the number of payload cells.  Any cell may be the      *)
(* magic one, so the rest of a message may look like a message.  The loop  *)
(* itself is ReceivePipeline; here it takes a message, answers it or not,  *)
(* and goes on or returns.                                                 *)
(***************************************************************************)
EXTENDS Naturals, Sequences

CONSTANTS
    Message,       \* the binary messages the relay may write, well-formed or not
    Answer,        \* the encoded acknowledgements
    Ping,          \* payloads of control frames
    Magic, HeaderSize,
    MaxMessage,    \* PD_RELAY_WS_MESSAGE_MAX_SIZE
    Faults,
    MaxSent,       \* bound on the messages of the relay
    MaxWire        \* bound on the frames under way

ClientFaults == {"init", "stall", "curl"}

ASSUME ClientAssumption ==
    /\ Message \subseteq Seq(Nat) /\ Answer \subseteq Seq(Nat) /\ Ping \subseteq Seq(Nat)
    /\ HeaderSize = 2 /\ MaxMessage \in Nat
    /\ \A m \in Answer : Len(m) \in HeaderSize .. MaxMessage
    /\ Faults \subseteq ClientFaults /\ MaxSent \in Nat /\ MaxWire \in Nat

VARIABLES
    pc,         \* where the worker is: "init", "connect", "receive", "handle", "send",
                \* "cleanup" or "done"
    state,      \* client->state
    offset,     \* the local of receive_frame or send_frame
    buffer,     \* client->message_buffer, up to what was last written
    wire,       \* WebSocket frames on their way from the relay
    at,         \* how much of the first of them has been read
    out,        \* what the relay has of the frame being sent to it
    sent,       \* history: the data frames the relay wrote
    got,        \* history: the messages the loop was given
    stalled,    \* history: the messages in the middle of which a timeout fell
    asked,      \* history: the answers the loop wanted sent
    answers,    \* history: the answers the relay has received
    broken      \* history: a call of curl or of the system has failed

local == <<pc, state, offset, buffer>>
history == <<sent, got, stalled, asked, answers, broken>>
vars == <<local, wire, at, out, history>>

MayFail(call) == call \in Faults

\* pd_relay_curl_failure.
CurlFailure(code) == IF code = "GOT_NOTHING" THEN "CLOSED" ELSE "FAILED"

\* A call fails and the loop, if it runs, returns.
End(s) == pc' = "cleanup" /\ state' = s
CurlFails == /\ MayFail("curl") /\ broken' = TRUE
             /\ \E code \in {"GOT_NOTHING", "OTHER"} : End(CurlFailure(code))

\* pd_relay_message_decode accepts it.
Decodes(m) == /\ Len(m) \in HeaderSize .. MaxMessage
              /\ m[1] = Magic /\ m[2] = Len(m) - HeaderSize

Init == /\ pc = "init" /\ state = "EMPTY" /\ offset = 0 /\ buffer = <<>>
        /\ wire = <<>> /\ at = 0 /\ out = <<>>
        /\ sent = <<>> /\ got = <<>> /\ stalled = {} /\ asked = <<>> /\ answers = <<>>
        /\ broken = FALSE

-----------------------------------------------------------------------------
\* pd_win32_relay_client_init and pd_win32_relay_client_connect.  A failing init has
\* released everything, and no cleanup follows it.
ClientInit ==
    /\ pc = "init"
    /\ \/ state' = "PREPARED" /\ pc' = "connect"
       \/ MayFail("init") /\ state' \in {"EMPTY", "FAILED"} /\ pc' = "done"
    /\ UNCHANGED <<offset, buffer, wire, at, out, history>>

ClientConnect ==
    /\ pc = "connect"
    /\ \/ state' = "CONNECTED" /\ pc' = "receive" /\ UNCHANGED broken
       \/ CurlFails
    /\ UNCHANGED <<offset, buffer, wire, at, out, sent, got, stalled, asked, answers>>

-----------------------------------------------------------------------------
\* The relay's end of the connection.

Connected == pc \in {"receive", "handle", "send"}
CanWrite == /\ Connected /\ Len(wire) < MaxWire
            /\ \A i \in DOMAIN wire : wire[i].kind # "CLOSE"

\* A message of the relay, or a frame of another type.
RelayWrites ==
    /\ CanWrite /\ Len(sent) < MaxSent
    /\ \E f \in [kind : {"BINARY"}, bytes : Message] \cup [kind : {"TEXT"}, bytes : {<<>>}] :
          wire' = Append(wire, f) /\ sent' = Append(sent, f)
    /\ UNCHANGED <<local, at, out, got, stalled, asked, answers, broken>>

RelayControls ==
    /\ CanWrite
    /\ \E f \in [kind : {"PING"}, bytes : Ping] \cup [kind : {"CLOSE"}, bytes : {<<>>}] :
          wire' = Append(wire, f)
    /\ UNCHANGED <<local, at, out, history>>

-----------------------------------------------------------------------------
\* pd_win32_relay_client_receive_frame.

Capacity == MaxMessage - offset

\* curl_ws_recv stores n cells of a frame of this kind at offset; left more are to
\* come.  A piece has cells unless the frame has none.
Piece(kind, n, left) ==
    /\ pc = "receive" /\ wire # <<>> /\ Head(wire).kind = kind
    /\ LET bytes == Head(wire).bytes
       IN  /\ n \in 0 .. Len(bytes) - at /\ n <= Capacity
           /\ n = 0 => at = Len(bytes)
           /\ left = Len(bytes) - at - n
           /\ buffer' = SubSeq(buffer, 1, offset) \o SubSeq(bytes, at + 1, at + n)
    /\ wire' = IF left = 0 THEN Tail(wire) ELSE wire
    /\ at' = IF left = 0 THEN 0 ELSE at + n
    /\ UNCHANGED <<out, history>>

RecvClose == Piece("CLOSE", 0, 0) /\ End("CLOSED") /\ UNCHANGED offset
RecvText  == Piece("TEXT", 0, 0) /\ End("FAILED") /\ UNCHANGED offset

RecvPing == \E n, left \in 0 .. MaxMessage :
               /\ Piece("PING", n, left)
               /\ offset' = IF left = 0 THEN 0 ELSE offset
               /\ UNCHANGED <<pc, state>>

\* Mutated forms: a message of the largest size is refused; the loop goes on after
\* the last piece.
AcceptBelowMax(n, left) ==
    /\ offset' = offset + n
    /\ IF left >= MaxMessage - offset' THEN End("FAILED")
       ELSE IF left # 0 THEN UNCHANGED <<pc, state>>
       ELSE IF Decodes(SubSeq(buffer', 1, offset')) THEN pc' = "handle" /\ UNCHANGED state
       ELSE End("FAILED")
AcceptNever(n, left) == offset' = offset + n /\ UNCHANGED <<pc, state>>

\* A piece of a binary frame: too much is announced, more is to come, or the message
\* is whole and is decoded.
Accept(n, left) ==
    /\ offset' = offset + n
    /\ IF left > MaxMessage - offset' THEN End("FAILED")
       ELSE IF left # 0 THEN UNCHANGED <<pc, state>>
       ELSE IF Decodes(SubSeq(buffer', 1, offset')) THEN pc' = "handle" /\ UNCHANGED state
       ELSE End("FAILED")

RecvBinary == \E n, left \in 0 .. MaxMessage : Piece("BINARY", n, left) /\ Accept(n, left)

Recv == RecvClose \/ RecvText \/ RecvPing \/ RecvBinary

\* Nothing comes within the time.  pd_runtime_receive_frame calls again, and the new
\* call starts at offset 0 whatever the last one had read.
RecvTimeout ==
    /\ pc = "receive"
    /\ wire = <<>> \/ MayFail("stall")
    /\ offset' = 0
    /\ stalled' = IF at > 0 /\ Head(wire).kind = "BINARY"
                  THEN stalled \cup {Len(got) + 1} ELSE stalled
    /\ UNCHANGED <<pc, state, buffer, wire, at, out, sent, got, asked, answers, broken>>

\* curl_ws_recv or select fails.
RecvError ==
    /\ pc = "receive" /\ CurlFails
    /\ UNCHANGED <<offset, buffer, wire, at, out, sent, got, stalled, asked, answers>>

-----------------------------------------------------------------------------
\* Mutated form: the answer is encoded before the payload is used.
HandleAfterAnswer ==
    /\ pc = "handle"
    /\ \E a \in Answer : buffer' = a /\ asked' = Append(asked, a)
    /\ got' = Append(got, buffer')
    /\ pc' = "send" /\ offset' = 0
    /\ UNCHANGED <<state, wire, at, out, sent, stalled, answers, broken>>

\* The loop handles the message, whose payload is still in the buffer, and then
\* returns or has an answer encoded into the same buffer.
Handle ==
    /\ pc = "handle"
    /\ got' = Append(got, SubSeq(buffer, 1, offset))
    /\ \/ /\ \E a \in Answer : buffer' = a /\ asked' = Append(asked, a)
          /\ pc' = "send"
       \/ pc' = "cleanup" /\ UNCHANGED <<buffer, asked>>
    /\ offset' = 0
    /\ UNCHANGED <<state, wire, at, out, sent, stalled, answers, broken>>

\* Mutated form: offset is set and not advanced.
AdvancedTo(n) == n

Advanced(n) == offset + n

\* pd_win32_relay_client_send_frame: curl takes n cells of what is left.  The frame
\* ends for the relay when it has as many cells as the first call announced.
SendPiece ==
    /\ pc = "send"
    /\ \E n \in 1 .. Len(buffer) - offset :
          LET arrived == out \o SubSeq(buffer, offset + 1, offset + n)
              whole == Len(arrived) >= Len(buffer)
          IN  /\ out' = IF whole THEN <<>> ELSE arrived
              /\ answers' = IF whole THEN Append(answers, arrived) ELSE answers
              /\ IF Advanced(n) < Len(buffer)
                 THEN offset' = Advanced(n) /\ UNCHANGED pc
                 ELSE offset' = 0 /\ pc' \in {"receive", "cleanup"}
    /\ UNCHANGED <<state, buffer, wire, at, sent, got, stalled, asked, broken>>

\* A timeout leaves the client connected; the loop returns all the same.
SendFails ==
    /\ pc = "send"
    /\ \/ MayFail("stall") /\ End("CONNECTED") /\ UNCHANGED broken
       \/ CurlFails
    /\ UNCHANGED <<offset, buffer, wire, at, out, sent, got, stalled, asked, answers>>

\* pd_win32_relay_client_cleanup.
Cleanup ==
    /\ pc = "cleanup" /\ pc' = "done" /\ state' = "CLOSED"
    /\ buffer' = <<>> /\ offset' = 0 /\ wire' = <<>> /\ at' = 0
    /\ UNCHANGED <<out, history>>

-----------------------------------------------------------------------------
Next == \/ ClientInit \/ ClientConnect \/ RelayWrites \/ RelayControls
        \/ Recv \/ RecvTimeout \/ RecvError \/ Handle \/ SendPiece \/ SendFails \/ Cleanup

Spec == Init /\ [][Next]_vars

\* What is on the wire arrives, and the worker thread runs.
FairSpec == /\ Spec /\ WF_vars(Recv) /\ WF_vars(Handle) /\ WF_vars(SendPiece)
            /\ WF_vars(Cleanup)

-----------------------------------------------------------------------------
\* Properties.

Frame == [kind : {"BINARY", "TEXT", "PING", "CLOSE"}, bytes : Seq(Nat)]

\* Every variable has the values the code's types allow it, and the buffer is never
\* written past its end.
TypeOK ==
    /\ pc \in {"init", "connect", "receive", "handle", "send", "cleanup", "done"}
    /\ state \in {"EMPTY", "PREPARED", "CONNECTED", "CLOSED", "FAILED"}
    /\ offset \in 0 .. MaxMessage /\ buffer \in Seq(Nat) /\ Len(buffer) <= MaxMessage
    /\ wire \in Seq(Frame) /\ at \in Nat /\ out \in Seq(Nat)
    /\ sent \in Seq(Frame) /\ got \in Seq(Seq(Nat)) /\ stalled \subseteq Nat
    /\ asked \in Seq(Answer) /\ answers \in Seq(Seq(Nat))
    /\ Connected => state = "CONNECTED"
    /\ broken \in BOOLEAN

\* The loop is given the messages of the relay, each once, in order and whole,
\* whatever pieces they come in and however often the buffer was used for an answer.
\* The buffer is never filled past its end.
\* Only of a message that stalled for PD_RELAY_IO_TIMEOUT_MS can it be given just the
\* end (which the decoder then has to take for a message).
ReceivedInOrder ==
    /\ offset <= MaxMessage /\ Len(buffer) <= MaxMessage
    /\ Len(got) <= Len(sent)
    /\ \A k \in DOMAIN got :
          LET m == sent[k].bytes
          IN  \/ got[k] = m
              \/ k \in stalled /\ \E i \in 2 .. Len(m) : got[k] = SubSeq(m, i, Len(m))

\* A message the decoder can read is not refused for the way it was cut into pieces,
\* up to the largest size: without a failing call, only a stall or a bad frame makes
\* the client fail.
GoodMessagesAccepted ==
    state = "FAILED" /\ pc = "cleanup" =>
        \/ broken \/ stalled # {}
        \/ \E k \in DOMAIN sent : sent[k].kind = "TEXT" \/ ~Decodes(sent[k].bytes)

\* The relay receives the answers of the loop whole and in order, whatever pieces they
\* were sent in, and never part of one as a message of its own.
AnswersWhole ==
    /\ Len(answers) \in {Len(asked), Len(asked) - 1}
    /\ \A k \in DOMAIN answers : answers[k] = asked[k]

\* A message the relay has written is given to the loop, unless the loop ends.
MessageArrives ==
    \A k \in 1 .. MaxSent :
        (Len(sent) >= k) ~> (Len(got) >= k \/ pc \in {"cleanup", "done"})
=============================================================================
