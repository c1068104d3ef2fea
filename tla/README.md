# PrintDrop in TLA+

PrintDrop carries a file from a phone to a Windows computer. The computer shows a
QR code; the phone opens the page it names, the page sends the file through a relay,
and the computer checks it and puts it into a job directory. This directory holds
TLA+ models of the program, the TLC configurations that check them on small
instances, and theorems with proofs for TLAPS.

    tlc -workers 2 -config ReceivePipeline.cfg MCReceivePipeline    # one run
    tlapm ReceivePipelineProofs.tla                                 # one proof module

`PROJECT.json` lists the runs, the source lines behind every definition, the hazards
of the code with the properties that would catch them, and for every property a mutated
form of some definition (`... Mutated form: ...` in the modules) that breaks it.

## 1. The system

| component | state it keeps | operations | made correct by |
|---|---|---|---|
| receiver loop (`receiver_loop.c`) | none; receives, handles, acknowledges | `pd_receiver_loop_run` | every frame is answered; events in the order the window relies on |
| protocol (`receiver_protocol.c`) | `WAIT_FILE`, `RECEIVING`, `COMPLETE`, `FAILED`; whether a file is active | `handle`, `abort` | a frame out of order never reaches the file |
| receive handler (`win32_receive_handler.c`) | the job in hand, whether it is active | `begin`, `write`, `finish`, `abort` | what it began it releases |
| file receiver (`file_receive.c`) | state, expected and received bytes, what has been started | `begin`, `write`, `finish`, `abort` | bytes counted = hashed = written |
| sink and hash (`win32_file_sink.c`, `win32_sha256.c`) | staging file and handle; hash context | create, write, flush, close, rename, delete; begin, update, finish | a final path only ever names a whole file |
| session and runtime (`receiver_session.c`, `win32_receiver_runtime.c`) | id, secret, state, deadline | create, begin, expire, close; register, connect, run the loop | a deadline that never wraps; credentials wiped at the end |
| window (`win32_main.c`) | what it shows, worker handle, timer, session | prepare, start worker, handle messages, rotate, destroy | never shares the session with a running worker |
| relay (`relay/server.go`) | session map, records with timers, bridges, goroutines | register, expire, attach, detach, forward | one receiver and one sender at a time; nothing outlives its session |
| page (`web/app.js`, `web/sender.js`) | the click handler's locals, the socket | hash, connect, send and wait | "File sent" is true |
| relay client (`win32_relay_client.c`, `win32_relay_registration.c`) | curl handle, receive buffer | connect, receive, send, register | a message is received whole or not at all |
| wire formats (`frame.c`, `ack.c`, `file_begin.c`, `relay_message.c`, `web/protocol.js`) | none | encode, decode, in C and in JavaScript | each side reads what the other wrote; one encoding per meaning |
| names (`filename.c`, `job_id.c`, the paths of `win32_file_sink.c`) | none | sanitize, format, validate, join | an ordinary file in the job's directory; good names unchanged |
| addresses (`relay_endpoint.c`, `relay_registration.c`, `session_url.c`, `win32_main.c`, `relay/web.go`, `web/sender.js`) | none | link, endpoint, WebSocket URLs; taking a path apart | the code shown leads to the receiver that shows it |
| others | `session.c` and `transport.c` (called by tests only), `qr.c`, `win32_random.c`, `secure_zero.c`, `web/sha256.js`, `relay/web.go` | | |

How they interact. Page and receiver each hold a WebSocket to the relay, which
forwards binary messages through two channels of one message each. On the receiver a
worker thread runs one session: it registers, connects, runs the loop, and tells the
window thread what happens by posting messages. Window thread and worker thread share
`pd_app.session` without a lock. The loop calls down through protocol, handler and
file receiver to the system; errors come back as results and each level cleans up its
own part.

What is hard here:

* *partial failure*: every system call on the way of a chunk can fail, and cleanup is
  split over four levels that each decide whether they still have something to release;
* *crashes*: the window may be closed or the machine may stop between write, flush,
  close and rename; `wWinMain` does not wait for its worker;
* *interleavings in the relay*: handlers, timers and writers of several connections
  around one mutex, with state looked at before and used after it;
* *lost acknowledgements*: the receiver closes right after its last acknowledgement,
  and the relay may drop it;
* *timeouts and retries* of the page, whose late answers meet the next attempt;
* *two threads and a message queue* in the window, over many sessions;
* *things written down more than once*: the message layout in two languages, the base URL
  taken apart in four places with limits of their own, a name cleaned by one level and
  checked by another.

## 2. The modules

| module | models | extends / composes |
|---|---|---|
| `FileDrop` | abstract: what the job directory promises | |
| `LoopEvents` | events of the loop and the order they come in | |
| `ReceivePipeline` | loop, protocol, handler, file receiver, hash, sink, disk | `LoopEvents`; implements `FileDrop` |
| `Sender` | the page | |
| `Transfer` | page, connections and receiver together | instances of `Sender` and `ReceivePipeline` |
| `RelayServer` | the relay's sessions, bridges and goroutines | |
| `RelayClient` | the receiver's end of its WebSocket: messages from pieces, answers in pieces | |
| `ReceiverApp` | window, worker thread, session, message queue | `LoopEvents` |
| `ReceiverSession` | the session object and its clock | |
| `Addresses` | links, endpoints and URLs as pure operators, limits included | |
| `Rendezvous` | how a page finds a receiver: configuration, session, registration, connection, link, page | `Addresses`; an instance of `ReceiverSession` |
| `WireFormats` | frames, FILE_BEGIN and acknowledgements as bytes, in both languages | |
| `FileNames` | the sanitizer, job ids, the sink's checks and paths | |
| `Intake` | a message and its answer on their way through all of these | `WireFormats`; an instance of `FileNames` |
| `ReceivePipelineProofs`, `ReceiveLoopProofs`, `RelayServerProofs`, `RelayClientProofs`, `ReceiverAppProofs`, `RendezvousProofs`, `IntakeProofs`, `TransferProofs` | theorems | the module each is named for; `ReceiveLoopProofs` extends `ReceivePipelineProofs`; an instance of it in `TransferProofs` |
| `MC...` | values of the constants for TLC | |

**ReceivePipeline.** The call stack from `pd_receiver_loop_run` down is cut into steps
that change the disk at most once; `pc` names the next one. So `pd_win32_sink_commit`
is `SinkFlush`, `SinkClose`, `SinkMove`, and the process can end between any two of
them. What a failing step does on its way up is `FileReceiverFail` (`pc = "drop"`),
then `ProtocolFail` (`"fail"`), then `SendNack` (`"nack"`). The variables are the structs of the code:
`proto`, `handler_active`, `fr`, `sink`, `hash`. The disk is a set of paths, the bytes
at each, and the paths whose bytes may still be in the system's cache. `completed` and
`before` are history. A path is a pair of job id and name; a payload is a sequence of
bytes; the digest is a parameter `Sha256(_)`. Frames are arbitrary: type, order, size
and content are chosen freely, so nothing relies on a well-behaved sender. The
constant `Faults` says which system calls may fail.

**Sender and Transfer.** Each promise the page awaits settles in one step. Everything
that can go wrong ends in the catch block (`Fail`). `Transfer` joins page and receiver
by two queues and `link`, the bridge as both see it: not joined, joined, joined by a
second sender (`"doomed"`), cancelled. When it is cancelled the messages under way may
be lost from the end on. A session has its own id, so a page reaches the receiver
only during the session it was opened for.

**RelayServer.** A function that holds the mutex is one step; the others are cut where
another goroutine can run: reading the clock and taking the lock in `register`, a
timer firing and `expire` taking the lock, `detachSender` and `cancel`, reading a
message and pushing it into the peer's channel. Records and bridges are named by the
request or connection that made them, which is the pointer identity the code compares.

**RelayClient.** `wire` holds the WebSocket frames on their way and `at` how much of the
first has been read; `Piece` is one `curl_ws_recv`, of any length curl may choose. Receiving
and sending share `buffer`, as in the code. A message is a sequence of cells with a header
of two (magic, length), and any payload may look like a header. A timeout ends the call, the
runtime calls again (`RecvTimeout`) and the new call starts at offset 0.

**ReceiverApp.** The worker thread's steps (register, connect, events, close the
session, post `DONE`) against the window's (start, handle an event, handle `DONE`,
timer, destroy). The loop inside is the order of its events, `EventAfter`; that
`ReceivePipeline` produces only such sequences is its property `EventsInOrder`.

**ReceiverSession and Rendezvous.** `ReceiverSession` has every call of `receiver_session.h`
on a clock of `ClockMax + 1` values that the sum in `create` is taken modulo of. The
application makes only two of these calls, create and close: it never calls `begin_transfer`
or `expire_if_due`, and the expiry `docs/architecture.md` asks for is the relay's.
`Rendezvous` therefore starts in one of two ways: as the application, from any value of
`PRINTDROP_BASE_URL` and of the opt-in for plain HTTP, or (`worker = "library"`) as another
caller that uses the session object freely. In the application `Prepare` is the window's part
(base, session, link, QR code, thread), and `Run`, `Register`, `ClientInit` and `Connect`
are `pd_win32_receiver_run_session` with its early returns; some close the session, some do
not. `Scan` and `Join` are a phone that opens the link, with or without a slash after it.
Each of these takes the base or the path apart with its own operator of `Addresses`, one per
function of the code. A text is a sequence of tokens (scheme, slash, host, id ...) and each
token has the length of the text it stands for, so that the limits are the code's own numbers.

**WireFormats, FileNames and Intake.** Offsets and field widths are those of the code; the
page's functions are translated from `protocol.js` and the receiver's from C, apart from each
other, a number field with an operator for each width (`WriteU16`, `ReadU32` ...), as
in the code. What Windows makes of a name (`Wide`), the bytes of a text (`Utf8`) and the
reserved names (`Device`) are parameters. `pd_ack_decode` and `pd_file_begin_encode`, which
only tests call, serve as the references for the page's functions. `Intake` sends one message: `PageSends` or
`ForeignSends` (the relay forwards what any client sends), `Receive`, then
`BeginFile`, `ChunkOrEnd` or `Unexpected`, `Reply`, `PageReads`. `BeginFile` is the chain
metadata, sanitizer, job id, sink with its second sanitizing, paths. It starts in both states
of the protocol in which the loop reads, because a message meets either.

## 3. What is checked

| run | states | properties |
|---|---|---|
| `receive_pipeline` | 538,098 | `TypeOK`, `DeliveredIntact`, `AcknowledgedIsStaged`, `CompleteMeansDelivered`, `ImplementsFileDrop`, `EventsInOrder` |
| `receive_cleanup` | 361,458 | `ReleasedAtEnd`, `FrameIsAnswered` |
| `receive_early_end` | violation | `StagingAlwaysRemoved` |
| `relay_sessions` | 1,793,746 | `LiveBridgeIsReachable`, `KeptUntilExpiry` |
| `relay_teardown` | 254,674 | `ExpiredSessionEnds`, `CancelledBridgeEnds`, `OneSenderAtATime`, `SecondSenderIsDoomed` |
| `relay_two_senders` | violation | `OneSenderPerReceiver` |
| `transfer_safety` | 1,011,714 | `SentMeansDelivered`, `LockStep` |
| `transfer_settles` | 166,850 | `SenderSettles`, `ReceiverSettles`, `CalmDelivers` |
| `relay_client` | 60,730 | `ReceivedInOrder`, `AnswersWhole`, `GoodMessagesAccepted`, `MessageArrives` |
| `receiver_app` | 6,508 | `SessionNotShared`, `NoStaleMessage`, `CredentialsWiped`, `ReadyMeansListening`, `OutcomeShown`, `Rotates` |
| `rendezvous` | 242,885 | `ListensWhenUsable`, `NothingInClear`, `LinkLeadsHere`, `OverMatchesNothing`, `NoLateTransfer` |
| `intake` | 638,769 | `PageIsUnderstood`, `AckIsUnderstood`, `OneEncoding`, `NameIsSafe`, `SinkAgrees`, `PageFileIsTaken` |

The type invariant of `ReceivePipeline` is checked and proved; those of `ReceiverApp`,
`RelayServer` and `RelayClient` are proved as parts of the inductive invariants of section 4.

*Receiver.* Whatever arrives, fails or stops the machine, a delivered file has its
announced size and digest, is out of the cache and stays as it is; an acknowledged
byte is in the staging file and in the digest; `COMPLETE` is only reported for a file
in its place; the loop always comes back from a frame; and when it returns, whatever ended
it, it has released what it held, unless a deletion failed or it ended with an empty
`FILE_END` refused before the last byte (`EarlyEnd`, section 6).

*Relay.* A session stays for its lifetime and not longer, whatever older records,
timers and receivers of the same id do; an expired one leaves the map and its bridge is
cancelled although nobody names it again; every bridge that forwards can be reached by
the expiry of its session; a sender excludes any other; a cancelled bridge is torn
down on both sides although readers may be blocked on full channels.

*End to end.* Each "File sent" of a page is a delivery of its own, with the bytes the
user picked. The page always comes to an end, and so does a receiver whose sender has
gone. When nothing fails, a file of any length is delivered; only the last
acknowledgement can be lost, and then the page reports a failure for a delivered file.

*Relay client.* The loop is given the relay's messages once, in order and whole, in whatever
pieces they come, up to the largest size; its answers reach the relay whole. The one
exception is a message that stalls for `PD_RELAY_IO_TIMEOUT_MS` in the middle: its
beginning is forgotten. The rest is then refused by the decoder, or, when it looks like a
message, given to the loop; `ReceivePipeline` takes any frame, so a file damaged that
way is still not delivered.

*Window.* It never touches the session of a running worker, no message of a session is
handled in the next one, "ready" means that a worker listens for the code shown, and a
delivered file is followed by a new session.

*Rendezvous.* The receiver comes to listen with exactly the base URLs `docs/deployment.md`
describes, an origin with any slashes after it, plain HTTP only with the opt-in. The four
places that judge a base agree, at every limit; the tightest is the QR code (213 bytes), the
other buffers never decide alone. A base with a path passes every check of the receiver,
but its registration then names a path the relay does not serve, and the receiver fails.
Without the opt-in no request leaves in clear. A phone that scans the code joins the receiver
that shows it, while the relay keeps the session. The session object keeps its whole lifetime
however near the clock is to its limit, and matches nothing once it is over.

*Intake.* Each side reads what the other means, at every length and up to the greatest count;
what either side accepts, from whomever, has one encoding. Whatever bytes a name has, it
becomes that of an ordinary file in the job's directory, and a good name stays as it is. A
page's file is refused for two reasons besides a failing call, both of them limits of the
code: a reserved device name of the greatest length, where the prefix has no room
(`REJECTED`), and a path beyond `MAX_PATH` because of a long jobs directory
(`STORAGE_ERROR`, although the window shows that it is ready).

### Bounds

* `ReceivePipeline`: one job id, so that every later session draws the id again and its
  paths collide with what is on the disk; the names `a` and `a.part`, so that the
  staging path of one file is the final path of the other; sizes 0 to 2, payloads of
  up to two bytes, a right and a wrong digest. `MCSha256` is the identity: two files have
  the same digest only if they are the same. The number of sessions is not bounded.
* `Transfer`: `ChunkSize` 2 and files of 0 and 3 bytes (0, 2 and 3 in `transfer_settles`),
  that is an empty file, exactly a chunk and a short last chunk; two sessions, so that a page
  meets the receiver of a session that is not its own. `disturbed` records that something went
  wrong, for the properties that speak of a calm transfer.
* `RelayServer`: one id, because sessions of different ids share nothing but the map.
  `relay_sessions` has two registrations with two secrets, two receivers and a sender,
  which is what a takeover of an expired id needs; `relay_teardown` has two senders, for the
  window in which a second one slips in is between one sender's detach and its cancel;
  the clock ends after the last expiry that matters. A request or connection
  happens once, hence `CHECK_DEADLOCK FALSE`. Symmetry is used only in runs without
  liveness properties.
* `RelayClient`: messages of up to `MaxMessage` = 4 cells and one that is longer, among
  them one whose payload is itself a message; three messages and any number of pings, two
  frames under way. The client is used once, hence `CHECK_DEADLOCK FALSE`.
* `ReceiverApp`: three sessions, and at most four messages under way before the loop
  reports progress again (`MaxQueue`). The window may be closed or stay failed, hence
  `CHECK_DEADLOCK FALSE`.

* `Rendezvous`: every base made of a scheme or none, 0, 2 or 3 slashes, a host, 0 or 2
  slashes and perhaps a `?`, with hosts at both sides of each limit that a base can meet (the
  QR code, the prefix, the variable) and one whose bytes are not UTF-8; two ids and two
  secrets; a clock of three values and lifetimes of 0 to 2, so that the sum just fits, just
  does not, and the deadline is met exactly. Of 128 random bits the id of the page that is
  open is not drawn again. A failed receiver stays failed, hence `CHECK_DEADLOCK FALSE`.
* `Intake`: a byte has 14 values, which keeps 8 bytes within the integers TLC computes with:
  one or two values for each class of bytes the code tells apart. The devices are `CC` and `C1` for
  `CON`, `COM1` and the like. Digests have 2 bytes, names up to 5, messages up to 30, frames
  may announce up to 20 (more than a message holds, as in the code), paths have room for 15;
  the texts are all of up to two characters, most of three and four, and of five and six those
  with characters that matter at the end. The foreign messages are all that differ in one
  byte, or by one byte more or less, from a good message of each type, raw names of two bytes
  and messages at the greatest length. One message is sent, hence `CHECK_DEADLOCK FALSE`.

### Fairness

* `ReceivePipeline`: the worker thread runs (`WF` of `Worker`). Nothing makes a frame
  arrive.
* `RelayServer`: goroutines that can run do run and timers fire; a read returns once
  its context is done. Nothing makes a connection deliver, fail or accept a message,
  so `CancelledBridgeEnds` rests on contexts alone.
* `Transfer`: the page's promises settle, for each has a timer or a close event
  (`DEFAULT_ACK_TIMEOUT_MS`, `waitForSocketOpen`); the worker runs; messages of an open connection
  arrive; the relay's handlers return. Users and failures are under no fairness.
  `transfer_settles` leaves out a connection that is lost without notice: the
  receiver's timeout is retried for ever (`win32_receiver_runtime.c:26`) and the code
  would wait.
* `RelayClient`: what is on the wire arrives in the end, also after a stall, and the worker
  runs.
* `ReceiverApp`: the window handles its messages and a worker whose loop has returned
  comes to its end. A `PostMessageW` that fails is recorded in `lost`: a session whose `DONE`
  was dropped is never followed by another, and the properties on what the window shows
  leave such a session out.

## 4. What is proved

All theorems hold for every value of the constants that satisfies the `ASSUME`s of the
module, which TLC evaluates for the instances of section 3. Most of the run properties are
not inductive. For each component there is an inductive invariant that contains or implies
them, whose parts are named for what they say, a lemma per action or group of actions,
and a theorem per property. The bounds of section 3 do not appear in the proofs.

**`ReceivePipelineProofs`**, for all job ids, names, payloads, digests and faults, from
`PathAssumption` (a name with `.part` differs from the name; `None` is not a path) and
`DataAssumption` (types of the parameters). `Sha256` is an arbitrary operator.

* `PipelineInvariant`: `Spec => []PipelineInv`.
* `TypeCorrect`: `Spec => []TypeOK`.
* `DeliveredFilesIntact`: `Spec => []DeliveredIntact`.
* `PipelineImplementsFileDrop`: `Spec => ImplementsFileDrop`, the refinement: the
  abstract `box` is read from the disk at the paths that were renamed to; only `SinkMove`
  changes it, by adding one matching file at a new path.

`DeliveredIntact` is not inductive: to know that the file renamed is whole one needs to
know what the staging file holds when the rename is tried, which is decided several steps
earlier. `StagingOwned` says that a started sink has its staging file on the disk and that it is
no delivered file (this is where `CREATE_NEW` counts: `a.part` may be somebody's
delivered file), and which frame and receiver state belong to each step. `StagedBytes`
says that the staging file holds what was hashed and counted, what was announced once it is
verified, and that it is out of the cache once it is flushed. The proof has a lemma per
group of actions (`LoopSteps`, `RefusalSteps`, `BeginSteps`, `ChunkSteps`,
`FinishSteps`, `RestartStep`) over lemmas on the record types and on releasing a file.

**`ReceiveLoopProofs`**, from the same assumptions: what the loop tells and what it leaves.

* `LoopInvariant`: `Spec => [](PipelineInv /\ LoopInv)`.
* `AcknowledgedBytesStaged`, `CompleteIsDelivered`, `NothingHeldAtEnd`: the invariants
  `AcknowledgedIsStaged`, `CompleteMeansDelivered`, `ReleasedAtEnd`.
* `EventsAreInOrder`: `Spec => EventsInOrder`, an action property.

`LoopInv` has five parts. `AnswersMatch` relates protocol, file receiver and last
acknowledgement when the loop waits, and says that a file is delivered before `SendAck`
speaks of it. `ResourcesKnown` says that what is open the file receiver knows of, in each
step; `FilesKnown` that the files of this session are delivered or are its staging file.
Together they are what makes cleanup complete although four levels decide on their own
whether they have something to release. `AbortReaches` says that
protocol and handler are active as long as a file is being received, so that an abort, which
either of them may skip, reaches it, and that a file receiver is left receiving only by an `EarlyEnd`.
`EventsMatch` ties the last event to the step.

**`RelayServerProofs`**, for any number of ids, requests and connections, any lifetime and
clock, from `RelayAssumption`.

* `RelayInvariant`: `Spec => []RelayInv`.
* `BridgesReachable`, `OneSender`, `SecondSender`: the invariants `LiveBridgeIsReachable`,
  `OneSenderAtATime`, `SecondSenderIsDoomed`.
* `SessionsKeptUntilExpiry`: `Spec => KeptUntilExpiry`, an action property.

`RecordsTimed` (a timer never fires before the deadline of its record, and a request that
still waits for the lock has no record) is why the expiry of an old record cannot take a
younger one away. `SpeakersKnown` (whoever was forwarded to a receiver is attached to it, or
is about to cancel the bridge, or has) is what `SecondSenderIsDoomed` needs: it speaks of
messages that were forwarded steps ago.

**`RelayClientProofs`**, for any messages, answers and sizes, from `ClientAssumption`.

* `ClientInvariant`: `Spec => []ClientInv`.
* `MessagesInOrder`, `AnswersAreWhole`, `GoodMessagesTaken`: the invariants
  `ReceivedInOrder`, `AnswersWhole`, `GoodMessagesAccepted`.

`WireNumbered` says that the frames on the wire are the last the relay wrote, with control
frames between them; `BufferHolds` that the buffer has what was read of the first, or, of one
that stalled, the end of it.

**`ReceiverAppProofs`**, for any number of sessions and any faults, from `AppAssumption`.

* `AppInvariant`: `Spec => []AppInv`; `SessionIsNotShared`, `NoMessageIsStale`: the
  invariants `SessionNotShared`, `NoStaleMessage`.
* `WindowInvariant`: `Spec => [](AppInv /\ WindowInv)`; `CredentialsAreWiped`,
  `ReadyIsListening`, `OutcomeIsShown`: the invariants `CredentialsWiped`,
  `ReadyMeansListening`, `OutcomeShown`.

That no worker is alive when the window gives up its handle follows from `DONE` being the
worker's last message, and that the queue is empty when a session is prepared from `DONE`
being the last in the queue: `DoneIsLast` in `AppInv`. `WindowInv` adds what the window
will show once the queue is handled (`WindowFollows`, `OutcomeKnown`), and who still has
the session open (`SessionOpen`). The history field `registered` of the worker tells its
returns apart: `CredentialsWiped` holds of every worker that has registered its session, also
of one whose relay client, handler or loop fails; a bad URL, a failing `curl_global_init` and
a failed registration return without closing the session.

**`RendezvousProofs`**, for every base URL, host, id, secret, lifetime and clock width, from
`RendezvousAssumption` and `AddressAssumption`: a token has one length, also where a host has
the name of a scheme or of a word of a path; ids, hosts, slashes and marks are different
tokens; words and the default host are UTF-8; the default host has its 18 characters.

* `SessionInvariant`: `Spec => []SessionInv`; `OverIsUnmatched`: the invariant
  `OverMatchesNothing`; `TransfersAreInTime`: `Spec => NoLateTransfer`, an action property.
* `WayInvariant`: `Spec => [](SessionInv /\ ReceiverInv /\ PageInv)`; `NothingLeavesInClear`,
  `CodeLeadsToReceiver`: the invariants `NothingInClear`, `LinkLeadsHere`.

The work is in the operators of `Addresses`: what trimming leaves, and that link,
endpoint and WebSocket URL of one base have the same scheme and host, however many slashes
follow it. `ReceiverInv` says which base, link and URL belong to each step of the worker.

* `ReceiverTakesUsable`: `Spec => []UsableInv`; `UsableIsListening`: the invariant
  `ListensWhenUsable`.

Here the lengths count. `strlen` is a recursive function on texts, and a definition by
recursion says nothing until a function is shown to satisfy it: `LengthsExist` gives one for
the texts of up to `n` tokens, from the least `n` without one, `LengthsAgree` makes all of
them one, and `StrlenUnfolds` is the equation. `TextInduction` (a set of texts that has the
empty one, and each whose tail it has, has all) then yields the length of a concatenation.
`UsableMeans` says that a configuration is usable exactly if the base that is loaded of it is an
origin whose link fits the QR code, `ShownIff` that the window shows a link of just these,
and `EndpointLeads` and `ReceiverUrlLeads` that endpoint and WebSocket URL then fit their
buffers and lead to the relay. `UsableInv` adds what failing needs: the relay has the
receiver's secret for its id from the registration to the connection, and no other receiver,
so that it cannot refuse. That a receiver listens only with a usable base is the other
direction: it has passed the opt-in of the registration, the QR code and the relay's paths.

**`IntakeProofs`**, for every width of a byte, every limit, name and message, from
`LimitAssumption` (the limits fit their fields and each other), `IntakeAssumption`,
`NameAssumption` (which bytes the name rules speak of, and that they do not overlap) and
`PathAssumption` (what Windows makes of a name is not empty and has no backslash of its own).

* `IntakeInvariant`: `Spec => []IntakeInv`.
* `PageUnderstood`, `AckUnderstood`, `EncodingIsUnique`, `NamesAreSafe`,
  `SinkAgreesAlways`, `PageFilesAreTaken`: the six invariants of the run.

A buffer is shown to be what an encoder writes exactly if the decoder reads these fields in
it, for numbers, headers, messages, acknowledgements and metadata in turn; both directions
of a transfer and the uniqueness of encodings follow. For names, each pass of
`pd_filename_sanitize` is shown to establish its part and to keep that of the passes before
it. Facts about sequences of any length are proved from their least counterexample, since
the induction theorems of the library cannot be instantiated.

**`TransferProofs`**, for any files, chunk sizes, faults, disturbances and number of sessions,
from `ReceiverAssumption` (what `ReceivePipeline` assumes) and `FileAssumption`: the chunk
size is a number, a file is a sequence of bytes, and no other bytes of its length have the
digest of a file the user picks. The last is an idealisation of SHA-256. Only the step from
"the file on the disk has this length and digest" to "it has these bytes", in
`SentIsDelivered`, uses it.

* `TransferInvariant`: `Spec => []TransferInv`.
* `SenderAndReceiverInStep`: the invariant `LockStep`.
* `SentIsDelivered`: the invariant `SentMeansDelivered`.
* `ReceiverIsPipeline`: `Spec => P!Spec`, where `P!Spec` is the specification of
  `ReceivePipeline`: frames that come from a page through the relay are among the frames in
  any order that module allows.

Because of the last, `PipelineInv` and `LoopInv` hold of the receiver here (`Receiver`), and its
steps are known by what a sender sees of them (`WorkerSteps` of `ReceiveLoopProofs`).
`TransferInv` adds what the ends know of each other. `InStep` says what a sender nobody comes
before has under way (`OneUnderWay`: its frame, or the frame being handled, or the
answer) and that the file the receiver is at is the page's (`Announced`). `SecondSender` is
about the window between a sender's leaving and the relay's cancelling its bridge. A second
sender that joins then finds the receiver as it was (`Untouched`) if the first has sent nothing,
because `encodeFileBegin` refused its name: it is `InStep`, and may deliver its file before the bridge
is cancelled. Otherwise it is `Behind`: it may take the answer to the first one's `FILE_BEGIN` for its own, but
its own `FILE_BEGIN` meets a receiver that is at a file and ends the loop (`Barred`), so it never sees
`FILE_END` confirmed. `Truthful` says that an OK for `FILE_END` on its way to a waiting page
is about the page's file, `Counted` that the deliveries a page has heard of and those it may
still hear of are no more than there are.

Only model-checked: liveness (`FrameIsAnswered`, `ExpiredSessionEnds`, `CancelledBridgeEnds`,
`SenderSettles`, `ReceiverSettles`, `CalmDelivers`, `MessageArrives`, `Rotates`), which, like
`ENABLED`, is beyond this prover. Every invariant and every action property of the passing
runs is a theorem.

## 5. What is not modelled

* HTTP handling of the relay that refuses a request before it reaches the state, except for
  the paths (`Addresses`) and the limit of message size (`Intake`); the relay's assets; the start
  of its process.
* The text of the registration's JSON document: two credentials of fixed length in fixed text.
* Painting, texts, the drawing of the QR code (its capacity is `QrCapacity`), random numbers
  (missing entropy is a failing step), SHA-256 itself in either language: the digest is a
  parameter.
* `session.c` and `transport.c`: only tests call them, and each call is one guard and one
  assignment. `file_receive.c` and `win32_relay_client.c` do their work in the program.
* The models of threads and failures use decoded messages, with `check` for those a
  decoder refuses; what is refused is the business of `Intake`.
* Reserved names beyond those `filename.c` lists: `Ordinary` takes the code's own list, while
  Windows also reserves `COM` with a superscript digit and ignores spaces between a reserved
  name and its first dot. `NameIsSafe` cannot tell whether the list is complete.
* URLs with three slashes after the scheme, which curl and browsers forgive: `IsUrl` refuses
  them, so `ListensWhenUsable` calls such a base unusable.
* The worker's use of `pd_app` after `wWinMain` has returned (undefined). What the kill
  does to the disk is `ProcessExit`.

## 6. Findings

* `receive_early_end`: a `FILE_END` that comes before the last byte. `pd_win32_receive_finish`
  marks the handler inactive although `pd_file_receiver_finish` has only returned
  `INCOMPLETE`, and the abort that follows finds nothing to do: the staging file, its
  handle and the hash context stay. `docs/architecture.md:119` requires "deterministic
  cleanup for incomplete transfers." The page never sends such a frame.
  `ReleasedAtEnd` shows that this is the only way to leave something behind as long as
  deletions work: it holds of every other end of the loop (a lost connection, an
  acknowledgement that cannot be sent, an unexpected, malformed or oversized frame, a failing
  call) and is proved for all frames and faults.
* `relay_two_senders`: between `detachSender` and `cancel` in `handleSender` another
  sender can join the bridge, and its first messages reach a receiver that has heard the
  first sender, where `docs/deployment.md:17` speaks of "one sender and one receiver".
  `SecondSenderIsDoomed` shows that such a bridge is always about to be cancelled, and
  `SentMeansDelivered` that no page is misled.

## 7. Plan

Done, in this order: `ReceivePipeline` with `FileDrop` and their proofs, `RelayServer`,
`Sender` and `Transfer`, `ReceiverApp` and its proofs, `RelayClient`, `ReceiverSession` with
`Addresses` and `Rendezvous`, `WireFormats` with `FileNames` and `Intake`; then the proofs
of the invariants and action properties of all components, the one about the limits of the
addresses last. No invariant is left without a proof; the liveness properties stay with TLC.
