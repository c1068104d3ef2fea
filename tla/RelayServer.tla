---------------------------- MODULE RelayServer ----------------------------
(***************************************************************************)
(* relay/server.go: the sessions of the relay, the bridges between a       *)
(* receiver and a sender, and the goroutines that serve them.              *)
(*                                                                         *)
(* Every function that holds the server's mutex is one step; between two   *)
(* of them any other goroutine may run.  A session record is named by the  *)
(* registration request that created it and a bridge by the receiver       *)
(* connection that created it: each request or connection happens once, so *)
(* a name stands for the identity (the pointer) the code compares.         *)
(*                                                                         *)
(* Requests refused before they reach the server's state (method, path,    *)
(* body or authorization header malformed) are left out.  A message is the *)
(* name of the peer it came from.                                          *)
(***************************************************************************)
EXTENDS Naturals, Sequences

CONSTANTS
    Id,             \* public session identifiers
    Secret,         \* receiver secrets
    Registration,   \* POST /v1/sessions requests
    Receiver,       \* GET /v1/receiver/ connections
    Sender,         \* GET /v1/sender/ connections
    TTL,            \* the server's session lifetime
    MaxTime,        \* bound on the clock
    None

ASSUME RelayAssumption ==
    /\ TTL \in Nat \ {0}
    /\ MaxTime \in Nat
    /\ None \notin Registration \cup Receiver \cup Id \cup Secret
    /\ Receiver \cap Sender = {}

Peer == Receiver \cup Sender

VARIABLES
    now,        \* the clock
    sessions,   \* relayServer.sessions: id -> record or None
    record,     \* sessionRecord of each registration request that created one
    request,    \* registration requests: pc, id, secret and the time they read
    bridge,     \* relayBridge of each receiver connection that created one
    peer,       \* handleReceiver and handleSender goroutines
    writer,     \* the writer goroutine of servePeer: "off", "run" or "done"
    heard       \* history: whose messages were written to each receiver

vars == <<now, sessions, record, request, bridge, peer, writer, heard>>

NoRecord == [id |-> None, secret |-> None, expiresAt |-> 0, fireAt |-> 0,
             timer |-> "off", active |-> None]
NoBridge == [made |-> FALSE, cancelled |-> FALSE, sender |-> FALSE,
             toReceiver |-> <<>>, toSender |-> <<>>]

\* cancelled: the connection has cancelled its own servePeer context.
NoPeer == [pc |-> "idle", id |-> None, bridge |-> None, cancelled |-> FALSE]

\* A request that is not running, with the status it was answered with.
Reply(status) == [pc |-> status, id |-> None, secret |-> None, now |-> 0]

Init ==
    /\ now = 0
    /\ sessions = [i \in Id |-> None]
    /\ record = [g \in Registration |-> NoRecord]
    /\ request = [g \in Registration |-> Reply("idle")]
    /\ bridge = [b \in Receiver |-> NoBridge]
    /\ peer = [p \in Peer |-> NoPeer]
    /\ writer = [p \in Peer |-> "off"]
    /\ heard = [b \in Receiver |-> {}]

-----------------------------------------------------------------------------
\* Session records.

Tick == now < MaxTime /\ now' = now + 1
        /\ UNCHANGED <<sessions, record, request, bridge, peer, writer, heard>>

Expired(g) == now >= record[g].expiresAt

\* bridge.cancel() for the bridges in B.
Cancelled(B) == [b \in Receiver |-> IF b \in B
                                    THEN [bridge[b] EXCEPT !.cancelled = TRUE]
                                    ELSE bridge[b]]

\* What expireLocked makes of the record: its timer is stopped, unless it has
\* already fired, and its bridge is cancelled and forgotten.
Retired(r) == [r EXCEPT !.timer = IF @ = "armed" THEN "stopped" ELSE @,
                        !.active = None]

\* expireLocked(id, g), for a caller that changes nothing else of the server.
ExpireLocked(id, g) ==
    /\ sessions' = [sessions EXCEPT ![id] = None]
    /\ record' = [record EXCEPT ![g] = Retired(@)]
    /\ bridge' = Cancelled({record[g].active})

\* register reads the clock before it waits for the mutex.
RegisterStart(g) ==
    /\ request[g].pc = "idle"
    /\ \E i \in Id, k \in Secret :
          request' = [request EXCEPT ![g] = [pc |-> "lock", id |-> i, secret |-> k,
                                             now |-> now]]
    /\ UNCHANGED <<now, sessions, record, bridge, peer, writer, heard>>

NewRecord(q) == [id |-> q.id, secret |-> q.secret, expiresAt |-> q.now + TTL,
                 fireAt |-> now + TTL, timer |-> "armed", active |-> None]

\* A record that is still valid at the time the request read is kept as it is:
\* 200 for its owner, 409 for anyone else.
RegisterExisting(g) ==
    LET q == request[g]
        old == sessions[q.id]
    IN  /\ q.pc = "lock"
        /\ old # None /\ q.now < record[old].expiresAt
        /\ request' = [request EXCEPT ![g] =
                          Reply(IF record[old].secret = q.secret THEN "ok" ELSE "conflict")]
        /\ UNCHANGED <<now, sessions, record, bridge, peer, writer, heard>>

\* 201: a new record, after the expired one of the same id has been removed.
RegisterNew(g) ==
    LET q == request[g]
        old == sessions[q.id]
    IN  /\ q.pc = "lock"
        /\ old # None => q.now >= record[old].expiresAt
        /\ now + TTL <= MaxTime        \* bound: the clock can reach the expiry
        /\ sessions' = [sessions EXCEPT ![q.id] = g]
        /\ record' = [h \in Registration |->
                         CASE h = g   -> NewRecord(q)
                           [] h = old -> Retired(record[h])
                           [] OTHER   -> record[h]]
        /\ bridge' = IF old = None THEN bridge ELSE Cancelled({record[old].active})
        /\ request' = [request EXCEPT ![g] = Reply("created")]
        /\ UNCHANGED <<now, peer, writer, heard>>

\* time.AfterFunc starts a goroutine when the time has come ...
TimerFires(g) ==
    /\ record[g].timer = "armed" /\ now >= record[g].fireAt
    /\ record' = [record EXCEPT ![g].timer = "fired"]
    /\ UNCHANGED <<now, sessions, request, bridge, peer, writer, heard>>

\* Mutated form: whatever record the id has now is expired.
ExpireAny(g) ==
    /\ record[g].timer = "fired"
    /\ LET h == sessions[record[g].id]
       IN  /\ sessions' = [sessions EXCEPT ![record[g].id] = None]
           /\ record' = [k \in Registration |->
                            LET r == IF k = h THEN Retired(record[k]) ELSE record[k]
                            IN  IF k = g THEN [r EXCEPT !.timer = "done"] ELSE r]
           /\ bridge' = IF h = None THEN bridge ELSE Cancelled({record[h].active})
    /\ UNCHANGED <<now, request, peer, writer, heard>>

\* Mutated form: expireLocked forgets the bridge without cancelling it.
ExpireUncancelled(g) ==
    /\ record[g].timer = "fired"
    /\ IF sessions[record[g].id] = g
       THEN /\ sessions' = [sessions EXCEPT ![record[g].id] = None]
            /\ record' = [record EXCEPT ![g] = [Retired(@) EXCEPT !.timer = "done"]]
       ELSE /\ record' = [record EXCEPT ![g].timer = "done"]
            /\ UNCHANGED sessions
    /\ UNCHANGED <<now, request, bridge, peer, writer, heard>>

\* ... which expires the record if it is still the one registered.
Expire(g) ==
    /\ record[g].timer = "fired"
    /\ IF sessions[record[g].id] = g
       THEN /\ sessions' = [sessions EXCEPT ![record[g].id] = None]
            /\ record' = [record EXCEPT ![g] = [Retired(@) EXCEPT !.timer = "done"]]
            /\ bridge' = Cancelled({record[g].active})
       ELSE /\ record' = [record EXCEPT ![g].timer = "done"]
            /\ UNCHANGED <<sessions, bridge>>
    /\ UNCHANGED <<now, request, peer, writer, heard>>

-----------------------------------------------------------------------------
\* Attaching a connection to the session it names.

\* The session is unknown, or expired and removed on the way: 404.
AttachExpired(p) ==
    /\ peer[p].pc = "idle"
    /\ \E i \in Id :
          LET g == sessions[i]
          IN  /\ g # None => Expired(g)
              /\ IF g = None THEN UNCHANGED <<sessions, record, bridge>>
                             ELSE ExpireLocked(i, g)
    /\ peer' = [peer EXCEPT ![p].pc = "refused"]
    /\ UNCHANGED <<now, request, writer, heard>>

Live(i) == sessions[i] # None /\ ~Expired(sessions[i])

\* attachReceiver: 401 for the wrong secret, 409 when a receiver is attached.
AttachReceiverRefused(r) ==
    /\ peer[r].pc = "idle"
    /\ \E i \in Id, k \in Secret :
          /\ Live(i)
          /\ record[sessions[i]].secret # k \/ record[sessions[i]].active # None
    /\ peer' = [peer EXCEPT ![r].pc = "refused"]
    /\ UNCHANGED <<now, sessions, record, request, bridge, writer, heard>>

AttachReceiver(r) ==
    /\ peer[r].pc = "idle"
    /\ \E i \in Id, k \in Secret :
          /\ Live(i)
          /\ record[sessions[i]].secret = k
          /\ record[sessions[i]].active = None
          /\ record' = [record EXCEPT ![sessions[i]].active = r]
          /\ peer' = [peer EXCEPT ![r] = [@ EXCEPT !.pc = "accept", !.id = i,
                                                   !.bridge = r]]
    /\ bridge' = [bridge EXCEPT ![r].made = TRUE]
    /\ UNCHANGED <<now, sessions, request, writer, heard>>

\* attachSender: 404 without a receiver, 409 when a sender is attached.
AttachSenderRefused(s) ==
    /\ peer[s].pc = "idle"
    /\ \E i \in Id : /\ Live(i)
                     /\ LET b == record[sessions[i]].active
                        IN  b # None => bridge[b].sender
    /\ peer' = [peer EXCEPT ![s].pc = "refused"]
    /\ UNCHANGED <<now, sessions, record, request, bridge, writer, heard>>

\* Mutated form: the sender flag is not tested.
AttachSenderAlways(s) ==
    /\ peer[s].pc = "idle"
    /\ \E i \in Id :
          /\ Live(i)
          /\ LET b == record[sessions[i]].active
             IN  /\ b # None
                 /\ bridge' = [bridge EXCEPT ![b].sender = TRUE]
                 /\ peer' = [peer EXCEPT ![s] = [@ EXCEPT !.pc = "accept", !.id = i,
                                                          !.bridge = b]]
    /\ UNCHANGED <<now, sessions, record, request, writer, heard>>

AttachSender(s) ==
    /\ peer[s].pc = "idle"
    /\ \E i \in Id :
          /\ Live(i)
          /\ LET b == record[sessions[i]].active
             IN  /\ b # None
                 /\ ~bridge[b].sender
                 /\ bridge' = [bridge EXCEPT ![b].sender = TRUE]
                 /\ peer' = [peer EXCEPT ![s] = [@ EXCEPT !.pc = "accept", !.id = i,
                                                          !.bridge = b]]
    /\ UNCHANGED <<now, sessions, record, request, writer, heard>>

-----------------------------------------------------------------------------
\* servePeer: the goroutines of an accepted connection.

\* websocket.Accept.  Where it fails the handler detaches and no more.
Accept(p) ==
    /\ peer[p].pc = "accept"
    /\ \/ /\ peer' = [peer EXCEPT ![p].pc = "read"]
          /\ writer' = [writer EXCEPT ![p] = "run"]
       \/ /\ peer' = [peer EXCEPT ![p].pc = IF p \in Receiver THEN "detach"
                                                              ELSE "unattach"]
          /\ UNCHANGED writer
    /\ UNCHANGED <<now, sessions, record, request, bridge, heard>>

\* The context of servePeer is done.
Done(p) == peer[p].cancelled \/ bridge[peer[p].bridge].cancelled

\* The connection delivers a message, as long as its context is not done.
Read(p) ==
    /\ peer[p].pc = "read" /\ ~Done(p)
    /\ peer' = [peer EXCEPT ![p].pc = "push"]
    /\ UNCHANGED <<now, sessions, record, request, bridge, writer, heard>>

\* The connection is lost, stays idle for too long, sends something that is not a
\* relay message, or the context is done.
ReadFails(p) ==
    /\ peer[p].pc = "read"
    /\ peer' = [peer EXCEPT ![p].pc = "detach", ![p].cancelled = TRUE]
    /\ UNCHANGED <<now, sessions, record, request, bridge, writer, heard>>

\* The select of the reader: both branches may be open at once.
Push(p) ==
    /\ peer[p].pc = "push"
    /\ \/ /\ p \in Sender /\ bridge[peer[p].bridge].toReceiver = <<>>
          /\ bridge' = [bridge EXCEPT ![peer[p].bridge].toReceiver = <<p>>]
       \/ /\ p \in Receiver /\ bridge[peer[p].bridge].toSender = <<>>
          /\ bridge' = [bridge EXCEPT ![peer[p].bridge].toSender = <<p>>]
    /\ peer' = [peer EXCEPT ![p].pc = "read"]
    /\ UNCHANGED <<now, sessions, record, request, writer, heard>>

\* Mutated form: a plain send, without the select.
PushBlocks(p) == peer[p].pc = "push" /\ Done(p) /\ UNCHANGED vars

PushCancelled(p) ==
    /\ peer[p].pc = "push" /\ Done(p)
    /\ peer' = [peer EXCEPT ![p].pc = "detach", ![p].cancelled = TRUE]
    /\ UNCHANGED <<now, sessions, record, request, bridge, writer, heard>>

\* The writer takes a message off its channel ...
Take(p) ==
    LET b == peer[p].bridge
    IN  /\ writer[p] = "run"
        /\ \/ /\ p \in Receiver /\ bridge[b].toReceiver # <<>>
              /\ bridge' = [bridge EXCEPT ![b].toReceiver = <<>>]
           \/ /\ p \in Sender /\ bridge[b].toSender # <<>>
              /\ bridge' = [bridge EXCEPT ![b].toSender = <<>>]
        /\ UNCHANGED <<now, sessions, record, request>>

\* ... and writes it to the connection.
Write(p) ==
    /\ Take(p) /\ ~Done(p)
    /\ heard' = IF p \in Receiver
                THEN [heard EXCEPT ![p] = @ \cup {Head(bridge[p].toReceiver)}]
                ELSE heard
    /\ UNCHANGED <<peer, writer>>

\* The write fails, as it does when the context is done: the message is lost.
WriteFails(p) ==
    /\ Take(p)
    /\ peer' = [peer EXCEPT ![p].cancelled = TRUE]
    /\ writer' = [writer EXCEPT ![p] = "done"]
    /\ UNCHANGED heard

WriterStops(p) ==
    /\ writer[p] = "run" /\ Done(p)
    /\ writer' = [writer EXCEPT ![p] = "done"]
    /\ UNCHANGED <<now, sessions, record, request, bridge, peer, heard>>

-----------------------------------------------------------------------------
\* Detaching.

\* Mutated form: the record forgets whatever bridge it has.
DetachReceiverAny(r) ==
    /\ peer[r].pc = "detach"
    /\ LET g == sessions[peer[r].id]
       IN  IF g # None THEN record' = [record EXCEPT ![g].active = None]
                       ELSE UNCHANGED record
    /\ bridge' = Cancelled({peer[r].bridge})
    /\ peer' = [peer EXCEPT ![r].pc = "done"]
    /\ UNCHANGED <<now, sessions, request, writer, heard>>

\* detachReceiver: forget the bridge if the record still has it, and cancel it.
DetachReceiver(r) ==
    /\ peer[r].pc = "detach"
    /\ LET g == sessions[peer[r].id]
       IN  IF g # None /\ record[g].active = peer[r].bridge
           THEN record' = [record EXCEPT ![g].active = None]
           ELSE UNCHANGED record
    /\ bridge' = Cancelled({peer[r].bridge})
    /\ peer' = [peer EXCEPT ![r].pc = "done"]
    /\ UNCHANGED <<now, sessions, request, writer, heard>>

\* Mutated form: the bridge is not cancelled afterwards.
DetachSenderOnly(s) ==
    /\ peer[s].pc \in {"detach", "unattach"}
    /\ bridge' = [bridge EXCEPT ![peer[s].bridge].sender = FALSE]
    /\ peer' = [peer EXCEPT ![s].pc = "done"]
    /\ UNCHANGED <<now, sessions, record, request, writer, heard>>

\* handleSender's deferred function: bridge.detachSender(), then bridge.cancel().
DetachSender(s) ==
    /\ peer[s].pc \in {"detach", "unattach"}
    /\ bridge' = [bridge EXCEPT ![peer[s].bridge].sender = FALSE]
    /\ peer' = [peer EXCEPT ![s].pc = IF @ = "detach" THEN "cancel" ELSE "done"]
    /\ UNCHANGED <<now, sessions, record, request, writer, heard>>

CancelBridge(s) ==
    /\ peer[s].pc = "cancel"
    /\ bridge' = Cancelled({peer[s].bridge})
    /\ peer' = [peer EXCEPT ![s].pc = "done"]
    /\ UNCHANGED <<now, sessions, record, request, writer, heard>>

-----------------------------------------------------------------------------
Next ==
    \/ Tick
    \/ \E g \in Registration : \/ RegisterStart(g) \/ RegisterExisting(g)
                               \/ RegisterNew(g) \/ TimerFires(g) \/ Expire(g)
    \/ \E r \in Receiver : \/ AttachReceiver(r) \/ AttachReceiverRefused(r)
                           \/ DetachReceiver(r)
    \/ \E s \in Sender : \/ AttachSender(s) \/ AttachSenderRefused(s)
                         \/ DetachSender(s) \/ CancelBridge(s)
    \/ \E p \in Peer : \/ AttachExpired(p) \/ Accept(p) \/ Read(p) \/ ReadFails(p)
                       \/ Push(p) \/ PushCancelled(p) \/ Write(p) \/ WriteFails(p)
                       \/ WriterStops(p)

Spec == Init /\ [][Next]_vars

\* Goroutines that can run do run, and the clock goes on.  A read ends when its
\* context is done; nothing makes a connection deliver, fail or accept a message.
Fairness ==
    /\ WF_vars(Tick)
    /\ \A g \in Registration : WF_vars(TimerFires(g)) /\ WF_vars(Expire(g))
    /\ \A r \in Receiver : WF_vars(DetachReceiver(r))
    /\ \A s \in Sender : WF_vars(DetachSender(s)) /\ WF_vars(CancelBridge(s))
    /\ \A p \in Peer : /\ WF_vars(Accept(p)) /\ WF_vars(PushCancelled(p))
                       /\ WF_vars(ReadFails(p) /\ Done(p))
                       /\ WF_vars(WriterStops(p))

FairSpec == Spec /\ Fairness

-----------------------------------------------------------------------------
\* Properties.

PeerPC == {"idle", "refused", "accept", "read", "push", "detach", "unattach", "cancel",
           "done"}

RecordType == [id : Id \cup {None}, secret : Secret \cup {None}, expiresAt : Nat, fireAt : Nat,
               timer : {"off", "armed", "stopped", "fired", "done"},
               active : Receiver \cup {None}]
RequestType == [pc : {"idle", "lock", "ok", "conflict", "created"},
                id : Id \cup {None}, secret : Secret \cup {None}, now : Nat]
BridgeType == [made : BOOLEAN, cancelled : BOOLEAN, sender : BOOLEAN,
               toReceiver : {<<>>} \cup {<<s>> : s \in Sender},
               toSender : {<<>>} \cup {<<r>> : r \in Receiver}]
PeerType == [pc : PeerPC, id : Id \cup {None}, bridge : Receiver \cup {None},
             cancelled : BOOLEAN]

\* Every variable has the values the code's types allow it.
TypeOK ==
    /\ now \in 0 .. MaxTime
    /\ sessions \in [Id -> Registration \cup {None}]
    /\ record \in [Registration -> RecordType]
    /\ request \in [Registration -> RequestType]
    /\ bridge \in [Receiver -> BridgeType]
    /\ peer \in [Peer -> PeerType]
    /\ writer \in [Peer -> {"off", "run", "done"}]
    /\ heard \in [Receiver -> SUBSET Sender]

\* A bridge that still forwards messages belongs to a session in the map, so the
\* expiry of that session reaches it: neither the detaching of an older receiver
\* nor an older record of the same id can make the server lose sight of it
\* (the comparisons in detachReceiver and expire).
LiveBridgeIsReachable ==
    \A b \in Receiver : bridge[b].made /\ ~bridge[b].cancelled =>
        \E i \in Id : sessions[i] # None /\ record[sessions[i]].active = b

Attached(s, b) == peer[s].bridge = b /\ peer[s].pc \in {"accept", "read", "push", "detach",
                                                        "unattach"}

\* A bridge has at most one sender at a time, and its sender flag says whether it
\* has one (attachSender and detachSender of relayBridge).
OneSenderAtATime ==
    \A b \in Receiver :
        /\ \A s, t \in Sender : Attached(s, b) /\ Attached(t, b) => s = t
        /\ bridge[b].sender <=> \E s \in Sender : Attached(s, b)

\* Messages of a second sender reach a receiver only on a bridge that is cancelled
\* or about to be: the first sender's handler has detached and its next step is
\* bridge.cancel().
SecondSenderIsDoomed ==
    \A b \in Receiver : \A s, t \in heard[b] : s # t =>
        \/ bridge[b].cancelled
        \/ \E u \in Sender : peer[u].bridge = b /\ peer[u].pc = "cancel"

\* docs/deployment.md:17: the relay "forwards bounded binary WebSocket messages
\* between one sender and one receiver".
OneSenderPerReceiver == \A b \in Receiver : \A s, t \in heard[b] : s = t

\* A registered session leaves the map only after its lifetime, whoever removes
\* it: not by the timer of an older record of the same id, and not by someone
\* else's registration.
KeptUntilExpiry ==
    [][\A i \in Id : sessions[i] # None /\ sessions'[i] # sessions[i]
                     => Expired(sessions[i])]_vars

\* A session past its lifetime is removed, and the bridge it has by then is
\* cancelled, so that a transfer under way ends (CancelledBridgeEnds), even if no
\* request ever names the session again (the timer of register, expireLocked).
ExpiredSessionEnds ==
    \A g \in Registration :
        /\ (record[g].timer # "off" /\ Expired(g)) ~> \A i \in Id : sessions[i] # g
        /\ \A b \in Receiver :
              (record[g].active = b /\ Expired(g)) ~> bridge[b].cancelled

\* Nothing of a bridge is left: its goroutines have returned, and the session it
\* belonged to can take a new receiver.
Gone(b) ==
    /\ \A p \in Peer : peer[p].bridge = b => peer[p].pc = "done" /\ writer[p] # "run"
    /\ \A g \in Registration : record[g].active # b

\* A cancelled bridge is torn down on both sides, also when one of the readers is
\* blocked on a full channel (the select in servePeer).
CancelledBridgeEnds == \A b \in Receiver : bridge[b].cancelled ~> Gone(b)
=============================================================================
