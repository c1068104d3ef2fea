------------------------- MODULE RelayServerProofs -------------------------
(***************************************************************************)
(* RelayServer for any number of ids, requests and connections, any        *)
(* lifetime and any clock: a session is kept for its lifetime, a bridge    *)
(* that forwards can be reached by the expiry of its session, and a bridge *)
(* has one sender, or two when it is about to be cancelled.                *)
(*                                                                         *)
(* The inductive invariant is RelayInv.  Most steps change only the state  *)
(* of one connection; what they all keep is shown once for each part of    *)
(* the invariant, in terms of the little a step may do to that part.       *)
(***************************************************************************)
EXTENDS RelayServer, TLAPS

-----------------------------------------------------------------------------
\* The inductive invariant.

\* A request that has not been answered has no record, and what it read of the clock
\* is past.  A record's timer is set after the deadline was computed, so it fires when
\* the deadline is past.
RecordsTimed ==
    \A g \in Registration :
        /\ request[g].pc \in {"idle", "lock"} => \A i \in Id : sessions[i] # g
        /\ request[g].pc = "lock" => /\ request[g].id \in Id /\ request[g].now <= now
        /\ record[g].expiresAt <= record[g].fireAt
        /\ record[g].timer # "off" => record[g].id \in Id
        /\ record[g].timer = "fired" => now >= record[g].fireAt

Serving == {"accept", "read", "push", "detach"}

\* A connection that is served has a bridge, a receiver its own.
PeersBridged ==
    /\ \A r \in Receiver : peer[r].bridge \in {None, r} /\ peer[r].pc # "unattach"
    /\ \A p \in Peer : peer[p].pc \in Serving \cup {"unattach", "cancel"} =>
                          peer[p].bridge \in Receiver
    /\ \A p \in Peer : writer[p] = "run" => peer[p].bridge \in Receiver

\* Those whose messages were forwarded, or wait to be.
Speakers(b) == heard[b] \cup {bridge[b].toReceiver[i] : i \in DOMAIN bridge[b].toReceiver}

\* A sender that has been heard is still attached, or is about to cancel its bridge,
\* or has done so.
SpeakersKnown ==
    \A b \in Receiver : \A s \in Speakers(b) :
        /\ s \in Sender /\ peer[s].bridge = b
        /\ peer[s].pc \in {"read", "push", "detach", "cancel", "done"}
        /\ peer[s].pc = "done" => bridge[b].cancelled

RelayInv == /\ TypeOK /\ RecordsTimed /\ PeersBridged
            /\ LiveBridgeIsReachable /\ OneSenderAtATime /\ SpeakersKnown

-----------------------------------------------------------------------------
\* The kinds of steps.

RequestStep ==
    \/ Tick
    \/ \E g \in Registration : \/ RegisterStart(g) \/ RegisterExisting(g)
                               \/ RegisterNew(g) \/ TimerFires(g) \/ Expire(g)

RefuseStep(p) == \/ AttachExpired(p)
                 \/ p \in Receiver /\ AttachReceiverRefused(p)
                 \/ p \in Sender /\ AttachSenderRefused(p)

AttachStep(p) == \/ p \in Receiver /\ AttachReceiver(p)
                 \/ p \in Sender /\ AttachSender(p)

ServeStep(p) == \/ Accept(p) \/ Read(p) \/ ReadFails(p) \/ Push(p) \/ PushCancelled(p)
                \/ Write(p) \/ WriteFails(p) \/ WriterStops(p)

DetachStep(p) == \/ p \in Receiver /\ DetachReceiver(p)
                 \/ p \in Sender /\ (DetachSender(p) \/ CancelBridge(p))

\* Every step is one of these.
LEMMA Kinds ==
  Next => \/ RequestStep
          \/ \E p \in Peer : RefuseStep(p) \/ AttachStep(p) \/ ServeStep(p) \/ DetachStep(p)
  BY DEF Next, Peer, RequestStep, RefuseStep, AttachStep, ServeStep, DetachStep

-----------------------------------------------------------------------------
\* Types.

\* What bridge.cancel() leaves of the bridges.
LEMMA CancelledBridges ==
  ASSUME bridge \in [Receiver -> BridgeType], NEW B
  PROVE  /\ Cancelled(B) \in [Receiver -> BridgeType]
         /\ \A b \in Receiver : /\ Cancelled(B)[b].cancelled <=> (b \in B \/ bridge[b].cancelled)
                                /\ Cancelled(B)[b].made <=> bridge[b].made
                                /\ Cancelled(B)[b].sender <=> bridge[b].sender
                                /\ Cancelled(B)[b].toReceiver = bridge[b].toReceiver
  BY DEF Cancelled, BridgeType

\* What expireLocked leaves of a record.
LEMMA RetiredRecord ==
  ASSUME NEW r \in RecordType
  PROVE  /\ Retired(r) \in RecordType
         /\ Retired(r).active = None
         /\ Retired(r).id = r.id /\ Retired(r).expiresAt = r.expiresAt
         /\ Retired(r).fireAt = r.fireAt
         /\ Retired(r).timer \in {r.timer, "stopped"}
         /\ Retired(r).timer # r.timer => r.timer = "armed"
  BY DEF Retired, RecordType

\* What a step does to a connection that it moves to c and nothing more.
PeerMoves(p, c) ==
    /\ peer' \in [Peer -> PeerType]
    /\ \A q \in Peer : /\ peer'[q].bridge = peer[q].bridge
                       /\ peer'[q].id = peer[q].id
                       /\ peer'[q].pc = IF q = p THEN c ELSE peer[q].pc

\* Those are the steps that set a program counter, and a context, of one connection.
LEMMA PeerStep ==
  ASSUME peer \in [Peer -> PeerType], NEW p \in Peer, NEW c \in PeerPC,
         \/ peer' = [peer EXCEPT ![p].pc = c]
         \/ peer' = [peer EXCEPT ![p].pc = c, ![p].cancelled = TRUE]
  PROVE  PeerMoves(p, c)
  <1>1. CASE peer' = [peer EXCEPT ![p].pc = c]
    BY <1>1 DEF PeerMoves, PeerType
  <1>2. CASE peer' = [peer EXCEPT ![p].pc = c, ![p].cancelled = TRUE]
    BY <1>2 DEF PeerMoves, PeerType
  <1> QED BY <1>1, <1>2

\* What a step does to a connection that it attaches to the bridge b.
PeerAttaches(p, b) ==
    /\ peer' \in [Peer -> PeerType]
    /\ peer'[p].pc = "accept" /\ peer'[p].bridge = b
    /\ \A q \in Peer : q # p => peer'[q] = peer[q]

\* Those are the steps of attachReceiver and attachSender.
LEMMA PeerAttach ==
  ASSUME peer \in [Peer -> PeerType], NEW p \in Peer, NEW i \in Id, NEW b \in Receiver,
         peer' = [peer EXCEPT ![p] = [@ EXCEPT !.pc = "accept", !.id = i, !.bridge = b]]
  PROVE  PeerAttaches(p, b)
  BY DEF PeerAttaches, PeerType, PeerPC

\* A step that only says whether the bridge c has a sender.
LEMMA SenderFlag ==
  ASSUME bridge \in [Receiver -> BridgeType], NEW c \in Receiver, NEW f \in BOOLEAN,
         bridge' = [bridge EXCEPT ![c].sender = f]
  PROVE  /\ bridge' \in [Receiver -> BridgeType]
         /\ \A b \in Receiver : /\ bridge'[b].cancelled <=> bridge[b].cancelled
                                /\ bridge'[b].made <=> bridge[b].made
                                /\ bridge'[b].toReceiver = bridge[b].toReceiver
                                /\ bridge'[b].sender <=> IF b = c THEN f ELSE bridge[b].sender
  BY DEF BridgeType

\* A step that only changes a channel of the bridge c.
LEMMA ChannelStep ==
  ASSUME bridge \in [Receiver -> BridgeType], NEW c \in Receiver, NEW m,
         \/ /\ m \in {<<>>} \cup {<<s>> : s \in Sender}
            /\ bridge' = [bridge EXCEPT ![c].toReceiver = m]
         \/ /\ m \in {<<>>} \cup {<<r>> : r \in Receiver}
            /\ bridge' = [bridge EXCEPT ![c].toSender = m]
  PROVE  /\ bridge' \in [Receiver -> BridgeType]
         /\ \A b \in Receiver :
               /\ bridge'[b].cancelled <=> bridge[b].cancelled
               /\ bridge'[b].made <=> bridge[b].made
               /\ bridge'[b].sender <=> bridge[b].sender
               /\ bridge'[b].toReceiver # bridge[b].toReceiver =>
                     b = c /\ bridge'[b].toReceiver = m
  <1>1. CASE bridge' = [bridge EXCEPT ![c].toReceiver = m]
             /\ m \in {<<>>} \cup {<<s>> : s \in Sender}
    BY <1>1 DEF BridgeType
  <1>2. CASE bridge' = [bridge EXCEPT ![c].toSender = m]
             /\ m \in {<<>>} \cup {<<r>> : r \in Receiver}
    BY <1>2 DEF BridgeType
  <1> QED BY <1>1, <1>2

\* A step that only changes the bridge a record has.
LEMMA ActiveStep ==
  ASSUME record \in [Registration -> RecordType], NEW g,
         NEW b \in Receiver \cup {None}, record' = [record EXCEPT ![g].active = b]
  PROVE  /\ record' \in [Registration -> RecordType]
         /\ \A h \in Registration :
               /\ record'[h].id = record[h].id /\ record'[h].timer = record[h].timer
               /\ record'[h].expiresAt = record[h].expiresAt
               /\ record'[h].fireAt = record[h].fireAt
               /\ record'[h].active = IF h = g THEN b ELSE record[h].active
  BY DEF RecordType

\* A step that makes the bridge of a receiver.
LEMMA MadeStep ==
  ASSUME bridge \in [Receiver -> BridgeType], NEW r \in Receiver,
         bridge' = [bridge EXCEPT ![r].made = TRUE]
  PROVE  /\ bridge' \in [Receiver -> BridgeType]
         /\ \A b \in Receiver : /\ bridge'[b].cancelled <=> bridge[b].cancelled
                                /\ bridge'[b].sender <=> bridge[b].sender
                                /\ bridge'[b].toReceiver = bridge[b].toReceiver
                                /\ b # r => bridge'[b].made <=> bridge[b].made
  BY DEF BridgeType

\* What register leaves of the records.
LEMMA RegisterRecords ==
  ASSUME TypeOK, RecordsTimed, NEW g \in Registration, RegisterNew(g)
  PROVE  /\ record' \in [Registration -> RecordType]
         /\ record'[g].id \in Id /\ record'[g].timer = "armed"
         /\ record'[g].expiresAt <= record'[g].fireAt
         /\ \A h \in Registration \ {g} :
               /\ record'[h].id = record[h].id
               /\ record'[h].expiresAt = record[h].expiresAt
               /\ record'[h].fireAt = record[h].fireAt
               /\ record'[h].timer \in {record[h].timer, "stopped"}
               /\ record'[h].timer # record[h].timer => record[h].timer = "armed"
               /\ record'[h].active = IF h = sessions[request[g].id] THEN None
                                                                   ELSE record[h].active
  <1>1. /\ request[g].id \in Id /\ request[g].now <= now /\ request[g].now \in Nat
        /\ request[g].secret \in Secret \cup {None} /\ now \in Nat
        /\ sessions[request[g].id] # g
    BY DEF TypeOK, RecordsTimed, RegisterNew, RequestType
  <1>2. record' = [h \in Registration |->
                         CASE h = g   -> NewRecord(request[g])
                           [] h = sessions[request[g].id] -> Retired(record[h])
                           [] OTHER   -> record[h]]
    BY DEF RegisterNew
  <1>3. /\ NewRecord(request[g]) \in RecordType
        /\ NewRecord(request[g]).id \in Id /\ NewRecord(request[g]).timer = "armed"
        /\ NewRecord(request[g]).expiresAt <= NewRecord(request[g]).fireAt
    BY <1>1, RelayAssumption DEF NewRecord, RecordType
  <1>4. \A h \in Registration \ {g} :
           record'[h] = IF h = sessions[request[g].id] THEN Retired(record[h]) ELSE record[h]
    BY <1>2
  <1>5. record'[g] = NewRecord(request[g])
    BY <1>1, <1>2
  <1>6. \A h \in Registration : record[h] \in RecordType
    BY DEF TypeOK
  <1>7. record' \in [Registration -> RecordType]
    BY <1>2, <1>3, <1>6, RetiredRecord
  <1> QED BY <1>3, <1>4, <1>5, <1>6, <1>7, RetiredRecord

\* The steps of requests and timers keep the types.
LEMMA RecordTypes ==
  ASSUME RelayInv, NEW g \in Registration,
         RegisterStart(g) \/ RegisterExisting(g) \/ RegisterNew(g) \/ TimerFires(g) \/ Expire(g)
  PROVE  TypeOK'
  <1>0. TypeOK /\ RecordsTimed
    BY DEF RelayInv
  <1>1. CASE RegisterStart(g)
    BY <1>0, <1>1 DEF TypeOK, RegisterStart, RequestType
  <1>2. CASE RegisterExisting(g)
    BY <1>0, <1>2, RelayAssumption DEF TypeOK, RegisterExisting, RequestType, Reply
  <1>3. CASE RegisterNew(g)
    <2>1. record' \in [Registration -> RecordType]
      BY <1>0, <1>3, RegisterRecords
    <2>2. sessions' \in [Id -> Registration \cup {None}]
      BY <1>0, <1>3 DEF TypeOK, RegisterNew
    <2>3. bridge' \in [Receiver -> BridgeType]
      BY <1>0, <1>3, CancelledBridges DEF TypeOK, RegisterNew
    <2>4. request' \in [Registration -> RequestType]
      BY <1>0, <1>3 DEF TypeOK, RegisterNew, RequestType, Reply
    <2> QED BY <1>0, <1>3, <2>1, <2>2, <2>3, <2>4 DEF TypeOK, RegisterNew
  <1>4. CASE TimerFires(g)
    BY <1>0, <1>4 DEF TypeOK, TimerFires, RecordType
  <1>5. CASE Expire(g)
    BY <1>0, <1>5, CancelledBridges, RetiredRecord DEF TypeOK, Expire, RecordType
  <1> QED BY <1>1, <1>2, <1>3, <1>4, <1>5

\* The steps that attach and detach connections keep the types.
LEMMA AttachTypes ==
  ASSUME RelayInv,
         \/ \E p \in Peer : AttachExpired(p)
         \/ \E r \in Receiver : \/ AttachReceiver(r) \/ AttachReceiverRefused(r)
                                \/ DetachReceiver(r)
         \/ \E s \in Sender : \/ AttachSender(s) \/ AttachSenderRefused(s)
                              \/ DetachSender(s) \/ CancelBridge(s)
  PROVE  TypeOK'
  <1>0. TypeOK /\ PeersBridged
    BY DEF RelayInv
  <1>1. ASSUME NEW p \in Peer, AttachExpired(p) PROVE TypeOK'
    <2>1. PeerMoves(p, "refused")
      BY <1>0, <1>1, PeerStep DEF TypeOK, AttachExpired, PeerPC
    <2>2. PICK i \in Id : IF sessions[i] = None THEN UNCHANGED <<sessions, record, bridge>>
                                                ELSE ExpireLocked(i, sessions[i])
      BY <1>1 DEF AttachExpired
    <2>3. /\ sessions' \in [Id -> Registration \cup {None}]
          /\ record' \in [Registration -> RecordType]
          /\ bridge' \in [Receiver -> BridgeType]
      BY <1>0, <2>2, CancelledBridges, RetiredRecord DEF TypeOK, ExpireLocked
    <2> QED BY <1>0, <1>1, <2>1, <2>3 DEF TypeOK, AttachExpired, PeerMoves
  <1>2. ASSUME NEW r \in Receiver, AttachReceiver(r) PROVE TypeOK'
    <2>1. PICK i \in Id : /\ Live(i)
                          /\ record' = [record EXCEPT ![sessions[i]].active = r]
                          /\ peer' = [peer EXCEPT ![r] = [@ EXCEPT !.pc = "accept", !.id = i,
                                                                   !.bridge = r]]
      BY <1>2 DEF AttachReceiver
    <2>2. PeerAttaches(r, r)
      BY <1>0, <2>1, PeerAttach DEF TypeOK, Peer
    <2>3. record' \in [Registration -> RecordType]
      BY <1>0, <2>1, ActiveStep DEF TypeOK, Live
    <2>4. bridge' \in [Receiver -> BridgeType]
      BY <1>0, <1>2, MadeStep DEF TypeOK, AttachReceiver
    <2> QED BY <1>0, <1>2, <2>2, <2>3, <2>4 DEF TypeOK, AttachReceiver, PeerAttaches
  <1>3. ASSUME NEW r \in Receiver, AttachReceiverRefused(r) PROVE TypeOK'
    <2>1. PeerMoves(r, "refused")
      BY <1>0, <1>3, PeerStep DEF TypeOK, AttachReceiverRefused, PeerPC, Peer
    <2> QED BY <1>0, <1>3, <2>1 DEF TypeOK, AttachReceiverRefused, PeerMoves
  <1>4. ASSUME NEW r \in Receiver, DetachReceiver(r) PROVE TypeOK'
    <2>1. PeerMoves(r, "done")
      BY <1>0, <1>4, PeerStep DEF TypeOK, DetachReceiver, PeerPC, Peer
    <2>2. record' \in [Registration -> RecordType]
      BY <1>0, <1>4, ActiveStep DEF TypeOK, DetachReceiver
    <2> QED BY <1>0, <1>4, <2>1, <2>2, CancelledBridges DEF TypeOK, DetachReceiver, PeerMoves
  <1>5. ASSUME NEW s \in Sender, AttachSender(s) PROVE TypeOK'
    <2>1. PICK i \in Id, b \in Receiver :
             /\ bridge' = [bridge EXCEPT ![b].sender = TRUE]
             /\ peer' = [peer EXCEPT ![s] = [@ EXCEPT !.pc = "accept", !.id = i, !.bridge = b]]
      BY <1>0, <1>5 DEF TypeOK, AttachSender, Live, RecordType
    <2>2. PeerAttaches(s, b)
      BY <1>0, <2>1, PeerAttach DEF TypeOK, Peer
    <2>3. bridge' \in [Receiver -> BridgeType]
      BY <1>0, <2>1, SenderFlag DEF TypeOK
    <2> QED BY <1>0, <1>5, <2>2, <2>3 DEF TypeOK, AttachSender, PeerAttaches
  <1>6. ASSUME NEW s \in Sender, AttachSenderRefused(s) PROVE TypeOK'
    <2>1. PeerMoves(s, "refused")
      BY <1>0, <1>6, PeerStep DEF TypeOK, AttachSenderRefused, PeerPC, Peer
    <2> QED BY <1>0, <1>6, <2>1 DEF TypeOK, AttachSenderRefused, PeerMoves
  <1>7. ASSUME NEW s \in Sender, DetachSender(s) PROVE TypeOK'
    <2>1. PICK c \in {"cancel", "done"} : peer' = [peer EXCEPT ![s].pc = c]
      BY <1>0, <1>7 DEF TypeOK, DetachSender, Peer
    <2>2. PeerMoves(s, c)
      BY <1>0, <2>1, PeerStep DEF TypeOK, PeerPC, Peer
    <2>3. bridge' \in [Receiver -> BridgeType]
      BY <1>0, <1>7, SenderFlag DEF TypeOK, DetachSender, PeersBridged, Serving, Peer
    <2> QED BY <1>0, <1>7, <2>2, <2>3 DEF TypeOK, DetachSender, PeerMoves
  <1>8. ASSUME NEW s \in Sender, CancelBridge(s) PROVE TypeOK'
    <2>1. PeerMoves(s, "done")
      BY <1>0, <1>8, PeerStep DEF TypeOK, CancelBridge, PeerPC, Peer
    <2> QED BY <1>0, <1>8, <2>1, CancelledBridges DEF TypeOK, CancelBridge, PeerMoves
  <1> QED BY <1>1, <1>2, <1>3, <1>4, <1>5, <1>6, <1>7, <1>8

\* The first message of a channel comes from a peer of the other side.
LEMMA ChannelHead ==
  ASSUME TypeOK, NEW b \in Receiver, bridge[b].toReceiver # <<>>
  PROVE  Head(bridge[b].toReceiver) \in Sender /\ Head(bridge[b].toReceiver) \in Speakers(b)
  <1>1. PICK s \in Sender : bridge[b].toReceiver = <<s>>
    BY DEF TypeOK, BridgeType
  <1> QED BY <1>1 DEF Speakers

\* The bridge of a connection that is served.
LEMMA ServedBridge ==
  ASSUME PeersBridged, NEW p \in Peer,
         peer[p].pc \in {"accept", "read", "push", "detach"} \/ writer[p] = "run"
  PROVE  peer[p].bridge \in Receiver /\ (p \in Receiver => peer[p].bridge = p)
  BY RelayAssumption DEF PeersBridged, Serving

\* The steps of servePeer keep the types.
LEMMA ServeTypes ==
  ASSUME RelayInv, NEW p \in Peer,
         \/ Accept(p) \/ Read(p) \/ ReadFails(p) \/ Push(p) \/ PushCancelled(p)
         \/ Write(p) \/ WriteFails(p) \/ WriterStops(p)
  PROVE  TypeOK'
  <1>0. TypeOK /\ PeersBridged
    BY DEF RelayInv
  <1>1. CASE Accept(p)
    <2>1. PICK c \in {"read", "detach", "unattach"} : peer' = [peer EXCEPT ![p].pc = c]
      BY <1>1 DEF Accept
    <2>2. PeerMoves(p, c)
      BY <1>0, <2>1, PeerStep DEF TypeOK, PeerPC
    <2> QED BY <1>0, <1>1, <2>2 DEF TypeOK, Accept, PeerMoves
  <1>2. CASE Read(p)
    <2>1. PeerMoves(p, "push")
      BY <1>0, <1>2, PeerStep DEF TypeOK, Read, PeerPC
    <2> QED BY <1>0, <1>2, <2>1 DEF TypeOK, Read, PeerMoves
  <1>3. CASE ReadFails(p) \/ PushCancelled(p)
    <2>1. PeerMoves(p, "detach")
      BY <1>0, <1>3, PeerStep DEF TypeOK, ReadFails, PushCancelled, PeerPC
    <2> QED BY <1>0, <1>3, <2>1 DEF TypeOK, ReadFails, PushCancelled, PeerMoves
  <1>4. CASE Push(p)
    <2>1. bridge' \in [Receiver -> BridgeType]
      BY <1>0, <1>4, ServedBridge, ChannelStep DEF TypeOK, Push
    <2>2. PeerMoves(p, "read")
      BY <1>0, <1>4, PeerStep DEF TypeOK, Push, PeerPC
    <2> QED BY <1>0, <1>4, <2>1, <2>2 DEF TypeOK, Push, PeerMoves
  <1>5. ASSUME Take(p) PROVE bridge' \in [Receiver -> BridgeType]
    BY <1>0, <1>5, ServedBridge, ChannelStep DEF TypeOK, Take
  <1>6. CASE Write(p)
    <2>1. p \in Receiver => Head(bridge[p].toReceiver) \in Sender
      BY <1>0, <1>6, ChannelHead, ServedBridge, RelayAssumption DEF Write, Take
    <2> QED BY <1>0, <1>5, <1>6, <2>1 DEF TypeOK, Write, Take
  <1>7. CASE WriteFails(p)
    <2>1. peer' \in [Peer -> PeerType] /\ writer' \in [Peer -> {"off", "run", "done"}]
      BY <1>0, <1>7 DEF TypeOK, WriteFails, PeerType
    <2> QED BY <1>0, <1>5, <1>7, <2>1 DEF TypeOK, WriteFails, Take
  <1>8. CASE WriterStops(p)
    BY <1>0, <1>8 DEF TypeOK, WriterStops
  <1> QED BY <1>1, <1>2, <1>3, <1>4, <1>6, <1>7, <1>8

\* Every step keeps the types.
LEMMA TypeStep == RelayInv /\ Next => TypeOK'
  <1> SUFFICES ASSUME RelayInv, Next PROVE TypeOK'
    OBVIOUS
  <1>1. CASE Tick
    BY <1>1, RelayAssumption DEF RelayInv, TypeOK, Tick
  <1> QED BY <1>1, RecordTypes, AttachTypes, ServeTypes DEF Next

-----------------------------------------------------------------------------
\* Sessions and their timers.

\* The steps that leave the sessions alone.
SessionsKept == UNCHANGED <<now, sessions, record, request>>

\* Those are the steps of the connections but for the receiver's attach and detach.
LEMMA KeepsSessions ==
  ASSUME \/ \E p \in Peer : ServeStep(p)
         \/ \E r \in Receiver : AttachReceiverRefused(r)
         \/ \E s \in Sender : \/ AttachSender(s) \/ AttachSenderRefused(s)
                              \/ DetachSender(s) \/ CancelBridge(s)
  PROVE  SessionsKept
  BY DEF ServeStep, Accept, Read, ReadFails, Push, PushCancelled, Write, WriteFails, WriterStops,
         Take, AttachReceiverRefused, AttachSender, AttachSenderRefused, DetachSender,
         CancelBridge, SessionsKept

\* What expireLocked leaves of the records.
LEMMA ExpireRecords ==
  ASSUME TypeOK, NEW i \in Id, sessions[i] # None, ExpireLocked(i, sessions[i])
  PROVE  \A h \in Registration :
            /\ record'[h].id = record[h].id
            /\ record'[h].expiresAt = record[h].expiresAt
            /\ record'[h].fireAt = record[h].fireAt
            /\ record'[h].timer \in {record[h].timer, "stopped"}
            /\ record'[h].timer # record[h].timer => record[h].timer = "armed"
            /\ record'[h].active = IF h = sessions[i] THEN None ELSE record[h].active
  <1>1. \A h \in Registration :
           /\ record[h] \in RecordType
           /\ record'[h] = IF h = sessions[i] THEN Retired(record[h]) ELSE record[h]
    BY DEF TypeOK, ExpireLocked
  <1> QED BY <1>1, RetiredRecord

\* What the goroutine of a timer leaves of the records.
LEMMA TimerRecords ==
  ASSUME TypeOK, NEW g \in Registration, TimerFires(g) \/ Expire(g)
  PROVE  \A h \in Registration :
            /\ record'[h].id = record[h].id
            /\ record'[h].expiresAt = record[h].expiresAt
            /\ record'[h].fireAt = record[h].fireAt
            /\ h # g => record'[h] = record[h]
            /\ record'[g].timer = IF TimerFires(g) THEN "fired" ELSE "done"
            /\ record'[g].active \in {None, record[g].active}
            /\ record'[g].active # record[g].active =>
                  record[g].timer = "fired" /\ sessions[record[g].id] = g
  <1>1. \A h \in Registration : record[h] \in RecordType
    BY DEF TypeOK
  <1>2. CASE TimerFires(g)
    BY <1>1, <1>2 DEF TypeOK, TimerFires, RecordType
  <1>3. CASE Expire(g)
    <2>1. ~TimerFires(g)
      BY <1>3 DEF TimerFires, Expire
    <2> QED BY <1>1, <1>3, <2>1, RetiredRecord DEF TypeOK, Expire, RecordType
  <1> QED BY <1>2, <1>3

\* Every step keeps the timers right.
LEMMA TimedStep == RelayInv /\ Next => RecordsTimed'
  <1> SUFFICES ASSUME RelayInv, Next PROVE RecordsTimed'
    OBVIOUS
  <1>0. TypeOK /\ RecordsTimed /\ PeersBridged /\ now \in Nat
    BY DEF RelayInv, TypeOK
  <1>1. CASE SessionsKept
    BY <1>0, <1>1 DEF SessionsKept, RecordsTimed
  <1>2. CASE Tick
    BY <1>0, <1>2 DEF Tick, RecordsTimed, TypeOK, RecordType, RequestType
  <1>3. ASSUME NEW g \in Registration, RegisterStart(g) PROVE RecordsTimed'
    BY <1>0, <1>3 DEF RegisterStart, RecordsTimed, TypeOK
  <1>4. ASSUME NEW g \in Registration, RegisterExisting(g) PROVE RecordsTimed'
    BY <1>0, <1>4 DEF RegisterExisting, RecordsTimed, TypeOK, Reply
  <1>5. ASSUME NEW g \in Registration, RegisterNew(g) PROVE RecordsTimed'
    <2>1. /\ request'[g].pc = "created"
          /\ \A h \in Registration \ {g} : request'[h] = request[h]
      BY <1>0, <1>5 DEF RegisterNew, TypeOK, Reply
    <2>2. now' = now /\ \A i \in Id : sessions'[i] \in {g, sessions[i]}
      BY <1>0, <1>5 DEF RegisterNew, TypeOK
    <2> QED BY <1>0, <1>5, <2>1, <2>2, RegisterRecords DEF RecordsTimed
  <1>6. ASSUME NEW g \in Registration, TimerFires(g) \/ Expire(g) PROVE RecordsTimed'
    <2>1. now' = now /\ request' = request /\ \A i \in Id : sessions'[i] \in {None, sessions[i]}
      BY <1>0, <1>6 DEF TimerFires, Expire, TypeOK
    <2>2. TimerFires(g) => record[g].timer = "armed" /\ now >= record[g].fireAt
      BY DEF TimerFires
    <2>3. Expire(g) => record[g].timer = "fired"
      BY DEF Expire
    <2> QED BY <1>0, <1>6, <2>1, <2>2, <2>3, TimerRecords, RelayAssumption DEF RecordsTimed
  <1>7. ASSUME NEW p \in Peer, AttachExpired(p) PROVE RecordsTimed'
    <2>1. PICK i \in Id : IF sessions[i] = None THEN UNCHANGED <<sessions, record, bridge>>
                                                ELSE ExpireLocked(i, sessions[i])
      BY <1>7 DEF AttachExpired
    <2>2. now' = now /\ request' = request /\ \A j \in Id : sessions'[j] \in {None, sessions[j]}
      BY <1>0, <1>7, <2>1 DEF AttachExpired, ExpireLocked, TypeOK
    <2> QED BY <1>0, <2>1, <2>2, ExpireRecords, RelayAssumption DEF RecordsTimed
  <1>8. ASSUME NEW r \in Receiver, AttachReceiver(r) \/ DetachReceiver(r) PROVE RecordsTimed'
    <2>1. \/ record' = record
          \/ \E g : \E b \in Receiver \cup {None} :
                record' = [record EXCEPT ![g].active = b]
      BY <1>8, Zenon DEF AttachReceiver, DetachReceiver
    <2>2. UNCHANGED <<now, sessions, request>>
      BY <1>8 DEF AttachReceiver, DetachReceiver
    <2>3. \A h \in Registration : /\ record'[h].id = record[h].id
                                   /\ record'[h].timer = record[h].timer
                                   /\ record'[h].expiresAt = record[h].expiresAt
                                   /\ record'[h].fireAt = record[h].fireAt
      BY <1>0, <2>1, ActiveStep DEF TypeOK
    <2> QED BY <1>0, <2>2, <2>3 DEF RecordsTimed
  <1> QED BY <1>1, <1>2, <1>3, <1>4, <1>5, <1>6, <1>7, <1>8, KeepsSessions DEF Next, ServeStep

-----------------------------------------------------------------------------
\* Connections and their bridges.

\* A step may cancel bridges, and leaves their senders and channels alone.
BridgesAged == \A b \in Receiver : /\ bridge[b].cancelled => bridge'[b].cancelled
                                   /\ bridge'[b].made <=> bridge[b].made
                                   /\ bridge'[b].sender <=> bridge[b].sender
                                   /\ bridge'[b].toReceiver = bridge[b].toReceiver

\* bridge.cancel() is such a step.
LEMMA CancelledAges ==
  ASSUME TypeOK, NEW B, bridge' = Cancelled(B)
  PROVE  BridgesAged
  BY CancelledBridges DEF BridgesAged, TypeOK

\* The steps that no connection takes.
LEMMA RequestEffect ==
  ASSUME TypeOK, RequestStep
  PROVE  UNCHANGED <<peer, writer, heard>> /\ BridgesAged
  <1>1. UNCHANGED <<peer, writer, heard>>
    BY DEF RequestStep, Tick, RegisterStart, RegisterExisting, RegisterNew, TimerFires, Expire
  <1>2. CASE bridge' = bridge
    BY <1>1, <1>2 DEF BridgesAged
  <1>3. ASSUME NEW g \in Registration, RegisterNew(g), bridge' # bridge PROVE BridgesAged
    BY <1>3, CancelledAges DEF RegisterNew
  <1>4. ASSUME NEW g \in Registration, Expire(g), bridge' # bridge PROVE BridgesAged
    BY <1>4, CancelledAges DEF Expire
  <1>5. bridge' # bridge => \E g \in Registration : RegisterNew(g) \/ Expire(g)
    BY DEF RequestStep, Tick, RegisterStart, RegisterExisting, TimerFires
  <1> QED BY <1>1, <1>2, <1>3, <1>4, <1>5

\* The requests that are refused.
LEMMA RefusedEffect ==
  ASSUME TypeOK, NEW p \in Peer, RefuseStep(p)
  PROVE  /\ UNCHANGED <<writer, heard>> /\ BridgesAged
         /\ peer[p].pc = "idle" /\ PeerMoves(p, "refused")
  <1>1. UNCHANGED <<writer, heard>> /\ peer[p].pc = "idle"
    BY DEF RefuseStep, AttachExpired, AttachReceiverRefused, AttachSenderRefused
  <1>2. ASSUME bridge' = bridge PROVE BridgesAged
    BY <1>2 DEF BridgesAged
  <1>3. BridgesAged
    BY <1>2, CancelledAges DEF RefuseStep, AttachExpired, ExpireLocked, AttachReceiverRefused,
                               AttachSenderRefused
  <1>4. PeerMoves(p, "refused")
    BY PeerStep DEF TypeOK, RefuseStep, AttachExpired, AttachReceiverRefused, AttachSenderRefused, PeerPC
  <1> QED BY <1>1, <1>3, <1>4

\* The transitions of servePeer.
ServeMove(p, c, d) ==
    \/ c = d
    \/ c = "accept" /\ d = "read"
    \/ c = "accept" /\ d = "detach" /\ p \in Receiver
    \/ c = "accept" /\ d = "unattach" /\ p \notin Receiver
    \/ c = "read" /\ d \in {"push", "detach"}
    \/ c = "push" /\ d \in {"read", "detach"}

\* The steps of servePeer, but for the channels.
LEMMA ServeEffect ==
  ASSUME TypeOK, PeersBridged, NEW p \in Peer, ServeStep(p)
  PROVE  /\ \A q \in Peer : /\ peer'[q].bridge = peer[q].bridge
                            /\ q # p => peer'[q].pc = peer[q].pc
                            /\ writer'[q] = "run" =>
                                  writer[q] = "run" \/ (q = p /\ peer[p].pc = "accept")
         /\ ServeMove(p, peer[p].pc, peer'[p].pc)
         /\ \A b \in Receiver : /\ bridge'[b].cancelled <=> bridge[b].cancelled
                                /\ bridge'[b].made <=> bridge[b].made
                                /\ bridge'[b].sender <=> bridge[b].sender
  <1>1. CASE Accept(p)
    <2>1. PICK c \in {"read", IF p \in Receiver THEN "detach" ELSE "unattach"} :
             peer' = [peer EXCEPT ![p].pc = c]
      BY <1>1 DEF Accept
    <2>2. PeerMoves(p, c)
      BY <2>1, PeerStep DEF TypeOK, PeerPC
    <2> QED BY <1>1, <2>1, <2>2 DEF TypeOK, Accept, PeerMoves, ServeMove
  <1>2. CASE Read(p)
    <2>1. PeerMoves(p, "push")
      BY <1>2, PeerStep DEF TypeOK, Read, PeerPC
    <2> QED BY <1>2, <2>1 DEF Read, PeerMoves, ServeMove
  <1>3. CASE ReadFails(p) \/ PushCancelled(p)
    <2>1. PeerMoves(p, "detach")
      BY <1>3, PeerStep DEF TypeOK, ReadFails, PushCancelled, PeerPC
    <2> QED BY <1>3, <2>1 DEF ReadFails, PushCancelled, PeerMoves, ServeMove
  <1>4. CASE Push(p)
    <2>1. PeerMoves(p, "read")
      BY <1>4, PeerStep DEF TypeOK, Push, PeerPC
    <2>2. \A b \in Receiver : /\ bridge'[b].cancelled <=> bridge[b].cancelled
                              /\ bridge'[b].made <=> bridge[b].made
                              /\ bridge'[b].sender <=> bridge[b].sender
      <3>1. peer[p].bridge \in Receiver
        BY <1>4, ServedBridge DEF Push
      <3>2. CASE p \in Sender /\ bridge' = [bridge EXCEPT ![peer[p].bridge].toReceiver = <<p>>]
        BY <3>1, <3>2, ChannelStep DEF TypeOK
      <3>3. CASE p \in Receiver /\ bridge' = [bridge EXCEPT ![peer[p].bridge].toSender = <<p>>]
        BY <3>1, <3>3, ChannelStep DEF TypeOK
      <3> QED BY <1>4, <3>2, <3>3 DEF Push
    <2> QED BY <1>4, <2>1, <2>2 DEF Push, PeerMoves, ServeMove
  <1>5. ASSUME Take(p)
        PROVE  \A b \in Receiver : /\ bridge'[b].cancelled <=> bridge[b].cancelled
                                   /\ bridge'[b].made <=> bridge[b].made
                                   /\ bridge'[b].sender <=> bridge[b].sender
    BY <1>5, ServedBridge, ChannelStep DEF TypeOK, Take
  <1>6. CASE Write(p)
    BY <1>5, <1>6 DEF Write, ServeMove
  <1>7. CASE WriteFails(p)
    <2>1. \A q \in Peer : peer'[q].bridge = peer[q].bridge /\ peer'[q].pc = peer[q].pc
      BY <1>7 DEF TypeOK, WriteFails, PeerType
    <2> QED BY <1>5, <1>7, <2>1 DEF TypeOK, WriteFails, ServeMove
  <1>8. CASE WriterStops(p)
    BY <1>8 DEF TypeOK, WriterStops, ServeMove
  <1> QED BY <1>1, <1>2, <1>3, <1>4, <1>6, <1>7, <1>8 DEF ServeStep

\* A receiver or a sender that attaches.
LEMMA AttachEffect ==
  ASSUME TypeOK, NEW p \in Peer, AttachStep(p)
  PROVE  /\ UNCHANGED <<writer, heard>> /\ peer[p].pc = "idle"
         /\ \A b \in Receiver : /\ bridge'[b].cancelled <=> bridge[b].cancelled
                                /\ bridge'[b].toReceiver = bridge[b].toReceiver
         /\ \E b \in Receiver :
               /\ PeerAttaches(p, b)
               /\ p \in Receiver =>
                     b = p /\ \A c \in Receiver : bridge'[c].sender <=> bridge[c].sender
               /\ p \in Sender =>
                     /\ ~bridge[b].sender
                     /\ \A c \in Receiver : bridge'[c].sender <=> (c = b \/ bridge[c].sender)
                     /\ \A c \in Receiver : bridge'[c].made <=> bridge[c].made
  <1>1. CASE p \in Receiver /\ AttachReceiver(p)
    <2>1. PICK i \in Id : peer' = [peer EXCEPT ![p] = [@ EXCEPT !.pc = "accept", !.id = i,
                                                                !.bridge = p]]
      BY <1>1 DEF AttachReceiver
    <2>2. PeerAttaches(p, p)
      BY <1>1, <2>1, PeerAttach DEF TypeOK
    <2>3. bridge' = [bridge EXCEPT ![p].made = TRUE] /\ UNCHANGED <<writer, heard>>
          /\ peer[p].pc = "idle"
      BY <1>1 DEF AttachReceiver
    <2> QED BY <1>1, <2>2, <2>3, MadeStep, RelayAssumption DEF TypeOK
  <1>2. CASE p \in Sender /\ AttachSender(p)
    <2>1. PICK i \in Id, b \in Receiver :
             /\ ~bridge[b].sender
             /\ bridge' = [bridge EXCEPT ![b].sender = TRUE]
             /\ peer' = [peer EXCEPT ![p] = [@ EXCEPT !.pc = "accept", !.id = i, !.bridge = b]]
      BY <1>2 DEF TypeOK, AttachSender, Live, RecordType
    <2>2. PeerAttaches(p, b)
      BY <2>1, PeerAttach DEF TypeOK
    <2>3. UNCHANGED <<writer, heard>> /\ peer[p].pc = "idle"
      BY <1>2 DEF AttachSender
    <2>4. \A c \in Receiver : /\ bridge'[c].cancelled <=> bridge[c].cancelled
                              /\ bridge'[c].toReceiver = bridge[c].toReceiver
                              /\ bridge'[c].sender <=> (c = b \/ bridge[c].sender)
                              /\ bridge'[c].made <=> bridge[c].made
      BY <2>1, SenderFlag DEF TypeOK
    <2> QED BY <1>2, <2>1, <2>2, <2>3, <2>4, RelayAssumption
  <1> QED BY <1>1, <1>2 DEF AttachStep

\* A sender is about to detach.
Leaves(p) == p \in Sender /\ peer[p].pc \in {"detach", "unattach"}

\* A connection that detaches.
LEMMA DetachEffect ==
  ASSUME TypeOK, PeersBridged, NEW p \in Peer, DetachStep(p)
  PROVE  /\ UNCHANGED <<writer, heard>> /\ peer[p].bridge \in Receiver
         /\ \A b \in Receiver : /\ bridge[b].cancelled => bridge'[b].cancelled
                                /\ bridge'[b].made <=> bridge[b].made
                                /\ bridge'[b].toReceiver = bridge[b].toReceiver
                                /\ bridge'[b].sender <=>
                                      (bridge[b].sender /\ ~(Leaves(p) /\ b = peer[p].bridge))
         /\ \E c \in {"cancel", "done"} :
               /\ PeerMoves(p, c)
               /\ c = "cancel" => p \in Sender /\ peer[p].pc = "detach"
               /\ c = "done" /\ peer[p].pc # "unattach" => bridge'[peer[p].bridge].cancelled
  <1>1. CASE p \in Receiver /\ DetachReceiver(p)
    <2>1. /\ bridge' = Cancelled({peer[p].bridge}) /\ peer' = [peer EXCEPT ![p].pc = "done"]
          /\ UNCHANGED <<writer, heard>> /\ peer[p].pc = "detach" /\ p \notin Sender
          /\ peer[p].bridge \in Receiver
      BY <1>1, RelayAssumption, ServedBridge DEF DetachReceiver
    <2>2. PeerMoves(p, "done")
      BY <2>1, PeerStep DEF TypeOK, PeerPC
    <2> QED BY <2>1, <2>2, CancelledBridges DEF TypeOK, Leaves
  <1>2. CASE p \in Sender /\ DetachSender(p)
    <2>1. /\ peer[p].bridge \in Receiver /\ peer[p].pc \in {"detach", "unattach"}
          /\ bridge' = [bridge EXCEPT ![peer[p].bridge].sender = FALSE]
          /\ UNCHANGED <<writer, heard>>
      BY <1>2 DEF DetachSender, PeersBridged, Serving
    <2>2. PeerMoves(p, IF peer[p].pc = "detach" THEN "cancel" ELSE "done")
      BY <1>2, <2>1, PeerStep DEF TypeOK, PeerPC, DetachSender
    <2> QED BY <1>2, <2>1, <2>2, SenderFlag DEF TypeOK, Leaves
  <1>3. CASE p \in Sender /\ CancelBridge(p)
    <2>1. /\ bridge' = Cancelled({peer[p].bridge}) /\ peer' = [peer EXCEPT ![p].pc = "done"]
          /\ UNCHANGED <<writer, heard>> /\ peer[p].pc = "cancel"
          /\ peer[p].bridge \in Receiver
      BY <1>3 DEF CancelBridge, PeersBridged
    <2>2. PeerMoves(p, "done")
      BY <2>1, PeerStep DEF TypeOK, PeerPC
    <2> QED BY <2>1, <2>2, CancelledBridges DEF TypeOK, Leaves
  <1> QED BY <1>1, <1>2, <1>3 DEF DetachStep

-----------------------------------------------------------------------------
\* The parts of the invariant.

\* Every step keeps the connections on their bridges.
LEMMA BridgedStep == RelayInv /\ Next => PeersBridged'
  <1> SUFFICES ASSUME RelayInv, Next PROVE PeersBridged'
    OBVIOUS
  <1>0. TypeOK /\ PeersBridged
    BY DEF RelayInv
  <1>1. CASE RequestStep
    BY <1>0, <1>1, RequestEffect DEF PeersBridged
  <1>2. ASSUME NEW p \in Peer, RefuseStep(p) PROVE PeersBridged'
    BY <1>0, <1>2, RefusedEffect DEF PeersBridged, Serving, Peer, PeerMoves
  <1>3. ASSUME NEW p \in Peer, AttachStep(p) PROVE PeersBridged'
    BY <1>0, <1>3, AttachEffect, RelayAssumption DEF PeersBridged, Serving, Peer, PeerAttaches
  <1>4. ASSUME NEW p \in Peer, ServeStep(p) PROVE PeersBridged'
    BY <1>0, <1>4, ServeEffect DEF PeersBridged, Serving, Peer, ServeMove
  <1>5. ASSUME NEW p \in Peer, DetachStep(p) PROVE PeersBridged'
    BY <1>0, <1>5, DetachEffect DEF PeersBridged, Serving, Peer, PeerMoves
  <1> QED BY <1>1, <1>2, <1>3, <1>4, <1>5, Kinds

\* A step that leaves the senders of the bridges alone.
LEMMA SendersKept ==
  ASSUME OneSenderAtATime,
         \A b \in Receiver : bridge'[b].sender <=> bridge[b].sender,
         \A s \in Sender, b \in Receiver : Attached(s, b)' <=> Attached(s, b)
  PROVE  OneSenderAtATime'
  BY DEF OneSenderAtATime

\* Every step keeps a bridge to one sender.
LEMMA OneSenderStep == RelayInv /\ Next => OneSenderAtATime'
  <1> SUFFICES ASSUME RelayInv, Next PROVE OneSenderAtATime'
    OBVIOUS
  <1>0. TypeOK /\ PeersBridged /\ OneSenderAtATime
    BY DEF RelayInv
  <1>1. CASE RequestStep
    BY <1>0, <1>1, RequestEffect, SendersKept DEF BridgesAged, Attached
  <1>2. ASSUME NEW p \in Peer, RefuseStep(p) PROVE OneSenderAtATime'
    BY <1>0, <1>2, RefusedEffect, SendersKept DEF BridgesAged, Attached, PeerMoves, Peer
  <1>3. ASSUME NEW p \in Peer, AttachStep(p) PROVE OneSenderAtATime'
    <2>1. CASE p \in Receiver
      BY <1>0, <1>3, <2>1, AttachEffect, SendersKept, RelayAssumption
         DEF Attached, PeerAttaches, Peer
    <2>2. CASE p \in Sender
      <3>1. PICK b \in Receiver :
               /\ PeerAttaches(p, b) /\ ~bridge[b].sender /\ peer[p].pc = "idle"
               /\ \A c \in Receiver : bridge'[c].sender <=> (c = b \/ bridge[c].sender)
        BY <1>0, <1>3, <2>2, AttachEffect
      <3>2. \A s \in Sender, c \in Receiver :
               Attached(s, c)' <=> Attached(s, c) \/ (s = p /\ c = b)
        BY <3>1 DEF Attached, PeerAttaches, Peer
      <3> QED BY <1>0, <2>2, <3>1, <3>2 DEF OneSenderAtATime
    <2> QED BY <2>1, <2>2 DEF Peer
  <1>4. ASSUME NEW p \in Peer, ServeStep(p) PROVE OneSenderAtATime'
    <2>1. \A s \in Sender, b \in Receiver : Attached(s, b)' <=> Attached(s, b)
      BY <1>0, <1>4, ServeEffect DEF Attached, ServeMove, Peer
    <2> QED BY <1>0, <1>4, <2>1, ServeEffect, SendersKept
  <1>5. ASSUME NEW p \in Peer, DetachStep(p) PROVE OneSenderAtATime'
    <2>1. \A s \in Sender, b \in Receiver : Attached(s, b)' <=> Attached(s, b) /\ s # p
      BY <1>0, <1>5, DetachEffect, RelayAssumption DEF Attached, PeerMoves, Peer
    <2>2. p \in Sender /\ ~Leaves(p) => \A b \in Receiver : ~Attached(p, b)
      BY <1>5, RelayAssumption DEF DetachStep, DetachSender, CancelBridge, Attached, Leaves
    <2>3. Leaves(p) => p \in Sender /\ Attached(p, peer[p].bridge)
      BY DEF Leaves, Attached
    <2> QED BY <1>0, <1>5, <2>1, <2>2, <2>3, DetachEffect DEF OneSenderAtATime, Attached
  <1> QED BY <1>1, <1>2, <1>3, <1>4, <1>5, Kinds

\* Where a sender that has been heard can be.
Spoken == {"read", "push", "detach", "cancel", "done"}

\* A step keeps what is known of the speakers if those it adds are senders that push,
\* and a sender is done when its bridge is cancelled.
LEMMA SpeakersKept ==
  ASSUME SpeakersKnown,
         \A s \in Sender : peer[s].pc \in Spoken =>
            /\ peer'[s].bridge = peer[s].bridge /\ peer'[s].pc \in Spoken
            /\ peer'[s].pc = "done" =>
                  peer[s].pc = "done" \/ bridge'[peer[s].bridge].cancelled,
         \A b \in Receiver : bridge[b].cancelled => bridge'[b].cancelled,
         \A b \in Receiver : \A s \in Speakers(b)' :
            \/ s \in Speakers(b)
            \/ s \in Sender /\ peer[s].bridge = b /\ peer[s].pc = "push"
  PROVE  SpeakersKnown'
  BY DEF SpeakersKnown, Spoken

\* The speakers of a bridge whose channel and history are the same.
LEMMA SameSpeakers ==
  ASSUME heard' = heard, NEW b, bridge'[b].toReceiver = bridge[b].toReceiver
  PROVE  Speakers(b)' = Speakers(b)
  BY DEF Speakers

\* The speakers after a step of servePeer.
LEMMA ServeSpeakers ==
  ASSUME TypeOK, PeersBridged, NEW p \in Peer, ServeStep(p), NEW b \in Receiver,
         NEW s \in Speakers(b)'
  PROVE  \/ s \in Speakers(b)
         \/ s \in Sender /\ peer[s].bridge = b /\ peer[s].pc = "push"
  <1>1. CASE bridge' = bridge /\ heard' = heard
    BY <1>1 DEF Speakers
  <1>2. CASE Push(p)
    <2>1. heard' = heard /\ peer[p].pc = "push" /\ peer[p].bridge \in Receiver
      BY <1>2, ServedBridge DEF Push
    <2>2. CASE p \in Sender /\ bridge' = [bridge EXCEPT ![peer[p].bridge].toReceiver = <<p>>]
      <3>1. bridge'[b].toReceiver # bridge[b].toReceiver =>
               b = peer[p].bridge /\ bridge'[b].toReceiver = <<p>>
        BY <2>1, <2>2, ChannelStep DEF TypeOK
      <3> QED BY <2>1, <2>2, <3>1 DEF Speakers
    <2>3. CASE p \in Receiver /\ bridge' = [bridge EXCEPT ![peer[p].bridge].toSender = <<p>>]
      BY <2>1, <2>3, SameSpeakers DEF TypeOK, BridgeType
    <2> QED BY <1>2, <2>2, <2>3 DEF Push
  <1>3. ASSUME Take(p) PROVE bridge'[b].toReceiver \in {<<>>, bridge[b].toReceiver}
    <2>1. peer[p].bridge \in Receiver
      BY <1>3, ServedBridge DEF Take
    <2>2. CASE bridge' = [bridge EXCEPT ![peer[p].bridge].toReceiver = <<>>]
      BY <2>1, <2>2, ChannelStep DEF TypeOK
    <2>3. CASE bridge' = [bridge EXCEPT ![peer[p].bridge].toSender = <<>>]
      BY <2>1, <2>3, ChannelStep DEF TypeOK
    <2> QED BY <1>3, <2>2, <2>3 DEF Take
  <1>4. CASE Write(p)
    <2>1. heard'[b] \subseteq Speakers(b)
      <3>1. CASE p \in Receiver
        <4>1. bridge[p].toReceiver # <<>>
          BY <1>4, <3>1, ServedBridge, RelayAssumption DEF Write, Take
        <4>2. Head(bridge[p].toReceiver) \in Speakers(p)
          BY <3>1, <4>1, ChannelHead
        <4> QED BY <1>4, <3>1, <4>2 DEF Write, TypeOK, Speakers
      <3>2. CASE p \notin Receiver
        BY <1>4, <3>2 DEF Write, Speakers
      <3> QED BY <3>1, <3>2
    <2> QED BY <1>3, <1>4, <2>1 DEF Write, Speakers
  <1>5. CASE WriteFails(p)
    BY <1>3, <1>5 DEF WriteFails, Speakers
  <1> QED BY <1>1, <1>2, <1>4, <1>5 DEF ServeStep, Accept, Read, ReadFails, PushCancelled,
                                        WriterStops

\* Every step keeps what is known of the speakers.
LEMMA SpeakersStep == RelayInv /\ Next => SpeakersKnown'
  <1> SUFFICES ASSUME RelayInv, Next PROVE SpeakersKnown'
    OBVIOUS
  <1>0. TypeOK /\ PeersBridged /\ SpeakersKnown
    BY DEF RelayInv
  <1>1. CASE RequestStep
    <2>1. UNCHANGED <<peer, writer, heard>> /\ BridgesAged
      BY <1>0, <1>1, RequestEffect
    <2> QED BY <1>0, <2>1, SpeakersKept, SameSpeakers DEF BridgesAged
  <1>2. ASSUME NEW p \in Peer, RefuseStep(p) PROVE SpeakersKnown'
    <2>1. heard' = heard /\ BridgesAged /\ peer[p].pc = "idle" /\ PeerMoves(p, "refused")
      BY <1>0, <1>2, RefusedEffect
    <2>2. \A s \in Sender : peer[s].pc \in Spoken =>
             peer'[s].bridge = peer[s].bridge /\ peer'[s].pc = peer[s].pc
      BY <2>1 DEF PeerMoves, Spoken, Peer
    <2> QED BY <1>0, <2>1, <2>2, SpeakersKept, SameSpeakers DEF BridgesAged
  <1>3. ASSUME NEW p \in Peer, AttachStep(p) PROVE SpeakersKnown'
    <2>1. /\ heard' = heard /\ peer[p].pc = "idle" /\ \E b \in Receiver : PeerAttaches(p, b)
          /\ \A b \in Receiver : /\ bridge'[b].cancelled <=> bridge[b].cancelled
                                 /\ bridge'[b].toReceiver = bridge[b].toReceiver
      BY <1>0, <1>3, AttachEffect
    <2>2. \A s \in Sender : peer[s].pc \in Spoken =>
             peer'[s].bridge = peer[s].bridge /\ peer'[s].pc = peer[s].pc
      BY <2>1 DEF PeerAttaches, Spoken, Peer
    <2> QED BY <1>0, <2>1, <2>2, SpeakersKept, SameSpeakers
  <1>4. ASSUME NEW p \in Peer, ServeStep(p) PROVE SpeakersKnown'
    <2>1. \A s \in Sender : peer[s].pc \in Spoken =>
            /\ peer'[s].bridge = peer[s].bridge /\ peer'[s].pc \in Spoken
            /\ peer'[s].pc = "done" => peer[s].pc = "done"
      BY <1>0, <1>4, ServeEffect DEF ServeMove, Spoken, Peer
    <2> QED BY <1>0, <1>4, <2>1, ServeEffect, ServeSpeakers, SpeakersKept
  <1>5. ASSUME NEW p \in Peer, DetachStep(p) PROVE SpeakersKnown'
    <2>1. /\ heard' = heard
          /\ \A b \in Receiver : /\ bridge[b].cancelled => bridge'[b].cancelled
                                 /\ bridge'[b].toReceiver = bridge[b].toReceiver
      BY <1>0, <1>5, DetachEffect
    <2>2. \A s \in Sender : peer[s].pc \in Spoken =>
            /\ peer'[s].bridge = peer[s].bridge /\ peer'[s].pc \in Spoken
            /\ peer'[s].pc = "done" =>
                  peer[s].pc = "done" \/ bridge'[peer[s].bridge].cancelled
      BY <1>0, <1>5, DetachEffect DEF PeerMoves, Spoken, Peer
    <2> QED BY <1>0, <2>1, <2>2, SpeakersKept, SameSpeakers
  <1> QED BY <1>1, <1>2, <1>3, <1>4, <1>5, Kinds

\* A step loses no bridge that forwards if it keeps the records of the sessions.
LEMMA ReachableKept ==
  ASSUME LiveBridgeIsReachable,
         \A b \in Receiver : bridge'[b].made /\ ~bridge'[b].cancelled =>
            bridge[b].made /\ ~bridge[b].cancelled,
         UNCHANGED <<sessions, record>>
  PROVE  LiveBridgeIsReachable'
  BY DEF LiveBridgeIsReachable

\* The removal of a session cancels the bridge that can no longer be reached.
LEMMA ReachableExpire ==
  ASSUME TypeOK, LiveBridgeIsReachable, NEW i \in Id, sessions[i] # None,
         bridge' = Cancelled({record[sessions[i]].active}),
         \A j \in Id \ {i} : sessions'[j] = sessions[j],
         \A h \in Registration : h # sessions[i] /\ (\E j \in Id : sessions[j] = h) =>
            record'[h].active = record[h].active
  PROVE  LiveBridgeIsReachable'
  <1> SUFFICES ASSUME NEW b \in Receiver, bridge'[b].made, ~bridge'[b].cancelled
               PROVE  \E j \in Id : sessions'[j] # None /\ record'[sessions'[j]].active = b
    BY DEF LiveBridgeIsReachable
  <1>1. bridge[b].made /\ ~bridge[b].cancelled /\ b # record[sessions[i]].active
    BY CancelledBridges DEF TypeOK
  <1>2. PICK j \in Id : sessions[j] # None /\ record[sessions[j]].active = b
    BY <1>1 DEF LiveBridgeIsReachable
  <1>3. j # i /\ sessions[j] # sessions[i] /\ sessions[j] \in Registration
    BY <1>1, <1>2 DEF TypeOK
  <1> QED BY <1>2, <1>3

\* Every step keeps the bridges that forward in reach.
LEMMA ReachableStep == RelayInv /\ Next => LiveBridgeIsReachable'
  <1> SUFFICES ASSUME RelayInv, Next PROVE LiveBridgeIsReachable'
    OBVIOUS
  <1>0. TypeOK /\ RecordsTimed /\ PeersBridged /\ LiveBridgeIsReachable
    BY DEF RelayInv
  <1>1. ASSUME BridgesAged, UNCHANGED <<sessions, record>> PROVE LiveBridgeIsReachable'
    BY <1>0, <1>1, ReachableKept DEF BridgesAged
  <1>2. CASE Tick \/ \E g \in Registration : RegisterStart(g) \/ RegisterExisting(g)
    BY <1>0, <1>1, <1>2, RequestEffect
       DEF RequestStep, Tick, RegisterStart, RegisterExisting
  <1>3. ASSUME NEW g \in Registration, RegisterNew(g) PROVE LiveBridgeIsReachable'
    <2>1. request[g].id \in Id /\ \A j \in Id : sessions[j] # g
      BY <1>0, <1>3 DEF RecordsTimed, RegisterNew
    <2>2. \A j \in Id \ {request[g].id} : sessions'[j] = sessions[j]
      BY <1>0, <1>3 DEF RegisterNew, TypeOK
    <2>3. \A h \in Registration \ {g} :
             h # sessions[request[g].id] => record'[h].active = record[h].active
      BY <1>0, <1>3, RegisterRecords
    <2>4. CASE sessions[request[g].id] # None
      BY <1>0, <1>3, <2>1, <2>2, <2>3, <2>4, ReachableExpire DEF RegisterNew
    <2>5. CASE sessions[request[g].id] = None
      <3>1. bridge' = bridge
        BY <1>3, <2>5 DEF RegisterNew
      <3> QED BY <1>0, <2>1, <2>2, <2>3, <2>5, <3>1 DEF LiveBridgeIsReachable, TypeOK
    <2> QED BY <2>4, <2>5
  <1>4. ASSUME NEW g \in Registration, TimerFires(g) \/ Expire(g) PROVE LiveBridgeIsReachable'
    <2>1. \A h \in Registration : h # g => record'[h].active = record[h].active
      BY <1>0, <1>4, TimerRecords
    <2>2. CASE Expire(g) /\ sessions[record[g].id] = g
      <3>1. record[g].id \in Id /\ sessions[record[g].id] # None
        BY <1>0, <2>2, RelayAssumption DEF RecordsTimed, Expire
      <3>2. /\ bridge' = Cancelled({record[g].active})
            /\ \A j \in Id \ {record[g].id} : sessions'[j] = sessions[j]
        BY <1>0, <2>2 DEF Expire, TypeOK
      <3> QED BY <1>0, <2>1, <2>2, <3>1, <3>2, ReachableExpire
    <2>3. CASE TimerFires(g) \/ sessions[record[g].id] # g
      <3>1. bridge' = bridge /\ sessions' = sessions
        BY <1>4, <2>3 DEF Expire, TimerFires
      <3>2. record'[g].active = record[g].active
        BY <1>0, <1>4, <2>3, TimerRecords DEF TimerFires
      <3> QED BY <1>0, <2>1, <3>1, <3>2 DEF LiveBridgeIsReachable, TypeOK
    <2> QED BY <1>4, <2>2, <2>3
  <1>5. ASSUME NEW p \in Peer, RefuseStep(p) PROVE LiveBridgeIsReachable'
    <2>1. CASE AttachExpired(p)
      <3>1. PICK i \in Id : IF sessions[i] = None THEN UNCHANGED <<sessions, record, bridge>>
                                                  ELSE ExpireLocked(i, sessions[i])
        BY <2>1 DEF AttachExpired
      <3>2. CASE sessions[i] = None
        BY <1>0, <3>1, <3>2, ReachableKept
      <3>3. CASE sessions[i] # None
        <4>1. \A h \in Registration : h # sessions[i] => record'[h].active = record[h].active
          BY <1>0, <3>1, <3>3, ExpireRecords
        <4>2. /\ bridge' = Cancelled({record[sessions[i]].active})
              /\ \A j \in Id \ {i} : sessions'[j] = sessions[j]
          BY <1>0, <3>1, <3>3 DEF ExpireLocked, TypeOK
        <4> QED BY <1>0, <3>3, <4>1, <4>2, ReachableExpire
      <3> QED BY <3>2, <3>3
    <2>2. CASE ~AttachExpired(p)
      BY <1>0, <1>1, <1>5, <2>2, RefusedEffect
         DEF RefuseStep, AttachReceiverRefused, AttachSenderRefused
    <2> QED BY <2>1, <2>2
  <1>6. ASSUME NEW p \in Peer, AttachStep(p) PROVE LiveBridgeIsReachable'
    <2>1. CASE p \in Receiver /\ AttachReceiver(p)
      <3>1. PICK i \in Id : /\ Live(i) /\ record[sessions[i]].active = None
                            /\ record' = [record EXCEPT ![sessions[i]].active = p]
        BY <2>1 DEF AttachReceiver
      <3>2. sessions' = sessions /\ sessions[i] \in Registration
        BY <1>0, <2>1, <3>1 DEF AttachReceiver, TypeOK, Live
      <3>3. \A h \in Registration :
               record'[h].active = IF h = sessions[i] THEN p ELSE record[h].active
        BY <1>0, <2>1, <3>1, ActiveStep DEF TypeOK
      <3>4. \A b \in Receiver : /\ bridge'[b].cancelled <=> bridge[b].cancelled
                                /\ b # p => (bridge'[b].made <=> bridge[b].made)
        BY <1>0, <2>1, MadeStep DEF TypeOK, AttachReceiver
      <3> QED BY <1>0, <3>1, <3>2, <3>3, <3>4, RelayAssumption
              DEF LiveBridgeIsReachable, TypeOK, Live
    <2>2. CASE p \in Sender /\ AttachSender(p)
      BY <1>0, <1>6, <2>2, AttachEffect, ReachableKept DEF AttachSender
    <2> QED BY <1>6, <2>1, <2>2 DEF AttachStep
  <1>7. ASSUME NEW p \in Peer, ServeStep(p) PROVE LiveBridgeIsReachable'
    <2>1. SessionsKept
      BY <1>7, KeepsSessions
    <2> QED BY <1>0, <1>7, <2>1, ServeEffect, ReachableKept DEF SessionsKept
  <1>8. ASSUME NEW p \in Peer, DetachStep(p) PROVE LiveBridgeIsReachable'
    <2>1. CASE p \in Receiver /\ DetachReceiver(p)
      <3>1. \A h \in Registration : \/ record'[h].active = record[h].active
                                    \/ record[h].active = peer[p].bridge
        BY <1>0, <2>1, ActiveStep DEF TypeOK, DetachReceiver
      <3>2. sessions' = sessions /\ bridge' = Cancelled({peer[p].bridge})
        BY <2>1 DEF DetachReceiver
      <3>3. \A b \in Receiver : bridge'[b].made /\ ~bridge'[b].cancelled =>
               bridge[b].made /\ ~bridge[b].cancelled /\ b # peer[p].bridge
        BY <1>0, <3>2, CancelledBridges DEF TypeOK
      <3> QED BY <1>0, <3>1, <3>2, <3>3 DEF LiveBridgeIsReachable, TypeOK
    <2>2. CASE p \in Sender /\ (DetachSender(p) \/ CancelBridge(p))
      BY <1>0, <1>8, <2>2, DetachEffect, ReachableKept DEF DetachSender, CancelBridge
    <2> QED BY <1>8, <2>1, <2>2 DEF DetachStep
  <1> QED BY <1>2, <1>3, <1>4, <1>5, <1>6, <1>7, <1>8, Kinds DEF RequestStep

-----------------------------------------------------------------------------
\* The theorems.

\* A session that leaves the map in a step is past its deadline.
LEMMA KeptStep ==
  ASSUME RelayInv, Next, NEW i \in Id, sessions[i] # None, sessions'[i] # sessions[i]
  PROVE  Expired(sessions[i])
  <1>0. /\ TypeOK /\ RecordsTimed /\ sessions[i] \in Registration /\ now \in Nat
        /\ \A g \in Registration : record[g].expiresAt \in Nat /\ record[g].fireAt \in Nat
        /\ \A g \in Registration : request[g].now \in Nat
    BY DEF RelayInv, TypeOK, RecordType, RequestType
  <1>1. ASSUME NEW g \in Registration, RegisterNew(g) PROVE Expired(sessions[i])
    <2>1. i = request[g].id /\ request[g].now <= now
          /\ request[g].now >= record[sessions[i]].expiresAt
      BY <1>0, <1>1 DEF RegisterNew, RecordsTimed, TypeOK
    <2> QED BY <1>0, <2>1 DEF Expired
  <1>2. ASSUME NEW g \in Registration, Expire(g) PROVE Expired(sessions[i])
    <2>1. sessions[i] = g /\ now >= record[g].fireAt /\ record[g].expiresAt <= record[g].fireAt
      BY <1>0, <1>2 DEF Expire, RecordsTimed, TypeOK
    <2> QED BY <1>0, <2>1 DEF Expired
  <1>3. ASSUME NEW p \in Peer, AttachExpired(p) PROVE Expired(sessions[i])
    BY <1>0, <1>3 DEF AttachExpired, ExpireLocked, TypeOK
  <1>4. ASSUME sessions' = sessions PROVE Expired(sessions[i])
    BY <1>4
  <1>5. CASE SessionsKept
    BY <1>4, <1>5 DEF SessionsKept
  <1> QED BY <1>1, <1>2, <1>3, <1>4, <1>5, KeepsSessions
          DEF Next, ServeStep, Tick, RegisterStart, RegisterExisting, TimerFires, AttachReceiver,
              DetachReceiver

\* RelayInv holds in every reachable state of the relay.
THEOREM RelayInvariant == Spec => []RelayInv
  <1>1. Init => RelayInv
    <2> SUFFICES ASSUME Init PROVE RelayInv
      OBVIOUS
    <2>1. TypeOK
      BY RelayAssumption DEF Init, TypeOK, RecordType, RequestType, BridgeType, PeerType, PeerPC,
                             NoRecord, Reply, NoBridge, NoPeer
    <2>2. RecordsTimed
      BY RelayAssumption DEF Init, RecordsTimed, NoRecord, Reply
    <2>3. PeersBridged
      BY DEF Init, PeersBridged, Serving, NoPeer, Peer
    <2>4. LiveBridgeIsReachable /\ OneSenderAtATime
      BY DEF Init, LiveBridgeIsReachable, OneSenderAtATime, Attached, NoBridge, NoPeer, Peer
    <2>5. SpeakersKnown
      BY DEF Init, SpeakersKnown, Speakers, NoBridge
    <2> QED BY <2>1, <2>2, <2>3, <2>4, <2>5 DEF RelayInv
  <1>2. RelayInv /\ [Next]_vars => RelayInv'
    <2>1. CASE Next
      BY <2>1, TypeStep, TimedStep, BridgedStep, OneSenderStep, SpeakersStep, ReachableStep
         DEF RelayInv
    <2>2. CASE UNCHANGED vars
      BY <2>2 DEF vars, RelayInv, TypeOK, RecordsTimed, PeersBridged, LiveBridgeIsReachable,
                  OneSenderAtATime, Attached, SpeakersKnown, Speakers
    <2> QED BY <2>1, <2>2
  <1> QED BY <1>1, <1>2, PTL DEF Spec

\* A bridge that forwards messages is the one its session has, for any number of
\* registrations, reconnections and expiries in any order (detachReceiver, expire).
THEOREM BridgesReachable == Spec => []LiveBridgeIsReachable
  BY RelayInvariant, PTL DEF RelayInv

\* A bridge has at most one sender and its flag says whether it has one (attachSender,
\* detachSender).
THEOREM OneSender == Spec => []OneSenderAtATime
  BY RelayInvariant, PTL DEF RelayInv

\* A receiver hears a second sender only when its bridge is cancelled or the next step of
\* the first sender's handler cancels it.
THEOREM SecondSender == Spec => []SecondSenderIsDoomed
  <1>1. RelayInv => SecondSenderIsDoomed
    <2> SUFFICES ASSUME RelayInv, NEW b \in Receiver, NEW s \in heard[b], NEW t \in heard[b],
                        s # t
                 PROVE  \/ bridge[b].cancelled
                        \/ \E u \in Sender : peer[u].bridge = b /\ peer[u].pc = "cancel"
      BY DEF SecondSenderIsDoomed
    <2>1. s \in Speakers(b) /\ t \in Speakers(b)
      BY DEF Speakers
    <2>2. ~(Attached(s, b) /\ Attached(t, b))
      BY <2>1 DEF RelayInv, OneSenderAtATime, SpeakersKnown
    <2> QED BY <2>1, <2>2 DEF RelayInv, SpeakersKnown, Attached
  <1> QED BY <1>1, RelayInvariant, PTL

\* A session leaves the map only after its lifetime (register, expire, attachReceiver and
\* attachSender).
THEOREM SessionsKeptUntilExpiry == Spec => KeptUntilExpiry
  <1>1. RelayInv /\ [Next]_vars =>
           [\A i \in Id : sessions[i] # None /\ sessions'[i] # sessions[i]
                          => Expired(sessions[i])]_vars
    BY KeptStep
  <1> QED BY <1>1, RelayInvariant, PTL DEF Spec, KeptUntilExpiry
=============================================================================
