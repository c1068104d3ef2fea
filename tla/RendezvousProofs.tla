--------------------------- MODULE RendezvousProofs ---------------------------
(***************************************************************************)
(* Proofs about the session object of the receiver and about the way a     *)
(* page finds the receiver, for every base URL, host, session id, secret,  *)
(* lifetime and clock width.                                               *)
(***************************************************************************)
EXTENDS Rendezvous, SequenceTheorems, WellFoundedInduction, TLAPS

-----------------------------------------------------------------------------
\* The session object.

\* A session is typed; a live one has both credentials, one that is over has neither.
SessionInv ==
    /\ session \in SO!Session /\ now \in 0 .. ClockMax
    /\ session.state \in SO!Live => session.token \in Token /\ session.receiver_secret \in Secret
    /\ session.state \notin SO!Live => session.token = Zeroed /\ session.receiver_secret = Zeroed

\* What the calls that wipe the credentials leave behind.
Wiped(s) == s.state \notin SO!Live /\ s.token = Zeroed /\ s.receiver_secret = Zeroed

\* pd_receiver_session_reset
LEMMA ResetWipes == SO!Reset \in SO!Session /\ Wiped(SO!Reset) /\ SO!Reset.state = "INACTIVE"
  BY RendezvousAssumption DEF SO!Reset, SO!Session, SO!Live, Wiped

\* pd_receiver_session_expire_if_due
LEMMA ExpiredWipes ==
  ASSUME NEW s \in SO!Session
  PROVE  SO!Expired(s) \in SO!Session /\ Wiped(SO!Expired(s)) /\ SO!Expired(s).state = "EXPIRED"
  BY DEF SO!Expired, SO!ClearCredentials, SO!Session, SO!Live, Wiped

\* pd_receiver_session_close
LEMMA ClosedWipes ==
  ASSUME NEW s \in SO!Session, s.state = "INACTIVE" => Wiped(s)
  PROVE  /\ SO!Closed(s) \in SO!Session /\ Wiped(SO!Closed(s))
         /\ SO!Closed(s).state \in {"INACTIVE", "CLOSED"}
         /\ SO!Closed(s).state = "INACTIVE" => SO!Closed(s) = s
  BY DEF SO!Closed, SO!ClearCredentials, SO!Session, SO!Live, Wiped

\* pd_receiver_session_create: the deadline is not wrapped around the end of the clock.
LEMMA FilledLasts ==
  ASSUME NEW t \in 0 .. ClockMax, NEW ttl \in Ttl \ {0}, ~SO!Overflows(t, ttl),
         NEW tok \in Token, NEW sec \in Secret
  PROVE  LET s == SO!Filled(t, ttl, tok, sec)
         IN  /\ s \in SO!Session /\ s.state = "WAITING"
             /\ s.token = tok /\ s.receiver_secret = sec
             /\ s.created_at = t /\ s.expires_at - t = ttl
  <1>1. ClockMax \in Nat /\ t \in Nat /\ ttl \in Nat /\ t + ttl \in Nat
    BY RendezvousAssumption
  <1>2. t + ttl < ClockMax + 1
    BY <1>1 DEF SO!Overflows
  <1>3. (t + ttl) % (ClockMax + 1) = t + ttl
    BY <1>1, <1>2
  <1>4. t + ttl \in 0 .. ClockMax /\ (t + ttl) - t = ttl
    BY <1>1, <1>2
  <1> QED BY <1>1, <1>3, <1>4 DEF SO!Filled, SO!Session, SO!Live

\* What a step may make of the session: nothing, a wiped one, a fresh one with its whole
\* lifetime ahead, or one that waited and was in time.
SessionStep ==
    \/ session' = session
    \/ session' \in SO!Session /\ Wiped(session')
    \/ /\ session' \in SO!Session /\ session'.state = "WAITING"
       /\ session'.token \in Token /\ session'.receiver_secret \in Secret
       /\ session'.created_at = now /\ session'.expires_at - now \in Ttl \ {0}
    \/ /\ session.state = "WAITING" /\ now < session.expires_at
       /\ session' = [session EXCEPT !.state = "TRANSFERRING"]

\* A call of the library.
LEMMA CallSteps == SessionInv /\ SO!Call => SessionStep
  <1> SUFFICES ASSUME SessionInv, SO!Call PROVE SessionStep
    OBVIOUS
  <1>1. session \in SO!Session /\ now \in 0 .. ClockMax /\ now \in Nat
    BY RendezvousAssumption DEF SessionInv
  <1>2. session.state = "INACTIVE" => Wiped(session)
    BY DEF SessionInv, Wiped, SO!Live
  <1>3. ASSUME NEW ttl \in Ttl, SO!Create(ttl) PROVE SessionStep
    <2>1. CASE session' = session
      BY <2>1 DEF SessionStep
    <2>2. CASE session' = SO!Reset
      BY <2>2, ResetWipes DEF SessionStep
    <2>3. CASE /\ ttl # 0 /\ ~SO!Overflows(now, ttl)
               /\ \E tok \in Token, sec \in Secret : session' = SO!Filled(now, ttl, tok, sec)
      <3>1. PICK tok \in Token, sec \in Secret : session' = SO!Filled(now, ttl, tok, sec)
        BY <2>3
      <3>2. ttl \in Ttl \ {0} /\ ~SO!Overflows(now, ttl)
        BY <2>3
      <3>3. /\ session' \in SO!Session /\ session'.state = "WAITING"
            /\ session'.token = tok /\ session'.receiver_secret = sec
            /\ session'.created_at = now /\ session'.expires_at - now = ttl
        BY <1>1, <3>1, <3>2, FilledLasts
      <3> QED BY <3>2, <3>3 DEF SessionStep
    <2> QED BY <1>3, <2>1, <2>2, <2>3 DEF SO!Create
  <1>4. SO!ExpireIfDue => SessionStep
    BY <1>1, ExpiredWipes DEF SO!ExpireIfDue, SessionStep
  <1>5. ASSUME NEW candidate, SO!BeginTransfer(candidate) PROVE SessionStep
    <2>1. session.state = "WAITING" /\ ~SO!Due(session, now) => now < session.expires_at
      BY <1>1, RendezvousAssumption DEF SO!Due, SO!Live, SO!Session
    <2> QED BY <1>1, <1>5, <2>1, ExpiredWipes DEF SO!BeginTransfer, SessionStep
  <1>6. SO!Close => SessionStep
    BY <1>1, <1>2, ClosedWipes DEF SO!Close, SessionStep
  <1> QED BY <1>3, <1>4, <1>5, <1>6 DEF SO!Call

\* The window prepares a session, or fails to.
LEMMA PrepareSteps == SessionInv /\ Prepare => SessionStep
  <1> SUFFICES ASSUME SessionInv, Prepare PROVE SessionStep
    OBVIOUS
  <1>1. session \in SO!Session /\ now \in 0 .. ClockMax /\ SessionTtl \in Ttl \ {0}
    BY RendezvousAssumption DEF SessionInv
  <1>2. CASE NoSession
    BY <1>2, ResetWipes DEF NoSession, SessionStep
  <1>3. CASE PrepareWith(relay_base')
    <2>1. PICK tok \in Token \ {page.id}, sec \in Secret :
             /\ ~SO!Overflows(now, SessionTtl)
             /\ session' \in {SO!Filled(now, SessionTtl, tok, sec),
                              SO!Closed(SO!Filled(now, SessionTtl, tok, sec))}
      BY <1>3 DEF PrepareWith
    <2> DEFINE made == SO!Filled(now, SessionTtl, tok, sec)
    <2>2. /\ made \in SO!Session /\ made.state = "WAITING"
          /\ made.token = tok /\ made.receiver_secret = sec
          /\ made.created_at = now /\ made.expires_at - now = SessionTtl
      BY <1>1, <2>1, FilledLasts
    <2> HIDE DEF made
    <2>3. SO!Closed(made) \in SO!Session /\ Wiped(SO!Closed(made))
      BY <2>2, ClosedWipes
    <2>4. session' \in {made, SO!Closed(made)}
      BY <2>1 DEF made
    <2> QED BY <1>1, <2>2, <2>3, <2>4 DEF SessionStep
  <1>4. CASE session' = session
    BY <1>4 DEF SessionStep
  <1> QED BY <1>2, <1>3, <1>4 DEF Prepare

\* Every step.
LEMMA SessionSteps == SessionInv /\ [Next]_vars => SessionStep /\ now' \in 0 .. ClockMax
  <1> SUFFICES ASSUME SessionInv, [Next]_vars PROVE SessionStep /\ now' \in 0 .. ClockMax
    OBVIOUS
  <1>1. session \in SO!Session /\ now \in 0 .. ClockMax /\ ClockMax \in Nat
    BY RendezvousAssumption DEF SessionInv
  <1>2. SO!Closed(session) \in SO!Session /\ Wiped(SO!Closed(session))
    BY <1>1, ClosedWipes DEF SessionInv, Wiped, SO!Live
  <1>3. ASSUME session' \in {session, SO!Closed(session)}, now' = now
        PROVE  SessionStep /\ now' \in 0 .. ClockMax
    BY <1>1, <1>2, <1>3 DEF SessionStep
  <1>4. CASE Worker
    BY <1>3, <1>4 DEF Worker, Run, RegisterRefused, Register, ClientInit, Connect, Return,
                      ReturnClosed, windowVars
  <1>5. CASE LoopReturns \/ RelayExpires \/ Scan \/ Join \/ UNCHANGED vars
    BY <1>3, <1>5 DEF LoopReturns, RelayExpires, Scan, Join, windowVars, phoneVars, sessionVars,
                      vars
  <1>6. CASE Prepare
    BY <1>1, <1>6, PrepareSteps DEF Prepare
  <1>7. CASE Library
    BY <1>1, <1>7, CallSteps DEF Library, SO!Call
  <1>8. CASE Clock
    <2>1. session' = session /\ now < ClockMax /\ now' = now + 1
      BY <1>8 DEF Clock, SO!Tick
    <2> QED BY <1>1, <2>1 DEF SessionStep
  <1> QED BY <1>4, <1>5, <1>6, <1>7, <1>8 DEF Next

\* The inductive invariant of the session object.
THEOREM SessionInvariant == Spec => []SessionInv
  <1>1. Init => SessionInv
    BY RendezvousAssumption, ResetWipes DEF Init, SO!SessionInit, SessionInv, Wiped
  <1>2. SessionInv /\ [Next]_vars => SessionInv'
    <2> SUFFICES ASSUME SessionInv, [Next]_vars PROVE SessionInv'
      OBVIOUS
    <2>1. SessionStep /\ now' \in 0 .. ClockMax
      BY SessionSteps
    <2>2. CASE session' = session
      BY <2>1, <2>2 DEF SessionInv
    <2>3. CASE session' \in SO!Session /\ Wiped(session')
      BY <2>1, <2>3 DEF SessionInv, Wiped
    <2>4. CASE /\ session' \in SO!Session /\ session'.state = "WAITING"
               /\ session'.token \in Token /\ session'.receiver_secret \in Secret
      BY <2>1, <2>4 DEF SessionInv, SO!Live
    <2>5. CASE session.state = "WAITING" /\ session' = [session EXCEPT !.state = "TRANSFERRING"]
      BY <2>1, <2>5 DEF SessionInv, SO!Live, SO!Session
    <2> QED BY <2>1, <2>2, <2>3, <2>4, <2>5 DEF SessionStep
  <1> QED BY <1>1, <1>2, PTL DEF Spec

\* No candidate matches a session that is over, and a live one has its credentials:
\* reset, expire_if_due and close wipe them on every path (receiver_session.c).
THEOREM OverIsUnmatched == Spec => []OverMatchesNothing
  <1>1. SessionInv => OverMatchesNothing
    BY RendezvousAssumption
       DEF SessionInv, OverMatchesNothing, SO!OverMatchesNothing, SO!TokenMatches, SO!SecretMatches
  <1> QED BY <1>1, SessionInvariant, PTL

\* No transfer begins at or after the deadline, and every session that comes to wait has
\* its whole lifetime ahead, at every value of the clock (pd_receiver_session_create,
\* pd_receiver_session_begin_transfer).
THEOREM TransfersAreInTime == Spec => NoLateTransfer
  <1>1. SessionInv /\ [Next]_vars =>
           [/\ session'.state = "TRANSFERRING"
                 => session.state = "WAITING" /\ now < session.expires_at
            /\ session'.state = "WAITING"
                 => session'.created_at = now /\ session'.expires_at - now \in Ttl \ {0}
           ]_session
    <2> SUFFICES ASSUME SessionInv, [Next]_vars, session' # session
                 PROVE  /\ session'.state = "TRANSFERRING"
                             => session.state = "WAITING" /\ now < session.expires_at
                        /\ session'.state = "WAITING"
                             => session'.created_at = now /\ session'.expires_at - now \in Ttl \ {0}
      OBVIOUS
    <2>1. SessionStep
      BY SessionSteps
    <2>2. CASE Wiped(session')
      BY <2>2 DEF Wiped, SO!Live
    <2>3. CASE /\ session'.state = "WAITING"
               /\ session'.created_at = now /\ session'.expires_at - now \in Ttl \ {0}
      BY <2>3
    <2>4. CASE /\ session.state = "WAITING" /\ now < session.expires_at
               /\ session' = [session EXCEPT !.state = "TRANSFERRING"]
      BY <2>4 DEF SessionInv, SO!Session
    <2> QED BY <2>1, <2>2, <2>3, <2>4 DEF SessionStep
  <1> QED BY <1>1, SessionInvariant, PTL DEF Spec, NoLateTransfer, SO!NoLateTransfer

-----------------------------------------------------------------------------
\* Addresses.

\* A set of natural numbers that has a member has a least one.
LEMMA LeastMember ==
  ASSUME NEW S \in SUBSET Nat, S # {}
  PROVE  Min(S) \in S /\ \A y \in S : Min(S) <= y
  <1> DEFINE Below == {pair \in Nat \X Nat : pair[1] < pair[2]}
  <1>1. IsWellFoundedOn(Below, Nat)
    BY NatLessThanWellFounded, Zenon DEF OpToRel
  <1>2. \E x \in S : \A y \in S : ~(<<y, x>> \in Below)
    <2> HIDE DEF Below
    <2> QED BY <1>1, WFMin
  <1>3. \E x \in S : \A y \in S : x <= y
    <2>1. \A x, y \in Nat : ~(<<y, x>> \in Below) => x <= y
      OBVIOUS
    <2> HIDE DEF Below
    <2> QED BY <1>2, <2>1
  <1> QED BY <1>3 DEF Min

\* Trimmed keeps a beginning of the text that ends, unless it is as short as it may be,
\* with another token than a slash.
LEMMA TrimmedKeeps ==
  ASSUME NEW S, NEW text \in Seq(S), NEW n \in 0 .. Len(text)
  PROVE  \E k \in n .. Len(text) :
            /\ Trimmed(text, n) = SubSeq(text, 1, k)
            /\ \A i \in k + 1 .. Len(text) : text[i] = "/"
            /\ k = n \/ text[k] # "/"
  <1> DEFINE K == {k \in n .. Len(text) : \A i \in k + 1 .. Len(text) : text[i] = "/"}
             k == Min(K)
  <1>1. Len(text) \in Nat /\ n \in Nat
    OBVIOUS
  <1>2. K \in SUBSET Nat /\ Len(text) \in K
    BY <1>1
  <1>3. k \in K /\ \A y \in K : k <= y
    <2> HIDE DEF K
    <2> QED BY <1>2, LeastMember
  <1>4. k = n \/ text[k] # "/"
    <2> SUFFICES ASSUME k # n, text[k] = "/" PROVE FALSE
      OBVIOUS
    <2> HIDE DEF k
    <2>1. k \in n .. Len(text) /\ k - 1 \in n .. Len(text)
      BY <1>1, <1>3
    <2>2. \A i \in (k - 1) + 1 .. Len(text) : i = k \/ i \in k + 1 .. Len(text)
      BY <1>1, <2>1
    <2>3. k - 1 \in K
      BY <1>3, <2>1, <2>2
    <2>4. k <= k - 1
      <3> HIDE DEF K
      <3> QED BY <1>3, <2>3
    <2> QED BY <1>1, <2>1, <2>4
  <1> QED BY <1>3, <1>4 DEF Trimmed

\* It is the only such beginning.
LEMMA TrimmedIs ==
  ASSUME NEW S, NEW text \in Seq(S), NEW n \in 0 .. Len(text), NEW k \in n .. Len(text),
         \A i \in k + 1 .. Len(text) : text[i] = "/", k = n \/ text[k] # "/"
  PROVE  Trimmed(text, n) = SubSeq(text, 1, k)
  <1>1. PICK j \in n .. Len(text) : /\ Trimmed(text, n) = SubSeq(text, 1, j)
                                    /\ \A i \in j + 1 .. Len(text) : text[i] = "/"
                                    /\ j = n \/ text[j] # "/"
    BY TrimmedKeeps
  <1>2. Len(text) \in Nat /\ n \in Nat /\ k \in Nat /\ j \in Nat
    OBVIOUS
  <1>3. j = k
    BY <1>1, <1>2
  <1> QED BY <1>1, <1>3

\* What it means to begin with a scheme.
LEMMA StartsMeans ==
  ASSUME NEW S, NEW text \in Seq(S), NEW w
  PROVE  Starts(text, <<w, "/", "/">>) <=>
            Len(text) > 3 /\ text[1] = w /\ text[2] = "/" /\ text[3] = "/"
  <1> DEFINE p == <<w, "/", "/">>
  <1>1. p \in Seq({w, "/"}) /\ Len(p) = 3 /\ p[1] = w /\ p[2] = "/" /\ p[3] = "/"
    OBVIOUS
  <1> HIDE DEF p
  <1>2. SubSeq(p, 1, 3) = p
    BY <1>1, SubSeqFull
  <1>3. CASE Len(text) > 3
    <2>1. SubSeq(text, 1, 3) \in Seq(S) /\ Len(SubSeq(text, 1, 3)) = 3
      BY <1>3, SubSeqProperties
    <2>2. \A i \in 1 .. 3 : SubSeq(text, 1, 3)[i] = text[i]
      BY <1>3, SubSeqProperties
    <2>3. SubSeq(text, 1, 3) = p <=> \A i \in 1 .. 3 : SubSeq(text, 1, 3)[i] = p[i]
      BY <1>1, <2>1, SeqEqual
    <2>4. SubSeq(text, 1, 3) = p <=> text[1] = w /\ text[2] = "/" /\ text[3] = "/"
      <3>1. 1 .. 3 = {1, 2, 3}
        OBVIOUS
      <3> HIDE DEF p
      <3> QED BY <1>1, <2>2, <2>3, <3>1
    <2>5. Starts(text, p) <=> SubSeq(text, 1, 3) = p
      BY <1>1, <1>2, <1>3 DEF Starts, IsPrefix
    <2> QED BY <1>3, <2>4, <2>5 DEF p
  <1>4. CASE ~(Len(text) > 3)
    BY <1>1, <1>4 DEF Starts, p
  <1> QED BY <1>3, <1>4

\* The endpoint of the registration begins as the base URL does.
LEMMA EndpointScheme ==
  ASSUME NEW b \in Text, BuildEndpoint(b) # <<>>
  PROVE  /\ Starts(b, Https) \/ Starts(b, Http)
         /\ Starts(b, Https) => BuildEndpoint(b)[1] = "https"
  <1> DEFINE n == IF Starts(b, Https) THEN Len(Https)
                  ELSE IF Starts(b, Http) THEN Len(Http) ELSE 0
             trimmed == Trimmed(b, n)
  <1>1. n # 0 /\ Len(trimmed) > n /\ BuildEndpoint(b) = trimmed \o Sessions
    BY DEF BuildEndpoint
  <1>2. Starts(b, Https) \/ Starts(b, Http)
    BY <1>1
  <1>3. Len(Https) = 3 /\ Len(Http) = 3
    BY DEF Https, Http
  <1>4. ASSUME Starts(b, Https) PROVE BuildEndpoint(b)[1] = "https"
    <2>1. PICK S : b \in Seq(S)
      BY DEF Text
    <2>2. n = 3 /\ Len(b) > 3 /\ b[1] = "https"
      BY <1>3, <1>4, <2>1, StartsMeans DEF Https
    <2> HIDE DEF n
    <2>3. PICK k \in 3 .. Len(b) : trimmed = SubSeq(b, 1, k)
      BY <2>1, <2>2, TrimmedKeeps
    <2>4. trimmed \in Seq(S) /\ Len(trimmed) = k /\ trimmed[1] = b[1]
      BY <2>1, <2>2, <2>3, SubSeqProperties
    <2> HIDE DEF trimmed
    <2>5. Sessions \in Seq({"/", "v1", "sessions"})
      BY DEF Sessions
    <2>6. (trimmed \o Sessions)[1] = trimmed[1]
      BY <2>2, <2>4, <2>5, ConcatProperties
    <2> QED BY <1>1, <2>2, <2>4, <2>6
  <1> QED BY <1>2, <1>4

\* The URL of the receiver's client, where plain WebSocket is not allowed.
LEMMA AllowedIsSecure ==
  ASSUME NEW S, NEW url \in Seq(S), UrlAllowed(url, opt_in), opt_in # "1"
  PROVE  url[1] = "wss"
  BY StartsMeans DEF UrlAllowed, Wss

\* A text is a sequence of these.
TextToken == Host \cup DOMAIN Word \cup Token \cup {"/", "?", "#"}

Mark == {"?", "#"}

\* The base URLs a receiver can come to listen with: an origin and nothing behind it
\* but slashes.
Origin(b) ==
    /\ b \in Text /\ Len(b) >= 4
    /\ b[1] \in {"https", "http"} /\ b[2] = "/" /\ b[3] = "/" /\ b[4] \in Host
    /\ \A i \in 5 .. Len(b) : b[i] = "/"

\* The words of the addresses are tokens, and none is a mark.
LEMMA Words ==
  /\ Text = Seq(TextToken)
  /\ {"https", "http", "wss", "ws", "v1", "receiver", "sender", "s", "/"} \subseteq TextToken
  /\ Token \subseteq TextToken /\ Host \subseteq TextToken
  /\ {"https", "http", "wss", "ws", "v1", "receiver", "sender", "s", "/"} \cap Mark = {}
  /\ Token \cap Mark = {} /\ Host \cap Mark = {} /\ "/" \notin Token /\ "/" \notin Host
  BY RendezvousAssumption DEF Text, TextToken, Word, Mark

\* The token at a place of a concatenation.
LEMMA Joined ==
  ASSUME NEW S, NEW x \in Seq(S), NEW y \in Seq(S)
  PROVE  /\ x \o y \in Seq(S) /\ Len(x \o y) = Len(x) + Len(y)
         /\ \A i \in 1 .. Len(x) : (x \o y)[i] = x[i]
         /\ \A i \in 1 .. Len(y) : (x \o y)[Len(x) + i] = y[i]
  <1>1. Len(x) \in Nat /\ Len(y) \in Nat
    OBVIOUS
  <1>2. /\ x \o y \in Seq(S) /\ Len(x \o y) = Len(x) + Len(y)
        /\ \A i \in 1 .. Len(x) + Len(y) : (x \o y)[i] = IF i <= Len(x) THEN x[i] ELSE y[i - Len(x)]
    BY ConcatProperties
  <1>3. \A i \in 1 .. Len(x) : i \in 1 .. Len(x) + Len(y) /\ i <= Len(x)
    BY <1>1
  <1>4. \A i \in 1 .. Len(y) : /\ Len(x) + i \in 1 .. Len(x) + Len(y)
                               /\ ~(Len(x) + i <= Len(x)) /\ Len(x) + i - Len(x) = i
    BY <1>1
  <1> HIDE <1>1
  <1> QED BY <1>2, <1>3, <1>4

\* The path of a URL without a query or a fragment.
LEMMA PathUnmarked ==
  ASSUME NEW url, \A i \in 1 .. Len(url) : url[i] \notin Mark
  PROVE  PathOf(url) = SubSeq(url, 5, Len(url))
  <1>1. {i \in 1 .. Len(url) : url[i] \in {"?", "#"}} = {}
    BY DEF Mark
  <1>2. SelectInSeq(url, LAMBDA t : t \in {"?", "#"}) = 0
    BY <1>1 DEF SelectInSeq
  <1> QED BY <1>2 DEF PathOf

\* The id after one of the prefixes of the relay, at the end of a URL of 4 tokens
\* before it.
LEMMA IdOfUrl ==
  ASSUME NEW url \in Text, \A i \in 1 .. Len(url) : url[i] \notin Mark, Len(url) >= 4,
         NEW prefix \in Text
  PROVE  IdAfter(prefix, PathOf(url)) # None => Len(url) = Len(prefix) + 5
  <1>1. Len(url) \in Nat /\ Len(prefix) \in Nat
    BY DEF Text
  <1>2. PathOf(url) = SubSeq(url, 5, Len(url))
    BY PathUnmarked
  <1>3. Len(SubSeq(url, 5, Len(url))) = Len(url) - 4
    <2>1. \A i \in 5 .. Len(url) : url[i] \in TextToken
      BY Words, <1>1
    <2>2. 5 \in Int /\ Len(url) \in Int
      BY <1>1
    <2>3. Len(SubSeq(url, 5, Len(url))) = IF 5 <= Len(url) THEN Len(url) - 5 + 1 ELSE 0
      BY <2>1, <2>2, SubSeqProperties
    <2>4. CASE Len(url) = 4
      BY <2>3, <2>4
    <2>5. CASE Len(url) > 4
      BY <1>1, <2>3, <2>5
    <2> QED BY <1>1, <2>4, <2>5
  <1>4. IdAfter(prefix, PathOf(url)) # None => Len(PathOf(url)) = Len(prefix) + 1
    BY DEF IdAfter
  <1> QED BY <1>1, <1>2, <1>3, <1>4

\* The receiver's WebSocket URL, token by token: the scheme, the first k tokens of the
\* base URL after its scheme, and the path.
WsPath(url, b, id, k) ==
    /\ url \in Text /\ Len(url) = k + 6
    /\ b[1] \in {"https", "http"} /\ b[2] = "/" /\ b[3] = "/"
    /\ url[1] = (IF b[1] = "https" THEN "wss" ELSE "ws") /\ url[2] = "/" /\ url[3] = "/"
    /\ \A i \in 4 .. k : url[i] = b[i]
    /\ \A i \in 1 .. 6 : url[k + i] = Append(ReceiverAt, id)[i]
    /\ \A i \in k + 1 .. Len(b) : b[i] = "/"
    /\ \A i \in 1 .. Len(b) : b[i] \notin Mark

\* The path of a receiver has six tokens, the id last, and no mark.
LEMMA ReceiverPath ==
  ASSUME NEW id \in Token
  PROVE  LET tail == Append(ReceiverAt, id)
         IN  /\ tail \in Text /\ Len(tail) = 6 /\ tail[6] = id
             /\ \A i \in 1 .. 6 : tail[i] \notin Mark
  <1>1. ReceiverAt \in Seq(TextToken) /\ Len(ReceiverAt) = 5
    BY Words DEF ReceiverAt
  <1>2. id \in TextToken /\ id \notin Mark
    BY Words
  <1>3. /\ Append(ReceiverAt, id) \in Seq(TextToken)
        /\ Len(Append(ReceiverAt, id)) = 6 /\ Append(ReceiverAt, id)[6] = id
        /\ \A i \in 1 .. 5 : Append(ReceiverAt, id)[i] = ReceiverAt[i]
    <2>1. /\ Append(ReceiverAt, id) \in Seq(TextToken)
          /\ Len(Append(ReceiverAt, id)) = Len(ReceiverAt) + 1
          /\ \A i \in 1 .. Len(ReceiverAt) : Append(ReceiverAt, id)[i] = ReceiverAt[i]
          /\ Append(ReceiverAt, id)[Len(ReceiverAt) + 1] = id
      <3>1. ReceiverAt \in Seq(TextToken) /\ id \in TextToken
        BY <1>1, <1>2
      <3> QED BY <3>1
    <2> QED BY <1>1, <2>1
  <1>4. \A i \in 1 .. 5 : ReceiverAt[i] \notin Mark
    <2>1. 1 .. 5 = {1, 2, 3, 4, 5}
      OBVIOUS
    <2>2. "/" \notin Mark /\ "v1" \notin Mark /\ "receiver" \notin Mark
      BY Words
    <2> QED BY <2>1, <2>2 DEF ReceiverAt
  <1>5. \A i \in 1 .. 6 : i = 6 \/ i \in 1 .. 5
    OBVIOUS
  <1>6. \A i \in 1 .. 6 : Append(ReceiverAt, id)[i] \notin Mark
    BY <1>2, <1>3, <1>4, <1>5
  <1> QED BY <1>3, <1>6, Words

\* A URL that pd_build_ws_path accepts to build is such a URL, for some end of the base.
LEMMA WsPathIs ==
  ASSUME NEW b \in Text, NEW id \in Token, BuildWsPath(b, ReceiverAt, id) # <<>>
  PROVE  \E k \in 4 .. Len(b) : WsPath(BuildWsPath(b, ReceiverAt, id), b, id, k)
  <1> DEFINE scheme == NormalizedScheme(b)
             T == Trimmed(b, Len(scheme))
             head == IF scheme = Https THEN Wss ELSE Ws
             middle == From(T, Len(scheme) + 1)
             tail == Append(ReceiverAt, id)
             url == BuildWsPath(b, ReceiverAt, id)
  <1>1. scheme # <<>> /\ url = head \o middle \o tail
    BY DEF BuildWsPath
  <1>2. /\ (scheme = Https /\ Starts(b, Https)) \/ (scheme = Http /\ Starts(b, Http))
        /\ ~Marked(b) /\ Len(T) > Len(scheme)
    BY <1>1 DEF NormalizedScheme
  <1>3. Len(scheme) = 3
    BY <1>2 DEF Https, Http
  <1>4. b \in Seq(TextToken) /\ Len(b) \in Nat
    BY Words
  <1>5. /\ Len(b) > 3 /\ b[2] = "/" /\ b[3] = "/"
        /\ b[1] = IF scheme = Https THEN "https" ELSE "http"
    <2>1. Starts(b, Https) => Len(b) > 3 /\ b[1] = "https" /\ b[2] = "/" /\ b[3] = "/"
      BY <1>4, StartsMeans DEF Https
    <2>2. Starts(b, Http) => Len(b) > 3 /\ b[1] = "http" /\ b[2] = "/" /\ b[3] = "/"
      BY <1>4, StartsMeans DEF Http
    <2>3. Https # Http
      BY DEF Https, Http
    <2> QED BY <1>2, <2>1, <2>2, <2>3
  <1> HIDE DEF scheme
  <1>6. PICK k \in 3 .. Len(b) : /\ T = SubSeq(b, 1, k)
                                 /\ \A i \in k + 1 .. Len(b) : b[i] = "/"
    <2>1. T = Trimmed(b, 3) /\ 3 \in 0 .. Len(b)
      BY <1>3, <1>4, <1>5
    <2> HIDE DEF T
    <2> QED BY <1>4, <2>1, TrimmedKeeps
  <1>7. T \in Seq(TextToken) /\ Len(T) = k /\ \A i \in 1 .. k : T[i] = b[i]
    <2>1. \A i \in 1 .. k : b[i] \in TextToken
      BY <1>4
    <2>2. /\ SubSeq(b, 1, k) \in Seq(TextToken)
          /\ Len(SubSeq(b, 1, k)) = IF 1 <= k THEN k - 1 + 1 ELSE 0
          /\ \A i \in 1 .. k - 1 + 1 : SubSeq(b, 1, k)[i] = b[1 + i - 1]
      BY <1>4, <2>1, SubSeqProperties
    <2>3. k \in Nat /\ k - 1 + 1 = k /\ \A i \in 1 .. k : 1 + i - 1 = i
      OBVIOUS
    <2> QED BY <1>6, <2>2, <2>3
  <1>8. k \in 4 .. Len(b)
    BY <1>2, <1>3, <1>4, <1>7
  <1> HIDE DEF T
  <1>9. /\ middle \in Seq(TextToken) /\ Len(middle) = k - 3
        /\ \A i \in 1 .. k - 3 : middle[i] = b[3 + i]
    <2>1. \A i \in 4 .. k : T[i] \in TextToken
      BY <1>7, <1>8
    <2>2. middle = SubSeq(T, 4, k)
      BY <1>3, <1>7 DEF From
    <2>3. /\ SubSeq(T, 4, k) \in Seq(TextToken)
          /\ Len(SubSeq(T, 4, k)) = IF 4 <= k THEN k - 4 + 1 ELSE 0
          /\ \A i \in 1 .. k - 4 + 1 : SubSeq(T, 4, k)[i] = T[4 + i - 1]
      BY <1>8, <2>1, SubSeqProperties
    <2>4. k \in Nat /\ 4 <= k /\ k - 4 + 1 = k - 3
      BY <1>8
    <2>5. \A i \in 1 .. k - 3 : 4 + i - 1 = 3 + i /\ 3 + i \in 1 .. k
      BY <2>4
    <2> HIDE DEF middle
    <2> QED BY <1>7, <2>2, <2>3, <2>4, <2>5
  <1>10. /\ head \in Seq(TextToken) /\ Len(head) = 3 /\ head[2] = "/" /\ head[3] = "/"
         /\ head[1] = IF b[1] = "https" THEN "wss" ELSE "ws"
    BY <1>5, Words DEF Wss, Ws
  <1>11. tail \in Seq(TextToken) /\ Len(tail) = 6
    BY ReceiverPath, Words
  <1> HIDE DEF head, middle, tail, url
  <1> DEFINE u == head \o middle
  <1>12. /\ u \in Seq(TextToken) /\ Len(u) = 3 + (k - 3)
         /\ \A i \in 1 .. 3 : u[i] = head[i]
         /\ \A i \in 1 .. k - 3 : u[3 + i] = middle[i]
    <2>1. /\ u \in Seq(TextToken) /\ Len(u) = Len(head) + Len(middle)
          /\ \A i \in 1 .. Len(head) : u[i] = head[i]
          /\ \A i \in 1 .. Len(middle) : u[Len(head) + i] = middle[i]
      <3>1. head \in Seq(TextToken) /\ middle \in Seq(TextToken)
        BY <1>9, <1>10
      <3> QED BY <3>1, Joined
    <2> HIDE DEF u
    <2> QED BY <1>9, <1>10, <2>1
  <1>13. /\ Len(u) = k /\ u[1] = head[1] /\ u[2] = "/" /\ u[3] = "/"
         /\ \A i \in 4 .. k : u[i] = b[i]
    <2>1. k \in Nat /\ 3 + (k - 3) = k
      BY <1>8
    <2>2. \A i \in 4 .. k : i - 3 \in 1 .. k - 3 /\ 3 + (i - 3) = i
      BY <2>1
    <2>3. \A i \in 4 .. k : u[3 + (i - 3)] = b[3 + (i - 3)]
      BY <1>9, <1>12, <2>2
    <2> HIDE DEF u
    <2> QED BY <1>10, <1>12, <2>1, <2>2, <2>3
  <1>14. url = u \o tail
    BY <1>1
  <1> HIDE DEF u
  <1>15. /\ url \in Seq(TextToken) /\ Len(url) = k + 6
         /\ \A i \in 1 .. k : url[i] = u[i]
         /\ \A i \in 1 .. 6 : url[k + i] = tail[i]
    <2>1. /\ url \in Seq(TextToken) /\ Len(url) = Len(u) + Len(tail)
          /\ \A i \in 1 .. Len(u) : url[i] = u[i]
          /\ \A i \in 1 .. Len(tail) : url[Len(u) + i] = tail[i]
      <3>1. u \in Seq(TextToken) /\ tail \in Seq(TextToken)
        BY <1>11, <1>12
      <3> QED BY <1>14, <3>1, Joined
    <2> QED BY <1>11, <1>13, <2>1
  <1>16. \A i \in 1 .. Len(b) : b[i] \notin Mark
    BY <1>2 DEF Marked, Contains, Mark
  <1>17. /\ url[1] = (IF b[1] = "https" THEN "wss" ELSE "ws") /\ url[2] = "/" /\ url[3] = "/"
         /\ \A i \in 4 .. k : url[i] = b[i]
    <2>1. 1 \in 1 .. k /\ 2 \in 1 .. k /\ 3 \in 1 .. k /\ \A i \in 4 .. k : i \in 1 .. k
      BY <1>8
    <2> QED BY <1>10, <1>13, <1>15, <2>1
  <1>18. WsPath(url, b, id, k)
    BY <1>5, <1>6, <1>15, <1>16, <1>17, Words DEF WsPath, tail
  <1> QED BY <1>8, <1>18 DEF url

\* A receiver whose WebSocket URL leads to the relay's receiver handler is configured
\* with an origin.
LEMMA ReachedIsOrigin ==
  ASSUME NEW b \in Text, NEW id \in Token, NEW url, url = BuildWsPath(b, ReceiverAt, id),
         url # <<>>, IsUrl(url), IdAfter(ReceiverAt, PathOf(url)) # None
  PROVE  Origin(b)
  <1>1. PICK k \in 4 .. Len(b) : WsPath(url, b, id, k)
    BY WsPathIs
  <1>2. Len(b) \in Nat /\ k \in Nat /\ k >= 4 /\ k <= Len(b)
    BY Words
  <1>3. /\ url \in Text /\ Len(url) = k + 6
        /\ url[1] \in {"wss", "ws"} /\ url[2] = "/" /\ url[3] = "/"
        /\ \A i \in 4 .. k : url[i] = b[i]
        /\ \A i \in 1 .. Len(b) : b[i] \notin Mark
        /\ \A i \in k + 1 .. Len(b) : b[i] = "/"
        /\ b[1] \in {"https", "http"} /\ b[2] = "/" /\ b[3] = "/"
    BY <1>1 DEF WsPath
  <1>4. \A i \in 1 .. 6 : url[k + i] \notin Mark
    <2>1. \A i \in 1 .. 6 : url[k + i] = Append(ReceiverAt, id)[i]
      BY <1>1 DEF WsPath
    <2>2. \A i \in 1 .. 6 : Append(ReceiverAt, id)[i] \notin Mark
      BY ReceiverPath
    <2> QED BY <2>1, <2>2
  <1>5. \A i \in 1 .. Len(url) : url[i] \notin Mark
    <2> SUFFICES ASSUME NEW i \in 1 .. k + 6 PROVE url[i] \notin Mark
      BY <1>3
    <2>1. CASE i \in {1, 2, 3}
      BY <1>3, <2>1, Words
    <2>2. CASE i \in 4 .. k
      BY <1>2, <1>3, <2>2
    <2>3. CASE i \in k + 1 .. k + 6
      <3>1. i - k \in 1 .. 6 /\ k + (i - k) = i
        BY <1>2, <2>3
      <3> QED BY <1>4, <3>1
    <2>4. i \in {1, 2, 3} \/ i \in 4 .. k \/ i \in k + 1 .. k + 6
      BY <1>2
    <2> QED BY <2>1, <2>2, <2>3, <2>4
  <1>6. ReceiverAt \in Text /\ Len(ReceiverAt) = 5
    BY Words DEF ReceiverAt
  <1>7. Len(url) >= 4
    BY <1>2, <1>3
  <1>8. Len(url) = Len(ReceiverAt) + 5
    BY <1>3, <1>5, <1>6, <1>7, IdOfUrl
  <1>9. k = 4
    <2>1. k + 6 = 5 + 5
      BY <1>3, <1>6, <1>8
    <2> QED BY <1>2, <2>1
  <1>10. b[4] \in Host
    BY <1>3, <1>9 DEF IsUrl
  <1> QED BY <1>2, <1>3, <1>9, <1>10 DEF Origin

\* A URL of an origin of four tokens and a path.
FourTokens(x) == x \in Text /\ Len(x) = 4 /\ \A i \in 1 .. 4 : x[i] \notin Mark

\* The path of such a URL is the path it was put together with.
LEMMA UrlParts ==
  ASSUME NEW x, FourTokens(x), NEW tail \in Text,
         \A i \in 1 .. Len(tail) : tail[i] \notin Mark
  PROVE  /\ x \o tail \in Text /\ Len(x \o tail) = 4 + Len(tail)
         /\ \A i \in 1 .. 4 : (x \o tail)[i] = x[i]
         /\ \A i \in 1 .. Len(tail) : (x \o tail)[4 + i] = tail[i]
         /\ PathOf(x \o tail) = tail
  <1> DEFINE url == x \o tail
             n == Len(tail)
  <1>1. x \in Seq(TextToken) /\ tail \in Seq(TextToken) /\ n \in Nat
    BY Words DEF FourTokens
  <1>2. /\ url \in Seq(TextToken) /\ Len(url) = Len(x) + n
        /\ \A i \in 1 .. Len(x) : url[i] = x[i]
        /\ \A i \in 1 .. n : url[Len(x) + i] = tail[i]
    BY <1>1, Joined
  <1> HIDE DEF url
  <1>3. /\ Len(url) = 4 + n
        /\ \A i \in 1 .. 4 : url[i] = x[i]
        /\ \A i \in 1 .. n : url[4 + i] = tail[i]
    BY <1>2 DEF FourTokens
  <1>4. \A i \in 1 .. Len(url) : url[i] \notin Mark
    <2> SUFFICES ASSUME NEW i \in 1 .. 4 + n PROVE url[i] \notin Mark
      BY <1>3
    <2>1. CASE i \in 1 .. 4
      BY <1>3, <2>1 DEF FourTokens
    <2>2. CASE i \notin 1 .. 4
      <3>1. i - 4 \in 1 .. n /\ 4 + (i - 4) = i
        BY <1>1, <2>2
      <3> QED BY <1>3, <3>1
    <2> QED BY <2>1, <2>2
  <1>5. PathOf(url) = SubSeq(url, 5, Len(url))
    BY <1>4, PathUnmarked
  <1>6. SubSeq(url, 5, Len(url)) = tail
    <2> DEFINE p == SubSeq(url, 5, 4 + n)
    <2>1. \A i \in 5 .. 4 + n : url[i] \in TextToken
      BY <1>1, <1>2, <1>3
    <2>2. 5 \in Int /\ 4 + n \in Int
      BY <1>1
    <2>3. /\ p \in Seq(TextToken) /\ Len(p) = IF 5 <= 4 + n THEN 4 + n - 5 + 1 ELSE 0
          /\ \A i \in 1 .. 4 + n - 5 + 1 : p[i] = url[5 + i - 1]
      BY <2>1, <2>2, SubSeqProperties
    <2> HIDE DEF p
    <2>4. Len(p) = n /\ 4 + n - 5 + 1 = n
      <3>1. CASE n = 0
        BY <2>3, <3>1
      <3>2. CASE n > 0
        BY <1>1, <2>3, <3>2
      <3> QED BY <1>1, <3>1, <3>2
    <2>5. \A i \in 1 .. n : 5 + i - 1 = 4 + i
      BY <1>1
    <2>6. \A i \in 1 .. n : p[i] = tail[i]
      BY <1>3, <2>3, <2>4, <2>5
    <2>7. p = tail
      BY <1>1, <2>3, <2>4, <2>6, SeqEqual
    <2> QED BY <1>3, <2>7 DEF p
  <1> QED BY <1>2, <1>3, <1>5, <1>6, Words DEF url

\* What it means to be a prefix.
LEMMA PrefixMeans ==
  ASSUME NEW S, NEW p \in Seq(S), NEW text \in Seq(S), Len(p) <= Len(text),
         \A i \in 1 .. Len(p) : text[i] = p[i]
  PROVE  IsPrefix(p, text)
  <1>1. Len(p) \in Nat /\ Len(text) \in Nat
    OBVIOUS
  <1> DEFINE t == SubSeq(text, 1, Len(p))
  <1>2. \A i \in 1 .. Len(p) : text[i] \in S
    BY <1>1
  <1>3. /\ t \in Seq(S) /\ Len(t) = IF 1 <= Len(p) THEN Len(p) - 1 + 1 ELSE 0
        /\ \A i \in 1 .. Len(p) - 1 + 1 : t[i] = text[1 + i - 1]
    BY <1>1, <1>2, SubSeqProperties
  <1> HIDE DEF t
  <1>4. Len(t) = Len(p) /\ Len(p) - 1 + 1 = Len(p)
    <2>1. CASE Len(p) = 0
      BY <1>3, <2>1
    <2>2. CASE Len(p) > 0
      BY <1>1, <1>3, <2>2
    <2> QED BY <1>1, <2>1, <2>2
  <1>5. \A i \in 1 .. Len(p) : 1 + i - 1 = i
    BY <1>1
  <1>6. \A i \in 1 .. Len(t) : t[i] = p[i]
    BY <1>3, <1>4, <1>5
  <1>7. t = p
    BY <1>3, <1>4, <1>6, SeqEqual
  <1>8. SubSeq(p, 1, Len(p)) = p
    BY SubSeqFull
  <1> QED BY <1>7, <1>8 DEF IsPrefix, t

\* The relay finds the id after its prefix.
LEMMA IdIsFound ==
  ASSUME NEW prefix \in Text, NEW id \in Token
  PROVE  /\ Append(prefix, id) \in Text /\ Len(Append(prefix, id)) = Len(prefix) + 1
         /\ \A i \in 1 .. Len(prefix) : Append(prefix, id)[i] = prefix[i]
         /\ Append(prefix, id)[Len(prefix) + 1] = id
         /\ IsPrefix(prefix, Append(prefix, id))
         /\ IdAfter(prefix, Append(prefix, id)) = id
  <1> DEFINE path == Append(prefix, id)
  <1>1. prefix \in Seq(TextToken) /\ id \in TextToken /\ Len(prefix) \in Nat
    BY Words
  <1>2. /\ path \in Seq(TextToken) /\ Len(path) = Len(prefix) + 1
        /\ \A i \in 1 .. Len(prefix) : path[i] = prefix[i]
        /\ path[Len(prefix) + 1] = id
    <2>1. prefix \in Seq(TextToken) /\ id \in TextToken
      BY <1>1
    <2> QED BY <2>1
  <1> HIDE DEF path
  <1>3. Len(prefix) <= Len(path) /\ Len(path) > Len(prefix)
    BY <1>1, <1>2
  <1>4. IsPrefix(prefix, path)
    BY <1>1, <1>2, <1>3, PrefixMeans
  <1>5. IdAfter(prefix, path) = id
    BY <1>2, <1>3, <1>4 DEF IdAfter, Starts, Last
  <1> QED BY <1>2, <1>4, <1>5, Words DEF path

\* The link of a session, and what a location bar may make of it.
LinkOf(b, id) == SubSeq(b, 1, 4) \o Append(PageAt, id)
Locations(b, id) == {LinkOf(b, id), Append(LinkOf(b, id), "/")}

\* Appending to a concatenation.
LEMMA AppendAfter ==
  ASSUME NEW S, NEW x \in Seq(S), NEW t \in Seq(S), NEW e \in S
  PROVE  Append(x \o t, e) = x \o Append(t, e)
  <1>1. x \o t \in Seq(S) /\ <<e>> \in Seq(S)
    BY ConcatProperties
  <1>2. Append(x \o t, e) = (x \o t) \o <<e>>
    BY <1>1, AppendIsConcat
  <1>3. Append(t, e) = t \o <<e>>
    BY AppendIsConcat
  <1> QED BY <1>1, <1>2, <1>3, ConcatAssociative

\* The four tokens of an origin.
LEMMA OriginTokens ==
  ASSUME NEW b, Origin(b)
  PROVE  /\ FourTokens(SubSeq(b, 1, 4)) /\ \A i \in 1 .. 4 : SubSeq(b, 1, 4)[i] = b[i]
         /\ Trimmed(b, 0) = SubSeq(b, 1, 4)
  <1> DEFINE x == SubSeq(b, 1, 4)
  <1>1. b \in Seq(TextToken) /\ Len(b) \in Nat /\ Len(b) >= 4
    BY Words DEF Origin
  <1>2. \A i \in 1 .. 4 : b[i] \in TextToken
    BY <1>1
  <1>3. /\ x \in Seq(TextToken) /\ Len(x) = IF 1 <= 4 THEN 4 - 1 + 1 ELSE 0
        /\ \A i \in 1 .. 4 - 1 + 1 : x[i] = b[1 + i - 1]
    BY <1>2, SubSeqProperties
  <1>4. 4 - 1 + 1 = 4 /\ \A i \in 1 .. 4 : 1 + i - 1 = i
    OBVIOUS
  <1> HIDE DEF x
  <1>5. x \in Seq(TextToken) /\ Len(x) = 4 /\ \A i \in 1 .. 4 : x[i] = b[i]
    BY <1>3, <1>4
  <1>6. \A i \in 1 .. 4 : b[i] \notin Mark
    <2>1. b[1] \notin Mark /\ b[2] \notin Mark /\ b[3] \notin Mark /\ b[4] \notin Mark
      BY Words DEF Origin
    <2>2. 1 .. 4 = {1, 2, 3, 4}
      OBVIOUS
    <2> QED BY <2>1, <2>2
  <1>7. FourTokens(x)
    BY <1>5, <1>6, Words DEF FourTokens
  <1>8. Trimmed(b, 0) = SubSeq(b, 1, 4)
    <2>1. b[4] # "/" /\ \A i \in 4 + 1 .. Len(b) : b[i] = "/"
      BY Words DEF Origin
    <2>2. 0 \in 0 .. Len(b) /\ 4 \in 0 .. Len(b)
      BY <1>1
    <2> QED BY <1>1, <2>1, <2>2, TrimmedIs
  <1> QED BY <1>5, <1>7, <1>8 DEF x

\* The path of a page.
LEMMA PagePath ==
  ASSUME NEW id \in Token
  PROVE  LET path == Append(PageAt, id)
         IN  /\ path \in Text /\ Len(path) = 4 /\ path[4] = id /\ id # "/"
             /\ \A i \in 1 .. 4 : path[i] \notin Mark
             /\ IsPrefix(PageAt, path) /\ IdAfter(PageAt, path) = id
  <1> DEFINE path == Append(PageAt, id)
  <1>1. PageAt \in Text /\ Len(PageAt) = 3 /\ \A i \in 1 .. 3 : PageAt[i] \in {"/", "s"}
    <2>1. 1 .. 3 = {1, 2, 3}
      OBVIOUS
    <2> QED BY <2>1, Words DEF PageAt
  <1>2. PageAt \in Text
    BY <1>1
  <1>3. /\ path \in Text /\ Len(path) = Len(PageAt) + 1
        /\ \A i \in 1 .. Len(PageAt) : path[i] = PageAt[i]
        /\ path[Len(PageAt) + 1] = id
        /\ IsPrefix(PageAt, path) /\ IdAfter(PageAt, path) = id
    <2> HIDE <1>1
    <2> QED BY <1>2, IdIsFound
  <1> HIDE DEF path
  <1>4. Len(path) = 4 /\ path[4] = id /\ \A i \in 1 .. 3 : path[i] \in {"/", "s"}
    BY <1>1, <1>3
  <1>5. id \notin Mark /\ id # "/" /\ {"/", "s"} \cap Mark = {}
    BY Words
  <1>6. \A i \in 1 .. 4 : i = 4 \/ i \in 1 .. 3
    OBVIOUS
  <1>7. \A i \in 1 .. 4 : path[i] \notin Mark
    BY <1>4, <1>5, <1>6
  <1> QED BY <1>3, <1>4, <1>5, <1>7 DEF path

\* The link, token by token.
LEMMA LinkTokens ==
  ASSUME NEW b, Origin(b), NEW id \in Token
  PROVE  /\ LinkOf(b, id) \in Text /\ Len(LinkOf(b, id)) = 8
         /\ \A i \in 1 .. 4 : LinkOf(b, id)[i] = b[i]
         /\ LinkOf(b, id)[8] = id
         /\ PathOf(LinkOf(b, id)) = Append(PageAt, id)
  <1> DEFINE x == SubSeq(b, 1, 4)
             t == Append(PageAt, id)
  <1>1. FourTokens(x) /\ \A i \in 1 .. 4 : x[i] = b[i]
    BY OriginTokens
  <1>2. t \in Text /\ Len(t) = 4 /\ t[4] = id /\ \A i \in 1 .. 4 : t[i] \notin Mark
    BY PagePath
  <1> HIDE DEF x, t
  <1>3. /\ x \o t \in Text /\ Len(x \o t) = 4 + Len(t)
        /\ \A i \in 1 .. 4 : (x \o t)[i] = x[i]
        /\ \A i \in 1 .. Len(t) : (x \o t)[4 + i] = t[i]
        /\ PathOf(x \o t) = t
    BY <1>1, <1>2, UrlParts
  <1> DEFINE l == x \o t
  <1>4. LinkOf(b, id) = l
    BY DEF LinkOf, x, t
  <1> HIDE DEF l
  <1>5. Len(l) = 8 /\ l[4 + 4] = id
    BY <1>2, <1>3 DEF l
  <1> QED BY <1>1, <1>3, <1>4, <1>5 DEF l, t

\* The link with a slash, token by token.
LEMMA SlashedTokens ==
  ASSUME NEW b, Origin(b), NEW id \in Token
  PROVE  LET l == Append(LinkOf(b, id), "/")
         IN  /\ l \in Text /\ Len(l) = 9 /\ l[8] = id /\ l[9] = "/"
             /\ \A i \in 1 .. 4 : l[i] = b[i]
             /\ PathOf(l) = Append(Append(PageAt, id), "/")
  <1> DEFINE x == SubSeq(b, 1, 4)
             t == Append(PageAt, id)
             s == Append(t, "/")
             l == Append(LinkOf(b, id), "/")
  <1>1. FourTokens(x) /\ \A i \in 1 .. 4 : x[i] = b[i]
    BY OriginTokens
  <1>2. t \in Text /\ Len(t) = 4 /\ t[4] = id /\ \A i \in 1 .. 4 : t[i] \notin Mark
    BY PagePath
  <1>3. "/" \in TextToken /\ "/" \notin Mark
    BY Words
  <1> HIDE DEF x, t
  <1>4. /\ s \in Seq(TextToken) /\ Len(s) = Len(t) + 1
        /\ \A i \in 1 .. Len(t) : s[i] = t[i] /\ s[Len(t) + 1] = "/"
    <2>1. t \in Seq(TextToken)
      BY <1>2, Words
    <2> QED BY <1>3, <2>1
  <1>5. s \in Text /\ Len(s) = 5 /\ s[4] = id /\ s[5] = "/" /\ \A i \in 1 .. 4 : s[i] = t[i]
    <2> HIDE DEF s
    <2> QED BY <1>2, <1>4, Words
  <1> HIDE DEF s
  <1>6. \A i \in 1 .. Len(s) : s[i] \notin Mark
    <2>1. \A i \in 1 .. 5 : i = 5 \/ i \in 1 .. 4
      OBVIOUS
    <2> QED BY <1>2, <1>3, <1>5, <2>1
  <1>7. /\ x \o s \in Text /\ Len(x \o s) = 4 + Len(s)
        /\ \A i \in 1 .. 4 : (x \o s)[i] = x[i]
        /\ \A i \in 1 .. Len(s) : (x \o s)[4 + i] = s[i]
        /\ PathOf(x \o s) = s
    BY <1>1, <1>5, <1>6, UrlParts
  <1>8. l = x \o s
    <2>1. x \in Seq(TextToken) /\ t \in Seq(TextToken)
      BY <1>1, <1>2, Words DEF FourTokens
    <2>2. Append(x \o t, "/") = x \o Append(t, "/")
      <3>1. \A e \in TextToken : Append(x \o t, e) = x \o Append(t, e)
        BY <2>1, AppendAfter
      <3> QED BY <1>3, <3>1
    <2> QED BY <2>2 DEF LinkOf, x, t, s
  <1> HIDE DEF l
  <1> DEFINE y == x \o s
  <1> HIDE DEF y
  <1>9. Len(y) = 9 /\ y[4 + 4] = id /\ y[4 + 5] = "/"
    BY <1>5, <1>7 DEF y
  <1>10. l = y
    BY <1>8 DEF y
  <1>11. l \in Text /\ PathOf(l) = s /\ \A i \in 1 .. 4 : l[i] = b[i]
    BY <1>1, <1>7, <1>10 DEF y
  <1>12. l \in Text /\ Len(l) = 9 /\ l[8] = id /\ l[9] = "/"
    BY <1>9, <1>10, <1>11
  <1> QED BY <1>11, <1>12, Zenon DEF l, s, t

\* What the window shows is the link of the session.
LEMMA ShownIsLink ==
  ASSUME NEW b, Origin(b), NEW id \in Token, Shown(b, id) # <<>>
  PROVE  Shown(b, id) = LinkOf(b, id)
  <1> DEFINE x == SubSeq(b, 1, 4)
  <1>1. Trimmed(b, 0) = x /\ x \in Seq(TextToken)
    BY OriginTokens, Words DEF FourTokens
  <1> HIDE DEF x
  <1>2. PageAt \in Seq(TextToken) /\ id \in TextToken
    BY Words DEF PageAt
  <1>3. Shown(b, id) = BuildUrl(BuildPrefix(b), id)
    BY DEF Shown
  <1>4. BuildPrefix(b) # <<>> /\ BuildUrl(BuildPrefix(b), id) = Append(BuildPrefix(b), id)
    BY <1>3 DEF BuildUrl
  <1>5. BuildPrefix(b) = x \o PageAt
    BY <1>1, <1>4 DEF BuildPrefix
  <1>6. Append(x \o PageAt, id) = x \o Append(PageAt, id)
    BY <1>1, <1>2, AppendAfter
  <1> QED BY <1>3, <1>4, <1>5, <1>6 DEF LinkOf, x

\* A location that begins with the origin reaches the relay.
LEMMA OriginReaches ==
  ASSUME Origin(relay_base), NEW url \in Text, Len(url) > 4,
         url[1] = relay_base[1] \/ url[1] = (IF relay_base[1] = "https" THEN "wss" ELSE "ws"),
         url[2] = "/", url[3] = "/", url[4] = relay_base[4]
  PROVE  Reaches(url)
  <1>1. url \in Seq(TextToken) /\ Len(url) > 3
    BY Words
  <1>2. /\ url[1] \in {"https", "http", "wss", "ws"} /\ url[4] \in Host
        /\ relay_base[1] \in {"https", "http"}
    BY DEF Origin
  <1>3. \E scheme \in {Https, Http, Wss, Ws} : Starts(url, scheme)
    BY <1>1, <1>2, StartsMeans DEF Https, Http, Wss, Ws
  <1>4. Secure(url) = Secure(relay_base) /\ HostOf(url) = HostOf(relay_base)
    BY <1>2 DEF Secure, HostOf
  <1> QED BY <1>2, <1>3, <1>4 DEF Reaches, IsUrl

\* The relay serves the page at the link, with or without a slash, and the page finds
\* the id in it.
LEMMA ScanLeads ==
  ASSUME Origin(relay_base), NEW id \in Token, NEW location \in Locations(relay_base, id)
  PROVE  /\ Reaches(location) /\ ServesPage(PathOf(location))
         /\ ParseSessionId(PathOf(location)) = id
  <1> DEFINE t == Append(PageAt, id)
  <1>1. /\ t \in Text /\ Len(t) = 4 /\ t[4] = id /\ id # "/"
        /\ IsPrefix(PageAt, t) /\ IdAfter(PageAt, t) = id
    BY PagePath
  <1>2. id # None
    BY RendezvousAssumption
  <1> HIDE DEF t
  <1>3. relay_base[2] = "/" /\ relay_base[3] = "/"
    BY DEF Origin
  <1>4. CASE location = LinkOf(relay_base, id)
    <2>1. /\ location \in Text /\ Len(location) = 8 /\ PathOf(location) = t
          /\ \A i \in 1 .. 4 : location[i] = relay_base[i]
      BY <1>4, LinkTokens DEF t
    <2>2. Reaches(location)
      <3>1. /\ location[1] = relay_base[1] /\ location[2] = "/" /\ location[3] = "/"
            /\ location[4] = relay_base[4] /\ Len(location) > 4
        BY <1>3, <2>1
      <3>2. location \in Text
        BY <2>1
      <3> QED BY <3>1, <3>2, OriginReaches
    <2>3. Last(t) # "/" /\ t # <<>>
      BY <1>1 DEF Last
    <2> QED BY <1>1, <1>2, <2>1, <2>2, <2>3 DEF ServesPage, ParseSessionId
  <1>5. CASE location = Append(LinkOf(relay_base, id), "/")
    <2> DEFINE s == Append(t, "/")
    <2>1. /\ location \in Text /\ Len(location) = 9 /\ PathOf(location) = s
          /\ \A i \in 1 .. 4 : location[i] = relay_base[i]
      BY <1>5, SlashedTokens DEF t
    <2>2. Reaches(location)
      <3>1. /\ location[1] = relay_base[1] /\ location[2] = "/" /\ location[3] = "/"
            /\ location[4] = relay_base[4] /\ Len(location) > 4
        BY <1>3, <2>1
      <3>2. location \in Text
        BY <2>1
      <3> QED BY <3>1, <3>2, OriginReaches
    <2>3. t \in Seq(TextToken) /\ "/" \in TextToken
      BY <1>1, Words
    <2>4. /\ s \in Seq(TextToken) /\ Len(s) = Len(t) + 1 /\ s[Len(t) + 1] = "/"
          /\ \A i \in 1 .. Len(t) : s[i] = t[i]
      <3> HIDE <1>1
      <3> QED BY <2>3
    <2> HIDE DEF s
    <2>5. Len(s) = 5 /\ s # <<>> /\ Last(s) = "/"
      BY <1>1, <2>4 DEF Last
    <2>6. Front(s) = t
      <3>1. Front(s) = SubSeq(s, 1, 4)
        BY <2>5 DEF Front
      <3>2. \A i \in 1 .. 4 : s[i] \in TextToken
        <4>1. \A i \in 1 .. Len(s) : s[i] \in TextToken
          BY <2>4
        <4>2. \A i \in 1 .. 4 : i \in 1 .. 5
          OBVIOUS
        <4> QED BY <2>5, <4>1, <4>2
      <3> DEFINE f == SubSeq(s, 1, 4)
      <3>3. /\ f \in Seq(TextToken) /\ Len(f) = IF 1 <= 4 THEN 4 - 1 + 1 ELSE 0
            /\ \A i \in 1 .. 4 - 1 + 1 : f[i] = s[1 + i - 1]
        BY <3>2, SubSeqProperties
      <3>4. 4 - 1 + 1 = 4 /\ \A i \in 1 .. 4 : 1 + i - 1 = i
        OBVIOUS
      <3> HIDE DEF f
      <3>5. f \in Seq(TextToken) /\ Len(f) = 4 /\ \A i \in 1 .. 4 : f[i] = t[i]
        BY <1>1, <2>4, <3>3, <3>4
      <3>6. f = t
        BY <1>1, <2>3, <3>5, SeqEqual
      <3> QED BY <3>1, <3>6 DEF f
    <2>7. IsPrefix(PageAt, s)
      <3>1. PageAt \in Seq(TextToken) /\ Len(PageAt) = 3
        BY Words DEF PageAt
      <3>2. \A i \in 1 .. 3 : s[i] = PageAt[i]
        <4>1. \A i \in 1 .. 3 : Append(PageAt, id)[i] = PageAt[i]
          <5>1. PageAt \in Text
            BY <3>1, Words
          <5>2. \A i \in 1 .. Len(PageAt) : Append(PageAt, id)[i] = PageAt[i]
            BY <5>1, IdIsFound
          <5> QED BY <3>1, <5>2
        <4>2. \A i \in 1 .. 3 : i \in 1 .. 4
          OBVIOUS
        <4> QED BY <1>1, <2>4, <4>1, <4>2 DEF t
      <3> QED BY <2>4, <2>5, <3>1, <3>2, PrefixMeans
    <2> QED BY <1>1, <1>2, <2>1, <2>2, <2>5, <2>6, <2>7 DEF ServesPage, ParseSessionId
  <1> QED BY <1>4, <1>5 DEF Locations

\* A scheme and a host.
LEMMA HostJoined ==
  ASSUME NEW w \in TextToken, NEW h \in TextToken
  PROVE  LET x == <<w, "/", "/">> \o <<h>>
         IN  /\ x \in Seq(TextToken) /\ Len(x) = 4
             /\ x[1] = w /\ x[2] = "/" /\ x[3] = "/" /\ x[4] = h
  <1> DEFINE p == <<w, "/", "/">>
             q == <<h>>
             x == p \o q
  <1>1. p \in Seq(TextToken) /\ q \in Seq(TextToken)
    BY Words
  <1>2. Len(p) = 3 /\ Len(q) = 1 /\ p[1] = w /\ p[2] = "/" /\ p[3] = "/" /\ q[1] = h
    OBVIOUS
  <1> HIDE DEF p, q
  <1>3. /\ x \in Seq(TextToken) /\ Len(x) = Len(p) + Len(q)
        /\ \A i \in 1 .. Len(p) : x[i] = p[i]
        /\ \A i \in 1 .. Len(q) : x[Len(p) + i] = q[i]
    BY <1>1, Joined
  <1> HIDE DEF x
  <1>4. /\ Len(x) = 3 + 1 /\ \A i \in 1 .. 3 : x[i] = p[i]
        /\ \A i \in 1 .. 1 : x[3 + i] = q[i]
    BY <1>2, <1>3
  <1>5. Len(x) = 4 /\ x[1] = w /\ x[2] = "/" /\ x[3] = "/" /\ x[4] = h
    <2>1. 1 \in 1 .. 3 /\ 2 \in 1 .. 3 /\ 3 \in 1 .. 3 /\ 1 \in 1 .. 1 /\ 3 + 1 = 4
      OBVIOUS
    <2> QED BY <1>2, <1>4, <2>1
  <1> QED BY <1>3, <1>5, Zenon DEF x, p, q

\* The page derives from such a location a URL that leads to the relay's sender handler
\* and to its session.
LEMMA JoinLeads ==
  ASSUME Origin(relay_base), NEW id \in Token, NEW location \in Locations(relay_base, id)
  PROVE  LET url == BuildSenderUrl(location, id)
         IN  Reaches(url) /\ IdAfter(SenderAt, PathOf(url)) = id
  <1> DEFINE w == IF Secure(location) THEN "wss" ELSE "ws"
             h == HostOf(location)
             x == (IF Secure(location) THEN Wss ELSE Ws) \o <<h>>
             t == Append(SenderAt, id)
             url == BuildSenderUrl(location, id)
  <1>1. \A i \in 1 .. 4 : location[i] = relay_base[i]
    <2>1. \A i \in 1 .. 4 : LinkOf(relay_base, id)[i] = relay_base[i]
      BY LinkTokens
    <2>2. \A i \in 1 .. 4 : Append(LinkOf(relay_base, id), "/")[i] = relay_base[i]
      BY SlashedTokens
    <2> QED BY <2>1, <2>2 DEF Locations
  <1>2. /\ h = relay_base[4] /\ h \in Host /\ h \in TextToken /\ h \notin Mark
        /\ relay_base[1] \in {"https", "http"}
        /\ Secure(location) <=> relay_base[1] = "https"
    BY <1>1, Words DEF HostOf, Secure, Origin
  <1>3. w = (IF relay_base[1] = "https" THEN "wss" ELSE "ws") /\ w \in {"wss", "ws"}
    BY <1>2
  <1> HIDE DEF h
  <1>4. \E y \in {"wss", "ws"} : w = y /\ x = <<y, "/", "/">> \o <<h>>
    BY DEF Wss, Ws
  <1>5. w \in TextToken /\ "/" \in TextToken /\ w \notin Mark /\ "/" \notin Mark
    BY <1>3, Words
  <1> HIDE DEF w, x
  <1>6. /\ x \in Seq(TextToken) /\ Len(x) = 4
        /\ x[1] = w /\ x[2] = "/" /\ x[3] = "/" /\ x[4] = h
    BY <1>2, <1>4, <1>5, HostJoined
  <1>7. FourTokens(x)
    <2>1. 1 .. 4 = {1, 2, 3, 4}
      OBVIOUS
    <2> QED BY <1>2, <1>5, <1>6, <2>1, Words DEF FourTokens
  <1>8. /\ t \in Text /\ Len(t) = 6 /\ \A i \in 1 .. 6 : t[i] \notin Mark
        /\ IdAfter(SenderAt, t) = id
    <2>1. SenderAt \in Text
      BY Words DEF SenderAt
    <2>2. /\ t \in Text /\ Len(t) = Len(SenderAt) + 1
          /\ \A i \in 1 .. Len(SenderAt) : t[i] = SenderAt[i]
          /\ t[Len(SenderAt) + 1] = id
          /\ IdAfter(SenderAt, t) = id
      BY <2>1, IdIsFound
    <2> HIDE DEF t
    <2>3. Len(SenderAt) = 5 /\ \A i \in 1 .. 5 : SenderAt[i] \in {"/", "v1", "sender"}
      <3>1. 1 .. 5 = {1, 2, 3, 4, 5}
        OBVIOUS
      <3> QED BY <3>1 DEF SenderAt
    <2>4. id \notin Mark /\ {"/", "v1", "sender"} \cap Mark = {}
      BY Words
    <2>5. Len(t) = 6 /\ t[6] = id /\ \A i \in 1 .. 5 : t[i] = SenderAt[i]
      BY <2>2, <2>3
    <2>6. \A i \in 1 .. 6 : i = 6 \/ i \in 1 .. 5
      OBVIOUS
    <2> QED BY <2>2, <2>3, <2>4, <2>5, <2>6
  <1> HIDE DEF t
  <1>9. /\ x \o t \in Text /\ Len(x \o t) = 4 + Len(t)
        /\ \A i \in 1 .. 4 : (x \o t)[i] = x[i]
        /\ PathOf(x \o t) = t
    BY <1>7, <1>8, UrlParts
  <1>10. url = x \o t
    BY DEF BuildSenderUrl, x, t, h
  <1> HIDE DEF url
  <1> DEFINE y == x \o t
  <1> HIDE DEF y
  <1>11. /\ url = y /\ y \in Text /\ Len(y) > 4 /\ PathOf(y) = t
         /\ y[1] = w /\ y[2] = "/" /\ y[3] = "/" /\ y[4] = h
    BY <1>6, <1>8, <1>9, <1>10 DEF y
  <1>12. Reaches(url)
    BY <1>2, <1>3, <1>11, OriginReaches
  <1> QED BY <1>8, <1>11, <1>12, Zenon DEF url

\* Links of different sessions differ, whatever slash is at their end.
LEMMA LinksApart ==
  ASSUME NEW b, Origin(b), NEW id \in Token, NEW other \in Token,
         NEW location \in Locations(b, other),
         LinkOf(b, id) \in {location, Trimmed(location, 0)}
  PROVE  id = other
  <1>1. /\ LinkOf(b, id) \in Text /\ Len(LinkOf(b, id)) = 8 /\ LinkOf(b, id)[8] = id
        /\ LinkOf(b, other) \in Text /\ Len(LinkOf(b, other)) = 8 /\ LinkOf(b, other)[8] = other
    BY LinkTokens
  <1> DEFINE l == LinkOf(b, other)
             s == Append(l, "/")
  <1>2. s \in Text /\ Len(s) = 9 /\ s[8] = other /\ s[9] = "/"
    BY SlashedTokens
  <1>3. other # "/"
    BY Words
  <1> HIDE DEF s, l
  <1>4. Trimmed(l, 0) = SubSeq(l, 1, 8)
    <2>1. l \in Seq(TextToken) /\ Len(l) = 8 /\ l[8] = other
      BY <1>1, Words DEF l
    <2>2. 8 \in 0 .. Len(l) /\ 0 \in 0 .. Len(l) /\ \A i \in 8 + 1 .. Len(l) : l[i] = "/"
      BY <2>1
    <2> QED BY <1>3, <2>1, <2>2, TrimmedIs
  <1>5. Trimmed(s, 0) = SubSeq(s, 1, 8)
    <2>1. s \in Seq(TextToken) /\ Len(s) = 9 /\ s[8] = other
      BY <1>2, Words
    <2>2. 8 \in 0 .. Len(s) /\ 0 \in 0 .. Len(s)
      BY <2>1
    <2>3. \A i \in 8 + 1 .. Len(s) : i = 9
      BY <2>1
    <2> QED BY <1>2, <1>3, <2>1, <2>2, <2>3, TrimmedIs
  <1>6. ASSUME NEW u, u \in Seq(TextToken), Len(u) >= 8 PROVE SubSeq(u, 1, 8)[8] = u[8]
    <2>1. \A i \in 1 .. 8 : u[i] \in TextToken
      BY <1>6
    <2>2. \A i \in 1 .. 8 - 1 + 1 : SubSeq(u, 1, 8)[i] = u[1 + i - 1]
      BY <2>1, SubSeqProperties
    <2>3. 8 \in 1 .. 8 - 1 + 1 /\ 1 + 8 - 1 = 8
      OBVIOUS
    <2> QED BY <2>2, <2>3
  <1>7. Trimmed(l, 0)[8] = other /\ Trimmed(s, 0)[8] = other /\ l[8] = other /\ s[8] = other
    BY <1>1, <1>2, <1>4, <1>5, <1>6, Words DEF l
  <1>8. LinkOf(b, id) \in {l, s, Trimmed(l, 0), Trimmed(s, 0)}
    BY DEF Locations, l, s
  <1> QED BY <1>1, <1>7, <1>8

\* No page, no link.
LEMMA NoLocation == Trimmed(<<>>, 0) = <<>>
  <1>1. <<>> \in Seq(TextToken) /\ Len(<<>>) = 0
    OBVIOUS
  <1>2. 0 \in 0 .. Len(<<>>) /\ \A i \in 0 + 1 .. Len(<<>>) : <<>>[i] = "/"
    BY <1>1
  <1>3. Trimmed(<<>>, 0) = SubSeq(<<>>, 1, 0)
    BY <1>1, <1>2, TrimmedIs
  <1> QED BY <1>3, SubSeqEmpty
-----------------------------------------------------------------------------
\* The way of the page to the receiver.

Connected == {"register", "client", "connect", "listening"}

\* What a running session has: the base of the configuration, the link of its own token,
\* the URL of its own token, and what was checked of them on the way.
ReceiverInv ==
    /\ base \in Text
    /\ worker \in {"run"} \cup Connected =>
          /\ relay_base = LoadRelayBase(base) /\ session.state = "WAITING"
          /\ link = Shown(relay_base, session.token) /\ link # <<>>
    /\ worker \in Connected =>
          receiver_url = BuildWsPath(relay_base, ReceiverAt, session.token) /\ receiver_url # <<>>
    /\ worker = "connect" => UrlAllowed(receiver_url, opt_in)
    /\ worker = "listening" => Origin(relay_base) /\ (session.token \in attached \/ disturbed)
    /\ opt_in # "1" => \A url \in sent : Secure(url)

\* What a page has: a location of an origin with an id in it.  It is the id of the
\* session only while that session listens, for a session that is over has none and the
\* next one has another.
PageInv ==
    /\ \/ page = NoPage
       \/ /\ Origin(relay_base) /\ relay_base = LoadRelayBase(base)
          /\ page \in [status : {"ready", "joined", "refused"},
                      location : Locations(relay_base, page.id), id : Token]
    /\ worker = "library" => page = NoPage
    /\ page.id \in Token /\ page.id = session.token => worker = "listening"
    /\ page.status = "refused" /\ page.id = session.token => disturbed

\* The base of the window is a text.
LEMMA BaseIsText == base \in Text => LoadRelayBase(base) \in Text
  <1>1. Https \in Seq(TextToken) /\ DefaultHost \in TextToken
    BY AddressAssumption, Words DEF Https
  <1>2. Append(Https, DefaultHost) \in Text
    BY <1>1, Words, AppendProperties
  <1>3. <<>> \in Text
    BY Words
  <1> QED BY <1>2, <1>3 DEF LoadRelayBase

\* A page stays right while the base is the same and the session does not take its id.
LEMMA PageStays ==
  ASSUME PageInv, page' = page, relay_base' = relay_base, base' = base,
         worker' = "library" => worker = "library", disturbed => disturbed',
         \/ session'.token = session.token /\ (worker = "listening" => worker' = "listening")
         \/ page.id \in Token => session'.token # page.id
  PROVE  PageInv'
  <1>1. page.status = "refused" => page.id \in Token
    BY DEF PageInv, NoPage
  <1>2. /\ page'.id \in Token /\ page'.id = session'.token => worker' = "listening"
        /\ page'.status = "refused" /\ page'.id = session'.token => disturbed'
    BY <1>1 DEF PageInv
  <1>3. worker' = "library" => page' = NoPage
    BY DEF PageInv
  <1>4. \/ page = NoPage
        \/ /\ Origin(relay_base) /\ relay_base = LoadRelayBase(base)
           /\ page \in [status : {"ready", "joined", "refused"},
                       location : Locations(relay_base, page.id), id : Token]
    BY DEF PageInv
  <1> QED BY <1>2, <1>3, <1>4 DEF PageInv

\* The next session of the window: its token is not that of the page.
LEMMA PrepareKeeps == SessionInv /\ ReceiverInv /\ PageInv /\ Prepare => (ReceiverInv /\ PageInv)'
  <1> SUFFICES ASSUME SessionInv, ReceiverInv, PageInv, Prepare PROVE (ReceiverInv /\ PageInv)'
    OBVIOUS
  <1>1. /\ worker = "down" /\ worker' \in {"run", "failed"} /\ relay_base' = LoadRelayBase(base)
        /\ base' = base /\ page' = page /\ opt_in' = opt_in /\ sent' = {}
        /\ disturbed => disturbed'
    BY DEF Prepare, NoSession, PrepareWith
  <1>2. worker' = "run" =>
           \E tok \in Token, sec \in Secret :
              /\ session' = SO!Filled(now, SessionTtl, tok, sec)
              /\ link' = Shown(relay_base', tok) /\ link' # <<>>
    BY DEF Prepare, NoSession, PrepareWith
  <1>3. worker' = "run" => session'.state = "WAITING" /\ link' = Shown(relay_base', session'.token)
                           /\ link' # <<>>
    BY <1>2 DEF SO!Filled
  <1>4. page.id \in Token => session'.token # page.id
    <2>1. session.token \notin Token \/ session.token # page.id
      BY <1>1 DEF PageInv
    <2>2. CASE session' = session \/ session' = SO!Reset
      BY <2>1, <2>2, RendezvousAssumption DEF SO!Reset
    <2>3. CASE PrepareWith(relay_base')
      <3>1. PICK tok \in Token \ {page.id}, sec \in Secret :
               session' \in {SO!Filled(now, SessionTtl, tok, sec),
                             SO!Closed(SO!Filled(now, SessionTtl, tok, sec))}
        BY <2>3 DEF PrepareWith
      <3>2. SO!Filled(now, SessionTtl, tok, sec).token = tok
        BY DEF SO!Filled
      <3>3. SO!Closed(SO!Filled(now, SessionTtl, tok, sec)).token = Zeroed
        BY DEF SO!Filled, SO!Closed, SO!ClearCredentials
      <3> QED BY <3>1, <3>2, <3>3, RendezvousAssumption
    <2> QED BY <2>2, <2>3 DEF Prepare, NoSession
  <1>5. page # NoPage => relay_base' = relay_base
    BY <1>1 DEF PageInv
  <1>6. ReceiverInv'
    BY <1>1, <1>3 DEF ReceiverInv, Connected
  <1>7. PageInv'
    <2>1. CASE page = NoPage
      BY <1>1, <2>1, RendezvousAssumption DEF PageInv, NoPage
    <2>2. CASE page # NoPage
      BY <1>1, <1>4, <1>5, <2>2, PageStays
    <2> QED BY <2>1, <2>2
  <1> QED BY <1>6, <1>7

\* The steps of the worker but for the two that make a request.
LEMMA WorkerKeeps ==
  ASSUME SessionInv, ReceiverInv, PageInv, Run \/ RegisterRefused \/ ClientInit
  PROVE  (ReceiverInv /\ PageInv)'
  <1>1. /\ UNCHANGED <<base, opt_in, relay_base, link, page, sent, attached>>
        /\ worker \in {"run", "register", "client"} /\ worker' \in {"register", "connect", "failed"}
        /\ disturbed => disturbed'
        /\ worker' # "failed" => session' = session
        /\ session' \in {session, SO!Closed(session)}
    BY DEF Run, RegisterRefused, ClientInit, Return, ReturnClosed, windowVars
  <1>2. /\ worker' = "register" => /\ worker = "run" /\ receiver_url' # <<>>
                                   /\ receiver_url' = BuildWsPath(relay_base, ReceiverAt, session.token)
        /\ worker' = "connect" => /\ worker = "client" /\ receiver_url' = receiver_url
                                  /\ UrlAllowed(receiver_url, opt_in)
    BY DEF Run, RegisterRefused, ClientInit, Return, ReturnClosed, windowVars
  <1>3. ReceiverInv'
    BY <1>1, <1>2 DEF ReceiverInv, Connected
  <1>4. SO!Closed(session).token \notin Token
    BY RendezvousAssumption, ClosedWipes DEF SessionInv, Wiped, SO!Live
  <1>5. page.id \in Token => session'.token # page.id
    BY <1>1, <1>4 DEF PageInv
  <1>6. PageInv'
    BY <1>1, <1>5, PageStays
  <1> QED BY <1>3, <1>6

\* The registration: without the opt-in its endpoint is a secure one.
LEMMA RegisterKeeps == SessionInv /\ ReceiverInv /\ PageInv /\ Register => (ReceiverInv /\ PageInv)'
  <1> SUFFICES ASSUME SessionInv, ReceiverInv, PageInv, Register PROVE (ReceiverInv /\ PageInv)'
    OBVIOUS
  <1>1. /\ UNCHANGED <<base, opt_in, relay_base, link, page, receiver_url, session, attached>>
        /\ worker = "register" /\ worker' \in {"client", "failed"}
        /\ sent' = sent \cup {BuildEndpoint(relay_base)}
        /\ disturbed => disturbed'
    <2>1. disturbed => disturbed'
      BY Zenon DEF Register
    <2> QED BY <2>1 DEF Register, windowVars
  <1>2. RequestAllowed(relay_base, session.token, session.receiver_secret)
    BY DEF Register
  <1>3. opt_in # "1" => Secure(BuildEndpoint(relay_base))
    <2> SUFFICES ASSUME opt_in # "1" PROVE Secure(BuildEndpoint(relay_base))
      OBVIOUS
    <2>1. relay_base \in Text
      BY <1>1, BaseIsText DEF ReceiverInv, Connected
    <2>2. BuildEndpoint(relay_base) # <<>> /\ ~Starts(relay_base, Http)
      BY <1>2 DEF RequestAllowed, RequiresOptIn
    <2>3. BuildEndpoint(relay_base)[1] = "https"
      BY <2>1, <2>2, EndpointScheme
    <2> QED BY <2>3 DEF Secure
  <1>4. opt_in' # "1" => \A url \in sent' : Secure(url)
    BY <1>1, <1>3 DEF ReceiverInv
  <1>5. ReceiverInv'
    BY <1>1, <1>4 DEF ReceiverInv, Connected
  <1>6. page.id \in Token => session'.token # page.id
    BY <1>1 DEF PageInv
  <1>7. PageInv'
    BY <1>1, <1>6, PageStays
  <1> QED BY <1>5, <1>7

\* The connection: a receiver the relay has attached was configured with an origin.
LEMMA ConnectKeeps == SessionInv /\ ReceiverInv /\ PageInv /\ Connect => (ReceiverInv /\ PageInv)'
  <1> SUFFICES ASSUME SessionInv, ReceiverInv, PageInv, Connect PROVE (ReceiverInv /\ PageInv)'
    OBVIOUS
  <1>1. /\ UNCHANGED <<base, opt_in, relay_base, link, page, receiver_url>>
        /\ worker = "connect" /\ worker' \in {"listening", "failed"}
        /\ sent' = sent \cup {receiver_url}
        /\ disturbed => disturbed'
        /\ session' \in {session, SO!Closed(session)}
        /\ worker' = "listening" => /\ session' = session /\ session.token \in attached'
                                    /\ Attaches(receiver_url, session.receiver_secret)
    BY DEF Connect, ReturnClosed, windowVars
  <1>2. /\ relay_base \in Text /\ session.token \in Token
        /\ receiver_url = BuildWsPath(relay_base, ReceiverAt, session.token) /\ receiver_url # <<>>
        /\ UrlAllowed(receiver_url, opt_in)
    BY <1>1, BaseIsText DEF ReceiverInv, Connected, SessionInv, SO!Live
  <1>3. receiver_url \in Text
    <2>1. PICK k \in 4 .. Len(relay_base) : WsPath(receiver_url, relay_base, session.token, k)
      BY <1>2, WsPathIs
    <2> QED BY <2>1 DEF WsPath
  <1>4. opt_in' # "1" => \A url \in sent' : Secure(url)
    <2>1. opt_in # "1" => receiver_url[1] = "wss"
      BY <1>2, <1>3, Words, AllowedIsSecure
    <2> QED BY <1>1, <2>1 DEF ReceiverInv, Secure
  <1>5. worker' = "listening" => Origin(relay_base)
    BY <1>1, <1>2, ReachedIsOrigin DEF Attaches, Reaches
  <1>6. ReceiverInv'
    BY <1>1, <1>4, <1>5 DEF ReceiverInv, Connected
  <1>7. SO!Closed(session).token \notin Token
    BY RendezvousAssumption, ClosedWipes DEF SessionInv, Wiped, SO!Live
  <1>8. page.id \in Token => session'.token # page.id
    BY <1>1, <1>7 DEF PageInv
  <1>9. PageInv'
    BY <1>1, <1>8, PageStays
  <1> QED BY <1>6, <1>9

\* The end of a session, the end of its life at the relay, and the clock.
LEMMA OthersKeep ==
  ASSUME SessionInv, ReceiverInv, PageInv, LoopReturns \/ RelayExpires \/ Clock
  PROVE  (ReceiverInv /\ PageInv)'
  <1>1. CASE LoopReturns
    <2>1. /\ UNCHANGED <<base, opt_in, relay_base, page, sent>>
          /\ worker' \in {"down", "failed"}
          /\ disturbed => disturbed'
          /\ session' = SO!Closed(session)
      BY <1>1 DEF LoopReturns, windowVars
    <2>2. SO!Closed(session).token \notin Token
      BY RendezvousAssumption, ClosedWipes DEF SessionInv, Wiped, SO!Live
    <2>3. ReceiverInv'
      BY <2>1 DEF ReceiverInv, Connected
    <2>4. PageInv'
      BY <2>1, <2>2, PageStays
    <2> QED BY <2>3, <2>4
  <1>2. CASE RelayExpires \/ Clock
    <2>1. /\ UNCHANGED <<session, base, opt_in, worker, relay_base, link, receiver_url, page, sent>>
          /\ disturbed' \/ (disturbed' = disturbed /\ attached' = attached)
      BY <1>2 DEF RelayExpires, Clock, SO!Tick, sessionVars, others
    <2>2. ReceiverInv'
      BY <2>1 DEF ReceiverInv, Connected
    <2>3. disturbed => disturbed'
      BY <2>1
    <2>4. PageInv'
      BY <2>1, <2>3, PageStays
    <2> QED BY <2>2, <2>4
  <1> QED BY <1>1, <1>2

\* The scan: the relay serves the page at the link, and the page finds the token in it.
LEMMA ScanKeeps == SessionInv /\ ReceiverInv /\ PageInv /\ Scan => (ReceiverInv /\ PageInv)'
  <1> SUFFICES ASSUME SessionInv, ReceiverInv, PageInv, Scan PROVE (ReceiverInv /\ PageInv)'
    OBVIOUS
  <1>1. /\ UNCHANGED <<session, base, opt_in, worker, relay_base, link, receiver_url, sent,
                       attached, disturbed>>
        /\ worker = "listening"
    BY DEF Scan, phoneVars, sessionVars
  <1>2. ReceiverInv'
    BY <1>1 DEF ReceiverInv, Connected
  <1>3. /\ Origin(relay_base) /\ relay_base = LoadRelayBase(base) /\ session.token \in Token
        /\ link = Shown(relay_base, session.token) /\ link # <<>>
    BY <1>1 DEF ReceiverInv, Connected, SessionInv, SO!Live
  <1>4. link = LinkOf(relay_base, session.token)
    BY <1>3, ShownIsLink
  <1>5. \A location \in {link, Append(link, "/")} :
           /\ Reaches(location) /\ ServesPage(PathOf(location))
           /\ ParseSessionId(PathOf(location)) = session.token
           /\ location \in Locations(relay_base, session.token)
    <2> TAKE location \in {link, Append(link, "/")}
    <2>1. location \in Locations(relay_base, session.token)
      BY <1>4 DEF Locations
    <2> QED BY <1>3, <2>1, ScanLeads
  <1>6. \E location \in Locations(relay_base, session.token) :
           page' = [status |-> "ready", location |-> location, id |-> session.token]
    <2>1. session.token # None
      BY <1>3, RendezvousAssumption
    <2> QED BY <1>5, <2>1 DEF Scan
  <1>7. page'.status = "ready" /\ page'.id = session.token
        /\ page'.location \in Locations(relay_base, session.token)
    BY <1>6
  <1>8. page' \in [status : {"ready"}, location : Locations(relay_base, page'.id), id : Token]
    BY <1>3, <1>6
  <1>9. PageInv'
    BY <1>1, <1>3, <1>7, <1>8 DEF PageInv
  <1> QED BY <1>2, <1>9

\* The page joins: refused it is only where the session has gone from the relay.
LEMMA JoinKeeps == SessionInv /\ ReceiverInv /\ PageInv /\ Join => (ReceiverInv /\ PageInv)'
  <1> SUFFICES ASSUME SessionInv, ReceiverInv, PageInv, Join PROVE (ReceiverInv /\ PageInv)'
    OBVIOUS
  <1>1. /\ UNCHANGED <<session, base, opt_in, worker, relay_base, link, receiver_url, sent,
                       attached, disturbed>>
        /\ page.status = "ready"
    BY DEF Join, phoneVars, sessionVars
  <1>2. ReceiverInv'
    BY <1>1 DEF ReceiverInv, Connected
  <1>3. /\ page.id \in Token /\ Origin(relay_base) /\ relay_base = LoadRelayBase(base)
        /\ page.location \in Locations(relay_base, page.id) /\ page # NoPage
    BY <1>1 DEF PageInv, NoPage
  <1> DEFINE url == BuildSenderUrl(page.location, page.id)
  <1>4. Reaches(url) /\ IdAfter(SenderAt, PathOf(url)) = page.id
    BY <1>3, JoinLeads
  <1> HIDE DEF url
  <1>5. page' = [page EXCEPT !.status = IF page.id \in attached THEN "joined" ELSE "refused"]
    <2>1. page' = [page EXCEPT !.status = IF Reaches(url) /\ IdAfter(SenderAt, PathOf(url)) \in attached
                                          THEN "joined" ELSE "refused"]
      BY Zenon DEF Join, url
    <2> QED BY <1>4, <2>1
  <1>6. /\ page' \in [status : {"joined", "refused"}, location : {page.location}, id : {page.id}]
        /\ page'.status = "refused" => page.id \notin attached
    <2>1. page \in [status : {"ready"}, location : {page.location}, id : {page.id}]
      BY <1>1 DEF PageInv, NoPage
    <2> QED BY <1>5, <2>1
  <1>7. page.id = session.token => worker = "listening" /\ (page.id \in attached \/ disturbed)
    BY <1>3 DEF PageInv, ReceiverInv
  <1>8. /\ page' \in [status : {"ready", "joined", "refused"},
                      location : Locations(relay_base, page'.id), id : Token]
        /\ page'.id = page.id
    BY <1>3, <1>6
  <1>9. PageInv'
    BY <1>1, <1>3, <1>6, <1>7, <1>8 DEF PageInv
  <1> QED BY <1>2, <1>9

\* The inductive invariant of the way.
THEOREM WayInvariant == Spec => [](SessionInv /\ ReceiverInv /\ PageInv)
  <1>1. Init => ReceiverInv /\ PageInv
    <2> SUFFICES ASSUME Init PROVE ReceiverInv /\ PageInv
      OBVIOUS
    <2>1. base \in Text
      <3>1. <<>> \in Text
        BY Words
      <3> QED BY <3>1, RendezvousAssumption DEF Init
    <2>2. /\ worker \in {"library", "down"} /\ sent = {} /\ page = NoPage
          /\ session.token \notin Token
      BY ResetWipes, RendezvousAssumption DEF Init, SO!SessionInit, Wiped
    <2> QED BY <2>1, <2>2 DEF ReceiverInv, PageInv, NoPage, Connected
  <1>2. SessionInv /\ ReceiverInv /\ PageInv /\ [Next]_vars => (ReceiverInv /\ PageInv)'
    <2> SUFFICES ASSUME SessionInv, ReceiverInv, PageInv, [Next]_vars
                 PROVE  (ReceiverInv /\ PageInv)'
      OBVIOUS
    <2>1. CASE Worker
      BY <2>1, WorkerKeeps, RegisterKeeps, ConnectKeeps DEF Worker
    <2>2. CASE Library
      <3>1. /\ UNCHANGED others /\ worker = "library" /\ page = NoPage
        BY <2>2 DEF Library, PageInv
      <3>2. ReceiverInv'
        BY <3>1 DEF ReceiverInv, Connected, others
      <3>3. PageInv'
        BY <3>1, RendezvousAssumption DEF PageInv, NoPage, others
      <3> QED BY <3>2, <3>3
    <2>3. CASE UNCHANGED vars
      BY <2>3 DEF vars, ReceiverInv, PageInv, Connected, Origin, Locations, LinkOf
    <2> QED BY <2>1, <2>2, <2>3, PrepareKeeps, OthersKeep, ScanKeeps, JoinKeeps DEF Next
  <1>3. Spec => []SessionInv
    BY SessionInvariant
  <1> QED BY <1>1, <1>2, <1>3, PTL DEF Spec

\* Without the opt-in nothing is asked for over plain HTTP or WebSocket, whatever the
\* base URL is: the registration refuses an http base before it uses curl, and the
\* client a ws URL (win32_relay_registration.c, relay_client.c).
THEOREM NothingLeavesInClear == Spec => []NothingInClear
  <1>1. ReceiverInv => NothingInClear
    BY DEF ReceiverInv, NothingInClear
  <1> QED BY <1>1, WayInvariant, PTL

\* The code on the window leads to this receiver, for every base URL: what the window,
\* the worker, the relay and the page make of it on their own agrees.
THEOREM CodeLeadsToReceiver == Spec => []LinkLeadsHere
  <1>1. SessionInv /\ ReceiverInv /\ PageInv => LinkLeadsHere
    <2> SUFFICES ASSUME SessionInv, ReceiverInv, PageInv, worker = "listening",
                        link \in {page.location, Trimmed(page.location, 0)}
                 PROVE  /\ page.status # "invalid" /\ page.id = session.token
                        /\ page.status = "refused" => disturbed
      BY DEF LinkLeadsHere
    <2>1. /\ Origin(relay_base) /\ session.token \in Token
          /\ link = Shown(relay_base, session.token) /\ link # <<>>
      BY DEF ReceiverInv, Connected, SessionInv, SO!Live
    <2>2. link = LinkOf(relay_base, session.token)
      BY <2>1, ShownIsLink
    <2>3. page # NoPage
      BY <2>1, NoLocation DEF NoPage
    <2>4. page.id = session.token
      BY <2>1, <2>2, <2>3, LinksApart DEF PageInv
    <2> QED BY <2>3, <2>4 DEF PageInv
  <1> QED BY <1>1, WayInvariant, PTL

-----------------------------------------------------------------------------
\* The lengths of the texts.

\* Induction over a text, token by token.
LEMMA TextInduction ==
  ASSUME NEW S, <<>> \in S, \A t \in Text : t # <<>> /\ Tail(t) \in S => t \in S
  PROVE  \A t \in Text : t \in S
  <1> SUFFICES ASSUME NEW bad \in Text, bad \notin S PROVE FALSE
    OBVIOUS
  <1> DEFINE Missed == {n \in Nat : \E t \in Text : Len(t) = n /\ t \notin S}
             m == Min(Missed)
  <1>1. Missed \in SUBSET Nat /\ Len(bad) \in Missed
    BY DEF Text
  <1>2. m \in Missed /\ \A n \in Missed : m <= n
    <2> HIDE DEF Missed
    <2> QED BY <1>1, LeastMember
  <1> HIDE DEF m
  <1>3. PICK t \in Text : Len(t) = m /\ t \notin S
    BY <1>2
  <1>4. t # <<>> /\ t \in Seq(TextToken) /\ m \in Nat
    BY <1>2, <1>3, Words
  <1>5. Tail(t) \in Text /\ Len(Tail(t)) = m - 1 /\ m - 1 \in Nat
    <2>1. Tail(t) \in Seq(TextToken) /\ Len(Tail(t)) = Len(t) - 1
      BY <1>4, HeadTailProperties
    <2>2. Len(t) > 0
      BY <1>4, EmptySeq
    <2> QED BY <1>3, <1>4, <2>1, <2>2, Words
  <1>6. Tail(t) \in S
    <2> SUFFICES ASSUME Tail(t) \notin S PROVE FALSE
      OBVIOUS
    <2>1. m - 1 \in Missed
      BY <1>5
    <2>2. m <= m - 1
      BY <1>2, <2>1
    <2> QED BY <1>4, <2>2
  <1> QED BY <1>3, <1>4, <1>6

\* Every token has a length.
LEMMA LengthOfToken == \A t \in TextToken : TokenLength(t) \in Nat
  <1> SUFFICES ASSUME NEW t \in TextToken PROVE TokenLength(t) \in Nat
    OBVIOUS
  <1>1. CASE t \in Host
    BY <1>1, AddressAssumption DEF TokenLength
  <1>2. CASE t \notin Host /\ t \in DOMAIN Word
    <2>1. Word[t] \in Nat
      BY <1>2 DEF Word
    <2> QED BY <1>2, <2>1 DEF TokenLength
  <1>3. CASE t \notin Host /\ t \notin DOMAIN Word
    BY <1>3 DEF TokenLength, TokenChars
  <1> QED BY <1>1, <1>2, <1>3

\* The length of a text, where g gives that of what follows its first token.
Unfolded(g, t) == IF t = <<>> THEN 0 ELSE TokenLength(Head(t)) + g[Tail(t)]

\* The functions that give the length of every text of at most n tokens.
Lengths(n) == {g \in [Text -> Nat] : \A t \in Text : Len(t) <= n => g[t] = Unfolded(g, t)}

\* Both parts of a text that is not empty.
LEMMA HeadAndTail ==
  ASSUME NEW t \in Text, t # <<>>
  PROVE  /\ Head(t) \in TextToken /\ Tail(t) \in Text
         /\ Len(t) \in Nat /\ Len(t) > 0 /\ Len(Tail(t)) = Len(t) - 1
         /\ TokenLength(Head(t)) \in Nat
  <1>1. t \in Seq(TextToken)
    BY Words
  <1>2. Head(t) \in TextToken /\ Tail(t) \in Seq(TextToken) /\ Len(Tail(t)) = Len(t) - 1
    BY <1>1, HeadTailProperties
  <1>3. Len(t) \in Nat /\ Len(t) > 0
    BY <1>1, EmptySeq
  <1> QED BY <1>2, <1>3, Words, LengthOfToken

\* The length of a text is a number if that of what follows its first token is.
LEMMA UnfoldedType == \A g \in [Text -> Nat], t \in Text : Unfolded(g, t) \in Nat
  <1> SUFFICES ASSUME NEW g \in [Text -> Nat], NEW t \in Text PROVE Unfolded(g, t) \in Nat
    OBVIOUS
  <1>1. CASE t = <<>>
    BY <1>1 DEF Unfolded
  <1>2. CASE t # <<>>
    <2>1. TokenLength(Head(t)) \in Nat /\ g[Tail(t)] \in Nat
      BY <1>2, HeadAndTail
    <2> QED BY <1>2, <2>1 DEF Unfolded
  <1> QED BY <1>1, <1>2

\* There are such functions.
LEMMA LengthsExist == \A n \in Nat : Lengths(n) # {}
  <1> SUFFICES ASSUME NEW bad \in Nat, Lengths(bad) = {} PROVE FALSE
    OBVIOUS
  <1> DEFINE Lacking == {n \in Nat : Lengths(n) = {}}
             m == Min(Lacking)
  <1>1. m \in Lacking /\ \A n \in Lacking : m <= n
    <2>1. Lacking \in SUBSET Nat /\ bad \in Lacking
      OBVIOUS
    <2> HIDE DEF Lacking
    <2> QED BY <2>1, LeastMember
  <1> HIDE DEF m
  <1>2. CASE m = 0
    <2> DEFINE g == [t \in Text |-> 0]
    <2>1. \A t \in Text : Len(t) <= 0 => t = <<>>
      BY HeadAndTail
    <2>2. \A t \in Text : Len(t) <= 0 => g[t] = Unfolded(g, t)
      BY <2>1 DEF Unfolded
    <2>3. g \in Lengths(0)
      BY <2>2 DEF Lengths
    <2> QED BY <1>1, <1>2, <2>3
  <1>3. CASE m # 0
    <2>1. m \in Nat /\ m - 1 \in Nat /\ ~(m <= m - 1)
      BY <1>1, <1>3
    <2>2. PICK g : g \in Lengths(m - 1)
      BY <1>1, <2>1
    <2>3. g \in [Text -> Nat] /\ \A t \in Text : Len(t) <= m - 1 => g[t] = Unfolded(g, t)
      BY <2>2 DEF Lengths
    <2> DEFINE f == [t \in Text |-> Unfolded(g, t)]
    <2>4. f \in [Text -> Nat]
      BY <2>3, UnfoldedType
    <2>5. ASSUME NEW t \in Text, Len(t) <= m PROVE f[t] = Unfolded(f, t)
      <3>1. CASE t = <<>>
        BY <3>1 DEF Unfolded
      <3>2. CASE t # <<>>
        <4>1. Tail(t) \in Text /\ Len(Tail(t)) <= m - 1
          BY <2>1, <2>5, <3>2, HeadAndTail
        <4>2. f[Tail(t)] = g[Tail(t)]
          BY <2>3, <4>1
        <4>3. Unfolded(g, t) = Unfolded(f, t)
          BY <3>2, <4>2 DEF Unfolded
        <4> QED BY <4>3
      <3> QED BY <3>1, <3>2
    <2>6. f \in Lengths(m)
      <3> HIDE DEF f
      <3> QED BY <2>4, <2>5 DEF Lengths
    <2> QED BY <1>1, <2>6
  <1> QED BY <1>2, <1>3

\* They agree on those texts.
LEMMA LengthsAgree ==
  ASSUME NEW m \in Nat, NEW n \in Nat, NEW g \in Lengths(m), NEW f \in Lengths(n)
  PROVE  \A t \in Text : Len(t) <= m /\ Len(t) <= n => g[t] = f[t]
  <1> DEFINE S == {t \in Text : Len(t) <= m /\ Len(t) <= n => g[t] = f[t]}
  <1>1. ASSUME NEW t \in Text, t # <<>> => Tail(t) \in S PROVE t \in S
    <2> SUFFICES ASSUME Len(t) <= m, Len(t) <= n PROVE g[t] = f[t]
      OBVIOUS
    <2>1. g[t] = Unfolded(g, t) /\ f[t] = Unfolded(f, t)
      BY DEF Lengths
    <2>2. CASE t = <<>>
      BY <2>1, <2>2 DEF Unfolded
    <2>3. CASE t # <<>>
      <3>1. Len(Tail(t)) <= m /\ Len(Tail(t)) <= n
        BY <2>3, HeadAndTail
      <3>2. g[Tail(t)] = f[Tail(t)]
        BY <1>1, <2>3, <3>1
      <3> QED BY <2>1, <2>3, <3>2 DEF Unfolded
    <2> QED BY <2>2, <2>3
  <1>2. <<>> \in Text
    BY Words
  <1>3. <<>> \in S
    BY <1>1, <1>2
  <1>4. \A t \in Text : t # <<>> /\ Tail(t) \in S => t \in S
    BY <1>1
  <1>5. \A t \in Text : t \in S
    <2> HIDE DEF S
    <2> QED BY <1>3, <1>4, TextInduction
  <1> QED BY <1>5

\* strlen is the function its definition describes.
LEMMA StrlenUnfolds == strlen = [t \in Text |-> Unfolded(strlen, t)]
  <1> DEFINE some(n) == CHOOSE g : g \in Lengths(n)
             F == [t \in Text |-> some(Len(t))[t]]
  <1>1. \A n \in Nat : some(n) \in Lengths(n)
    BY LengthsExist
  <1> HIDE DEF some
  <1>2. \A m, n \in Nat : \A t \in Text : Len(t) <= m /\ Len(t) <= n => some(m)[t] = some(n)[t]
    BY <1>1, LengthsAgree
  <1>3. ASSUME NEW t \in Text PROVE F[t] = Unfolded(F, t)
    <2>1. Len(t) \in Nat /\ F[t] = some(Len(t))[t]
      BY DEF Text
    <2>2. F[t] = Unfolded(some(Len(t)), t)
      BY <1>1, <2>1 DEF Lengths
    <2>3. CASE t = <<>>
      BY <2>2, <2>3 DEF Unfolded
    <2>4. CASE t # <<>>
      <3>1. Tail(t) \in Text /\ Len(Tail(t)) \in Nat /\ Len(Tail(t)) <= Len(t)
        BY <2>1, <2>4, HeadAndTail
      <3>2. some(Len(t))[Tail(t)] = some(Len(Tail(t)))[Tail(t)]
        <4> DEFINE u == Tail(t)
                   n == Len(t)
                   m == Len(u)
        <4>1. u \in Text /\ n \in Nat /\ m \in Nat /\ m <= n
          BY <2>1, <3>1
        <4> HIDE DEF F, u, n
        <4>2. Len(u) <= n /\ Len(u) <= m
          BY <4>1
        <4> HIDE DEF m
        <4>3. some(n)[u] = some(m)[u]
          BY <1>2, <4>1, <4>2
        <4> QED BY <4>3 DEF u, n, m
      <3>3. some(Len(t))[Tail(t)] = F[Tail(t)]
        BY <3>1, <3>2
      <3> HIDE DEF F
      <3> QED BY <2>2, <2>4, <3>3 DEF Unfolded
    <2> QED BY <2>3, <2>4
  <1>4. F = [t \in Text |-> Unfolded(F, t)]
    BY <1>3
  <1> HIDE DEF F
  <1>5. \E f : f = [text \in Text |->
                      IF text = <<>> THEN 0 ELSE TokenLength(Head(text)) + f[Tail(text)]]
    BY <1>4 DEF Unfolded
  <1>6. strlen = [text \in Text |->
                      IF text = <<>> THEN 0 ELSE TokenLength(Head(text)) + strlen[Tail(text)]]
    BY <1>5 DEF strlen
  <1> QED BY <1>6 DEF Unfolded

\* The length of a text is a number.
LEMMA StrlenType == \A t \in Text : strlen[t] \in Nat
  <1> DEFINE S == {t \in Text : strlen[t] \in Nat}
  <1>1. ASSUME NEW t \in Text, t # <<>> => Tail(t) \in S PROVE t \in S
    <2>1. strlen[t] = Unfolded(strlen, t)
      BY StrlenUnfolds
    <2>2. CASE t = <<>>
      BY <2>1, <2>2 DEF Unfolded
    <2>3. CASE t # <<>>
      <3>1. TokenLength(Head(t)) \in Nat /\ strlen[Tail(t)] \in Nat
        BY <1>1, <2>3, HeadAndTail
      <3> QED BY <2>1, <2>3, <3>1 DEF Unfolded
    <2> QED BY <2>2, <2>3
  <1>2. <<>> \in Text
    BY Words
  <1>3. <<>> \in S
    BY <1>1, <1>2
  <1>4. \A t \in Text : t # <<>> /\ Tail(t) \in S => t \in S
    BY <1>1
  <1>5. \A t \in Text : t \in S
    <2> HIDE DEF S
    <2> QED BY <1>3, <1>4, TextInduction
  <1> QED BY <1>5

\* A concatenation begins as its first part does.
LEMMA HeadTailConcat ==
  ASSUME NEW x \in Text, x # <<>>, NEW y \in Text
  PROVE  x \o y # <<>> /\ Head(x \o y) = Head(x) /\ Tail(x \o y) = Tail(x) \o y
  <1> DEFINE z == x \o y
             tx == Tail(x)
             tz == Tail(z)
             w == tx \o y
  <1>1. x \in Seq(TextToken) /\ y \in Seq(TextToken) /\ Len(x) \in Nat /\ Len(y) \in Nat
    BY Words
  <1>2. /\ z \in Seq(TextToken) /\ Len(z) = Len(x) + Len(y)
        /\ \A i \in 1 .. Len(x) : z[i] = x[i]
        /\ \A i \in 1 .. Len(y) : z[Len(x) + i] = y[i]
    BY <1>1, Joined
  <1> HIDE DEF z
  <1>3. /\ tx \in Seq(TextToken) /\ Len(tx) = Len(x) - 1 /\ Len(x) > 0
        /\ \A i \in 1 .. Len(tx) : tx[i] = x[i + 1]
    <2>1. Len(x) > 0
      BY HeadAndTail
    <2> QED BY <1>1, <2>1, HeadTailProperties
  <1>4. z # <<>> /\ Head(z) = z[1] /\ Head(x) = x[1] /\ z[1] = x[1]
    <2>1. z # <<>>
      BY <1>1, <1>2, <1>3
    <2>2. 1 \in 1 .. Len(x)
      BY <1>1, <1>3
    <2> QED BY <1>2, <2>1, <2>2
  <1>5. /\ tz \in Seq(TextToken) /\ Len(tz) = Len(z) - 1
        /\ \A i \in 1 .. Len(tz) : tz[i] = z[i + 1]
    BY <1>2, <1>4, HeadTailProperties
  <1> HIDE DEF tx, tz
  <1>6. /\ w \in Seq(TextToken) /\ Len(w) = Len(tx) + Len(y)
        /\ \A i \in 1 .. Len(tx) : w[i] = tx[i]
        /\ \A i \in 1 .. Len(y) : w[Len(tx) + i] = y[i]
    <2>1. tx \in Seq(TextToken) /\ y \in Seq(TextToken)
      BY <1>1, <1>3
    <2> QED BY <2>1, Joined
  <1> HIDE DEF w
  <1>7. Len(tz) = Len(w)
    BY <1>1, <1>2, <1>3, <1>5, <1>6
  <1>8. ASSUME NEW i \in 1 .. Len(w) PROVE tz[i] = w[i]
    <2>1. i \in Nat /\ i >= 1 /\ i <= Len(x) - 1 + Len(y)
      BY <1>1, <1>3, <1>6
    <2>2. tz[i] = z[i + 1]
      BY <1>5, <1>7
    <2>3. CASE i <= Len(x) - 1
      <3>1. i \in 1 .. Len(tx) /\ i + 1 \in 1 .. Len(x)
        BY <1>1, <1>3, <2>1, <2>3
      <3> QED BY <1>2, <1>3, <1>6, <2>2, <3>1
    <2>4. CASE ~(i <= Len(x) - 1)
      <3>1. PICK j \in 1 .. Len(y) : i + 1 = Len(x) + j /\ i = Len(tx) + j
        <4>1. /\ i - (Len(x) - 1) \in 1 .. Len(y)
              /\ i + 1 = Len(x) + (i - (Len(x) - 1)) /\ i = Len(tx) + (i - (Len(x) - 1))
          BY <1>1, <1>3, <2>1, <2>4
        <4> QED BY <4>1
      <3> QED BY <1>2, <1>6, <2>2, <3>1
    <2> QED BY <2>3, <2>4
  <1>9. tz = w
    BY <1>5, <1>6, <1>7, <1>8, SeqEqual
  <1> QED BY <1>4, <1>9 DEF z, tz, w, tx

\* The length of a concatenation.
LEMMA StrlenJoined == \A x, y \in Text : x \o y \in Text /\ strlen[x \o y] = strlen[x] + strlen[y]
  <1> SUFFICES ASSUME NEW y \in Text
               PROVE  \A x \in Text : x \o y \in Text /\ strlen[x \o y] = strlen[x] + strlen[y]
    OBVIOUS
  <1> DEFINE S == {x \in Text : strlen[x \o y] = strlen[x] + strlen[y]}
  <1>1. \A x \in Text : x \o y \in Text
    BY Words, ConcatProperties
  <1>2. <<>> \in Text /\ <<>> \o y = y /\ strlen[<<>>] = 0 /\ strlen[y] \in Nat
    <2>1. <<>> \in Text
      BY Words
    <2>2. strlen[<<>>] = 0
      BY <2>1, StrlenUnfolds DEF Unfolded
    <2>3. <<>> \o y = y
      BY Words, ConcatEmptySeq
    <2> QED BY <2>1, <2>2, <2>3, StrlenType
  <1>3. <<>> \in S
    BY <1>2
  <1>4. ASSUME NEW x \in Text, x # <<>>, Tail(x) \in S PROVE x \in S
    <2>1. /\ Head(x) \in TextToken /\ Tail(x) \in Text /\ TokenLength(Head(x)) \in Nat
      BY <1>4, HeadAndTail
    <2>2. x \o y # <<>> /\ Head(x \o y) = Head(x) /\ Tail(x \o y) = Tail(x) \o y
      BY <1>4, Words, HeadTailConcat
    <2>3. strlen[x \o y] = TokenLength(Head(x)) + strlen[Tail(x) \o y]
      BY <1>1, <2>2, StrlenUnfolds DEF Unfolded
    <2>4. strlen[x] = TokenLength(Head(x)) + strlen[Tail(x)]
      BY <1>4, StrlenUnfolds DEF Unfolded
    <2>5. strlen[Tail(x) \o y] = strlen[Tail(x)] + strlen[y]
      BY <1>4
    <2>6. strlen[Tail(x)] \in Nat /\ strlen[y] \in Nat
      BY <2>1, StrlenType
    <2> QED BY <2>1, <2>3, <2>4, <2>5, <2>6
  <1>5. \A x \in Text : x # <<>> /\ Tail(x) \in S => x \in S
    BY <1>4
  <1>6. \A x \in Text : x \in S
    <2> HIDE DEF S
    <2> QED BY <1>3, <1>5, TextInduction
  <1> QED BY <1>1, <1>6

\* The length of one token, and of a token before a text.
LEMMA StrlenOne == \A e \in TextToken : <<e>> \in Text /\ strlen[<<e>>] = TokenLength(e)
  <1> SUFFICES ASSUME NEW e \in TextToken PROVE <<e>> \in Text /\ strlen[<<e>>] = TokenLength(e)
    OBVIOUS
  <1>1. <<e>> \in Text /\ <<>> \in Text /\ <<e>> # <<>>
    BY Words
  <1>2. Head(<<e>>) = e /\ Tail(<<e>>) = <<>>
    OBVIOUS
  <1>3. strlen[<<>>] = 0 /\ strlen[<<e>>] = TokenLength(e) + strlen[<<>>]
    BY <1>1, <1>2, StrlenUnfolds DEF Unfolded
  <1> QED BY <1>1, <1>3, LengthOfToken

\* The length of a text and one more token.
LEMMA StrlenAppend ==
  \A x \in Text, e \in TextToken :
     /\ Append(x, e) = x \o <<e>> /\ Append(x, e) \in Text
     /\ strlen[Append(x, e)] = strlen[x] + TokenLength(e)
  <1> SUFFICES ASSUME NEW x \in Text, NEW e \in TextToken
               PROVE  /\ Append(x, e) = x \o <<e>> /\ Append(x, e) \in Text
                      /\ strlen[Append(x, e)] = strlen[x] + TokenLength(e)
    OBVIOUS
  <1>1. x \in Seq(TextToken)
    BY Words
  <1>2. Append(x, e) = x \o <<e>>
    BY <1>1, AppendIsConcat
  <1>3. <<e>> \in Text /\ strlen[<<e>>] = TokenLength(e)
    BY StrlenOne
  <1> QED BY <1>2, <1>3, StrlenJoined

\* The tokens that are no host have the length of their text.
LEMMA WordLengths ==
  /\ TokenLength("https") = 6 /\ TokenLength("http") = 5 /\ TokenLength("wss") = 4
  /\ TokenLength("ws") = 3 /\ TokenLength("s") = 1 /\ TokenLength("v1") = 2
  /\ TokenLength("sessions") = 8 /\ TokenLength("receiver") = 8 /\ TokenLength("/") = 1
  /\ \A id \in Token : TokenLength(id) = 32
  <1>1. \A w \in DOMAIN Word : TokenLength(w) = Word[w]
    BY AddressAssumption DEF TokenLength
  <1>2. /\ {"https", "http", "wss", "ws", "s", "v1", "sessions", "receiver"} \subseteq DOMAIN Word
        /\ Word["https"] = 6 /\ Word["http"] = 5 /\ Word["wss"] = 4 /\ Word["ws"] = 3
        /\ Word["s"] = 1 /\ Word["v1"] = 2 /\ Word["sessions"] = 8 /\ Word["receiver"] = 8
        /\ "/" \notin DOMAIN Word
    BY DEF Word
  <1>3. TokenLength("/") = 1
    BY <1>2, Words DEF TokenLength
  <1>4. \A id \in Token : TokenLength(id) = 32
    BY AddressAssumption DEF TokenLength, TokenChars
  <1>5. \A w \in {"https", "http", "wss", "ws", "s", "v1", "sessions", "receiver"} :
           TokenLength(w) = Word[w]
    BY <1>1, <1>2
  <1> QED BY <1>2, <1>3, <1>4, <1>5

\* The length of a scheme and of the paths.
LEMMA TextLengths ==
  /\ \A w \in TextToken : <<w, "/", "/">> \in Text /\ strlen[<<w, "/", "/">>] = TokenLength(w) + 2
  /\ PageAt \in Text /\ strlen[PageAt] = 3
  /\ Sessions \in Text /\ strlen[Sessions] = 12
  /\ ReceiverAt \in Text /\ strlen[ReceiverAt] = 13
  <1>1. "/" \in TextToken /\ "s" \in TextToken /\ "v1" \in TextToken /\ "receiver" \in TextToken
        /\ "sessions" \in TextToken
    BY DEF TextToken, Word
  <1>2. ASSUME NEW e \in TextToken, NEW t \in Text
        PROVE  /\ <<e>> \o t \in Text /\ strlen[<<e>> \o t] = TokenLength(e) + strlen[t]
               /\ TokenLength(e) \in Nat /\ strlen[t] \in Nat
    BY StrlenOne, StrlenJoined, StrlenType, LengthOfToken
  <1>3. ASSUME NEW e \in TextToken PROVE <<e>> \in Text /\ strlen[<<e>>] = TokenLength(e)
    BY StrlenOne
  <1>4. ASSUME NEW w \in TextToken
        PROVE  <<w, "/", "/">> \in Text /\ strlen[<<w, "/", "/">>] = TokenLength(w) + 2
    <2>1. <<w, "/", "/">> = <<w>> \o (<<"/">> \o <<"/">>)
      OBVIOUS
    <2>2. <<"/">> \o <<"/">> \in Text /\ strlen[<<"/">> \o <<"/">>] = 2
      BY <1>1, <1>2, <1>3, WordLengths
    <2> DEFINE y == <<"/">> \o <<"/">>
    <2> HIDE DEF y
    <2>3. <<w>> \o y \in Text /\ strlen[<<w>> \o y] = TokenLength(w) + 2
      BY <1>2, <2>2 DEF y
    <2> QED BY <2>1, <2>3 DEF y
  <1>5. PageAt \in Text /\ strlen[PageAt] = 3
    <2>1. PageAt = <<"/">> \o (<<"s">> \o <<"/">>)
      BY DEF PageAt
    <2>2. <<"s">> \o <<"/">> \in Text /\ strlen[<<"s">> \o <<"/">>] = 2
      BY <1>1, <1>2, <1>3, WordLengths
    <2> DEFINE y == <<"s">> \o <<"/">>
    <2> HIDE DEF y
    <2>3. <<"/">> \o y \in Text /\ strlen[<<"/">> \o y] = 3
      BY <1>1, <1>2, <2>2, WordLengths DEF y
    <2> QED BY <2>1, <2>3 DEF y
  <1>6. Sessions \in Text /\ strlen[Sessions] = 12
    <2>1. Sessions = <<"/">> \o (<<"v1">> \o (<<"/">> \o <<"sessions">>))
      BY DEF Sessions
    <2>2. <<"/">> \o <<"sessions">> \in Text /\ strlen[<<"/">> \o <<"sessions">>] = 9
      BY <1>1, <1>2, <1>3, WordLengths
    <2> DEFINE y == <<"/">> \o <<"sessions">>
    <2> HIDE DEF y
    <2>3. <<"v1">> \o y \in Text /\ strlen[<<"v1">> \o y] = 11
      BY <1>1, <1>2, <2>2, WordLengths DEF y
    <2> DEFINE z == <<"v1">> \o y
    <2> HIDE DEF z
    <2>4. <<"/">> \o z \in Text /\ strlen[<<"/">> \o z] = 12
      BY <1>1, <1>2, <2>3, WordLengths DEF z
    <2> QED BY <2>1, <2>4 DEF y, z
  <1>7. ReceiverAt \in Text /\ strlen[ReceiverAt] = 13
    <2>1. ReceiverAt = <<"/">> \o (<<"v1">> \o (<<"/">> \o (<<"receiver">> \o <<"/">>)))
      BY DEF ReceiverAt
    <2> DEFINE x == <<"receiver">> \o <<"/">>
               y == <<"/">> \o x
               z == <<"v1">> \o y
    <2>2. x \in Text /\ strlen[x] = 9
      BY <1>1, <1>2, <1>3, WordLengths
    <2> HIDE DEF x
    <2>3. y \in Text /\ strlen[y] = 10
      BY <1>1, <1>2, <2>2, WordLengths
    <2> HIDE DEF y
    <2>4. z \in Text /\ strlen[z] = 12
      BY <1>1, <1>2, <2>3, WordLengths
    <2> HIDE DEF z
    <2>5. <<"/">> \o z \in Text /\ strlen[<<"/">> \o z] = 13
      BY <1>1, <1>2, <2>4, WordLengths
    <2> QED BY <2>1, <2>5 DEF x, y, z
  <1> QED BY <1>4, <1>5, <1>6, <1>7

-----------------------------------------------------------------------------
\* The base URLs that are meant to work.

\* An origin that the opt-in allows and whose link fits the QR code.
UsableBase(b) ==
    /\ Origin(b) /\ b[4] \notin NotUtf8
    /\ b[1] = "https" \/ opt_in = "1"
    /\ strlen[b] < UiRelayCapacity
    /\ strlen[SubSeq(b, 1, 4) \o PageAt] + TokenChars <= QrCapacity

\* The four tokens of an origin as a scheme and a host, and what they leave of it.
LEMMA OriginIs ==
  ASSUME NEW b, Origin(b)
  PROVE  LET x == SubSeq(b, 1, 4)
         IN  /\ x \in Text /\ x = <<b[1], "/", "/">> \o <<b[4]>>
             /\ strlen[x] = TokenLength(b[1]) + 2 + TokenLength(b[4])
             /\ Trimmed(b, 3) = x /\ Len(x) = 4 /\ x[4] = b[4]
             /\ ~Marked(b)
             /\ Starts(b, Https) <=> b[1] = "https"
             /\ Starts(b, Http) <=> b[1] = "http"
  <1> DEFINE x == SubSeq(b, 1, 4)
             p == <<b[1], "/", "/">>
             q == <<b[4]>>
             y == p \o q
  <1>1. b \in Seq(TextToken) /\ Len(b) \in Nat /\ Len(b) >= 4
    BY Words DEF Origin
  <1>2. /\ b[1] \in {"https", "http"} /\ b[2] = "/" /\ b[3] = "/" /\ b[4] \in Host
        /\ \A i \in 5 .. Len(b) : b[i] = "/"
    BY DEF Origin
  <1>3. b[1] \in TextToken /\ b[4] \in TextToken
    BY <1>1
  <1>4. x \in Text /\ Len(x) = 4 /\ \A i \in 1 .. 4 : x[i] = b[i]
    BY OriginTokens DEF FourTokens
  <1>5. /\ y \in Seq(TextToken) /\ Len(y) = 4
        /\ y[1] = b[1] /\ y[2] = "/" /\ y[3] = "/" /\ y[4] = b[4]
    BY <1>3, HostJoined
  <1>6. /\ p \in Text /\ strlen[p] = TokenLength(b[1]) + 2
        /\ q \in Text /\ strlen[q] = TokenLength(b[4])
    BY <1>3, TextLengths, StrlenOne
  <1>7. strlen[y] = strlen[p] + strlen[q]
    BY <1>6, StrlenJoined
  <1> HIDE DEF x, p, q
  <1>8. x = y
    <2> HIDE DEF y
    <2>1. 1 .. 4 = {1, 2, 3, 4}
      OBVIOUS
    <2>2. \A i \in 1 .. 4 : x[i] = y[i]
      BY <1>2, <1>4, <1>5, <2>1
    <2>3. x \in Seq(TextToken) /\ y \in Seq(TextToken)
      BY <1>4, <1>5, Words
    <2> QED BY <1>4, <1>5, <2>2, <2>3, SeqEqual
  <1>9. Trimmed(b, 3) = x
    <2>1. b[4] # "/"
      BY <1>2, Words
    <2>2. 3 \in 0 .. Len(b) /\ 4 \in 3 .. Len(b) /\ \A i \in 4 + 1 .. Len(b) : b[i] = "/"
      BY <1>1, <1>2
    <2> QED BY <1>1, <2>1, <2>2, TrimmedIs DEF x
  <1>10. ~Marked(b)
    <2>1. \A i \in 1 .. Len(b) : i \in 5 .. Len(b) \/ i \in {1, 2, 3, 4}
      BY <1>1
    <2>2. b[1] \notin Mark /\ b[2] \notin Mark /\ b[3] \notin Mark /\ b[4] \notin Mark
      BY <1>2, Words
    <2>3. "/" \notin Mark
      BY Words
    <2>4. \A i \in 1 .. Len(b) : b[i] \notin Mark
      BY <1>2, <2>1, <2>2, <2>3
    <2> QED BY <2>4 DEF Marked, Contains, Mark
  <1>11. (Starts(b, Https) <=> b[1] = "https") /\ (Starts(b, Http) <=> b[1] = "http")
    BY <1>1, <1>2, StartsMeans DEF Https, Http
  <1>12. x[4] = b[4]
    BY <1>4
  <1> QED BY <1>4, <1>6, <1>7, <1>8, <1>9, <1>10, <1>11, <1>12 DEF x, p, q

\* Without PRINTDROP_BASE_URL the base is the address of the default relay.
LEMMA DefaultIsUsable ==
  LET b == Append(Https, DefaultHost) IN UsableBase(b) /\ b # <<>>
  <1> DEFINE b == Append(Https, DefaultHost)
             p == <<"https", "/", "/">>
             q == <<DefaultHost>>
             y == p \o q
  <1>1. DefaultHost \in Host /\ DefaultHost \in TextToken /\ "https" \in TextToken
    BY AddressAssumption, Words
  <1>2. Https \in Text /\ strlen[Https] = 8
    BY <1>1, TextLengths, WordLengths DEF Https
  <1>3. TokenLength(DefaultHost) = 18
    BY AddressAssumption DEF TokenLength
  <1>4. b = Https \o <<DefaultHost>> /\ b \in Text /\ strlen[b] = 26
    BY <1>1, <1>2, <1>3, StrlenAppend
  <1>5. b = y
    BY <1>4 DEF Https
  <1>6. /\ y \in Seq(TextToken) /\ Len(y) = 4
        /\ y[1] = "https" /\ y[2] = "/" /\ y[3] = "/" /\ y[4] = DefaultHost
    BY <1>1, HostJoined
  <1> HIDE DEF b, y
  <1>7. Origin(b)
    <2>1. /\ b \in Text /\ Len(b) = 4
          /\ b[1] = "https" /\ b[2] = "/" /\ b[3] = "/" /\ b[4] = DefaultHost
      BY <1>4, <1>5, <1>6
    <2>2. Len(b) >= 4 /\ \A i \in 5 .. Len(b) : b[i] = "/"
      BY <2>1
    <2> QED BY <1>1, <2>1, <2>2 DEF Origin
  <1>8. SubSeq(b, 1, 4) = b
    BY <1>5, <1>6, SubSeqFull
  <1>9. strlen[b \o PageAt] = 29
    BY <1>4, StrlenJoined, TextLengths
  <1>10. b[4] \notin NotUtf8 /\ b[1] = "https"
    BY <1>5, <1>6, RendezvousAssumption
  <1>11. UsableBase(b)
    <2>1. strlen[SubSeq(b, 1, 4) \o PageAt] = 29 /\ strlen[b] = 26
      BY <1>4, <1>8, <1>9
    <2>2. 29 + TokenChars <= QrCapacity /\ 26 < UiRelayCapacity
      BY DEF TokenChars, QrCapacity, UiRelayCapacity
    <2> QED BY <1>7, <1>10, <2>1, <2>2 DEF UsableBase
  <1>12. b # <<>>
    BY <1>5, <1>6
  <1> QED BY <1>11, <1>12 DEF b

\* A configuration is usable if the base the receiver loads of it is.
LEMMA UsableMeans == base \in Text => (Usable <=> UsableBase(LoadRelayBase(base)))
  <1> SUFFICES ASSUME base \in Text PROVE Usable <=> UsableBase(LoadRelayBase(base))
    OBVIOUS
  <1>1. CASE base = <<>>
    BY <1>1, DefaultIsUsable DEF Usable, LoadRelayBase
  <1>2. CASE base # <<>>
    <2>1. base \in Seq(TextToken) /\ Len(base) \in Nat
      BY Words
    <2>2. /\ Starts(base, Https) <=>
                Len(base) > 3 /\ base[1] = "https" /\ base[2] = "/" /\ base[3] = "/"
          /\ Starts(base, Http) <=>
                Len(base) > 3 /\ base[1] = "http" /\ base[2] = "/" /\ base[3] = "/"
      BY <2>1, StartsMeans DEF Https, Http
    <2>3. Https # Http
      BY DEF Https, Http
    <2>4. (\E scheme \in {Https, Http} : Starts(base, scheme) /\ (scheme = Https \/ opt_in = "1"))
             <=> Starts(base, Https) \/ (Starts(base, Http) /\ opt_in = "1")
      BY <2>3
    <2>5. Len(base) > 3 <=> Len(base) >= 4
      BY <2>1
    <2>6. Starts(base, Https) \/ (Starts(base, Http) /\ opt_in = "1")
             <=> /\ Len(base) >= 4 /\ base[1] \in {"https", "http"}
                 /\ base[2] = "/" /\ base[3] = "/"
                 /\ base[1] = "https" \/ opt_in = "1"
      BY <2>2, <2>5
    <2>7. Usable <=> UsableBase(base)
      BY <1>2, <2>4, <2>6 DEF Usable, UsableBase, Origin
    <2>8. CASE strlen[base] < UiRelayCapacity
      BY <1>2, <2>7, <2>8 DEF LoadRelayBase
    <2>9. CASE ~(strlen[base] < UiRelayCapacity)
      <3>1. ~Origin(<<>>)
        BY DEF Origin
      <3> QED BY <1>2, <2>9, <3>1 DEF LoadRelayBase, UsableBase, Usable
    <2> QED BY <2>8, <2>9
  <1> QED BY <1>1, <1>2

\* What an origin of a link that fits the QR code leaves for the scheme and the host.
LEMMA OriginFits ==
  ASSUME NEW b, Origin(b)
  PROVE  LET x == SubSeq(b, 1, 4)
         IN  /\ x \o PageAt \in Text /\ strlen[x \o PageAt] = strlen[x] + 3
             /\ x \o Sessions \in Text /\ strlen[x \o Sessions] = strlen[x] + 12
             /\ strlen[x] \in Nat /\ TokenLength(b[4]) \in Nat
             /\ TokenLength(b[4]) <= strlen[x]
             /\ x \o PageAt # <<>> /\ x \o Sessions # <<>>
  <1> DEFINE x == SubSeq(b, 1, 4)
  <1>1. /\ x \in Text /\ strlen[x] = TokenLength(b[1]) + 2 + TokenLength(b[4]) /\ Len(x) = 4
    BY OriginIs
  <1>2. TokenLength(b[1]) \in Nat /\ TokenLength(b[4]) \in Nat
    <2>1. b[1] \in TextToken /\ b[4] \in TextToken
      BY Words DEF Origin
    <2> QED BY <2>1, LengthOfToken
  <1> HIDE DEF x
  <1>3. /\ x \o PageAt \in Text /\ strlen[x \o PageAt] = strlen[x] + 3
        /\ x \o Sessions \in Text /\ strlen[x \o Sessions] = strlen[x] + 12
    BY <1>1, TextLengths, StrlenJoined
  <1>4. \A y \in Text : x \o y # <<>>
    <2> TAKE y \in Text
    <2>1. x \in Text /\ Len(x) = 4
      BY <1>1
    <2>2. x # <<>>
      BY <2>1
    <2> QED BY <2>1, <2>2, HeadTailConcat
  <1>5. x \o PageAt # <<>> /\ x \o Sessions # <<>>
    BY <1>4, TextLengths
  <1>6. \A m, n, k \in Nat : k = m + 2 + n => n <= k
    OBVIOUS
  <1>7. strlen[x] \in Nat
    BY <1>1, StrlenType
  <1>8. TokenLength(b[4]) <= strlen[x]
    BY <1>1, <1>2, <1>6, <1>7
  <1> QED BY <1>2, <1>3, <1>5, <1>7, <1>8 DEF x

\* The window shows the link of an origin if it fits the QR code and is UTF-8.
LEMMA ShownIff ==
  ASSUME NEW b, Origin(b), NEW id \in Token
  PROVE  Shown(b, id) # <<>> <=>
            b[4] \notin NotUtf8 /\ strlen[SubSeq(b, 1, 4) \o PageAt] + TokenChars <= QrCapacity
  <1> DEFINE x == SubSeq(b, 1, 4)
             p == x \o PageAt
             url == Append(p, id)
  <1>1. Trimmed(b, 0) = x /\ x \in Seq(TextToken) /\ x # <<>>
    <2>1. Trimmed(b, 0) = x /\ x \in Seq(TextToken) /\ Len(x) = 4
      BY OriginTokens, Words DEF FourTokens
    <2> HIDE DEF x
    <2> QED BY <2>1
  <1>2. p \in Text /\ p # <<>> /\ strlen[p] \in Nat
    BY OriginFits, StrlenType
  <1>3. LinkOf(b, id) = url
    <2>1. PageAt \in Seq(TextToken) /\ id \in TextToken
      BY Words, TextLengths
    <2> QED BY <1>1, <2>1, AppendAfter DEF LinkOf
  <1>4. /\ url \in Text /\ Len(url) = 8 /\ url[8] = id
        /\ \A i \in 1 .. 4 : url[i] = b[i]
    <2>1. /\ LinkOf(b, id) \in Text /\ Len(LinkOf(b, id)) = 8 /\ LinkOf(b, id)[8] = id
          /\ \A i \in 1 .. 4 : LinkOf(b, id)[i] = b[i]
      BY LinkTokens
    <2> HIDE DEF url
    <2> QED BY <1>3, <2>1
  <1> HIDE DEF x
  <1>5. \A i \in 5 .. 7 : url[i] \in {"/", "s"}
    <2> DEFINE t == Append(PageAt, id)
    <2>1. FourTokens(x)
      BY OriginTokens DEF x
    <2>2. t \in Text /\ Len(t) = 4 /\ \A i \in 1 .. 4 : t[i] \notin Mark
      BY PagePath
    <2>3. \A i \in 1 .. 3 : t[i] \in {"/", "s"}
      <3>1. PageAt \in Text
        BY TextLengths
      <3>2. \A i \in 1 .. Len(PageAt) : t[i] = PageAt[i]
        BY <3>1, IdIsFound
      <3>3. Len(PageAt) = 3 /\ PageAt[1] = "/" /\ PageAt[2] = "s" /\ PageAt[3] = "/"
        BY DEF PageAt
      <3>4. 1 .. 3 = {1, 2, 3}
        OBVIOUS
      <3> HIDE DEF t
      <3> QED BY <3>2, <3>3, <3>4
    <2>4. url = x \o t
      BY <1>3 DEF LinkOf, x
    <2> HIDE DEF t, url
    <2>5. t \in Text /\ \A i \in 1 .. Len(t) : t[i] \notin Mark
      BY <2>2
    <2>6. \A i \in 1 .. Len(t) : (x \o t)[4 + i] = t[i]
      BY <2>1, <2>5, UrlParts
    <2>7. \A i \in 5 .. 7 : i - 4 \in 1 .. 3 /\ i - 4 \in 1 .. 4 /\ 4 + (i - 4) = i
      OBVIOUS
    <2>8. \A i \in 5 .. 7 : url[4 + (i - 4)] = t[i - 4] /\ t[i - 4] \in {"/", "s"}
      BY <2>2, <2>3, <2>4, <2>6, <2>7
    <2> QED BY <2>7, <2>8
  <1>6. strlen[url] = strlen[p] + 32
    <2>1. id \in TextToken /\ TokenLength(id) = 32
      BY Words, WordLengths
    <2> HIDE DEF p
    <2> QED BY <1>2, <2>1, StrlenAppend
  <1> HIDE DEF p, url
  <1>7. ToSet(url) \cap NotUtf8 = {} <=> b[4] \notin NotUtf8
    <2>1. ToSet(url) = {url[i] : i \in 1 .. 8}
      BY <1>4, Words DEF ToSet
    <2>2. 1 .. 8 = {1, 2, 3, 4, 5, 6, 7, 8} /\ 5 .. 7 = {5, 6, 7} /\ 1 .. 4 = {1, 2, 3, 4}
      OBVIOUS
    <2>3. /\ url[1] \in {"https", "http"} /\ url[2] = "/" /\ url[3] = "/" /\ url[4] = b[4]
          /\ url[5] \in {"/", "s"} /\ url[6] \in {"/", "s"} /\ url[7] \in {"/", "s"}
          /\ url[8] \in Token
      BY <1>4, <1>5, <2>2 DEF Origin
    <2>4. /\ {"https", "http", "/", "s"} \cap NotUtf8 = {} /\ Token \cap NotUtf8 = {}
      <3>1. {"https", "http", "s"} \subseteq DOMAIN Word
        BY DEF Word
      <3> QED BY <3>1, RendezvousAssumption, AddressAssumption
    <2> QED BY <2>1, <2>2, <2>3, <2>4
  <1>8. url # <<>>
    BY <1>4
  <1>9. CASE strlen[p] + 1 > UiRelayCapacity
    <2>1. BuildPrefix(b) = <<>>
      BY <1>1, <1>9 DEF BuildPrefix, p
    <2>2. BuildUrl(<<>>, id) = <<>>
      BY DEF BuildUrl
    <2>3. Shown(b, id) = <<>>
      BY <2>1, <2>2 DEF Shown
    <2>4. \A n \in Nat : n + 1 > 256 => ~(n + 32 <= 213)
      OBVIOUS
    <2> QED BY <1>2, <1>9, <2>3, <2>4 DEF UiRelayCapacity, TokenChars, QrCapacity, p, x
  <1>10. CASE ~(strlen[p] + 1 > UiRelayCapacity)
    <2>1. BuildPrefix(b) = p
      BY <1>1, <1>10 DEF BuildPrefix, p
    <2>2. \A n \in Nat : ~(n + 1 > 256) => ~(n + 32 + 1 > 512)
      OBVIOUS
    <2>3. ~(strlen[url] + 1 > UiUrlCapacity)
      BY <1>2, <1>6, <1>10, <2>2 DEF UiRelayCapacity, UiUrlCapacity
    <2>4. BuildUrl(p, id) = url
      BY <1>2, <2>3 DEF BuildUrl, url
    <2>5. Shown(b, id) # <<>> <=> strlen[url] <= QrCapacity /\ ToSet(url) \cap NotUtf8 = {}
      BY <1>8, <2>1, <2>4 DEF Shown
    <2> QED BY <1>6, <1>7, <2>5 DEF TokenChars, p, x
  <1> QED BY <1>9, <1>10

\* A usable base makes an endpoint that leads to the relay's registration.
LEMMA EndpointLeads ==
  ASSUME UsableBase(relay_base)
  PROVE  LET url == BuildEndpoint(relay_base)
         IN  url # <<>> /\ url \in Text /\ Registers(url)
  <1> DEFINE b == relay_base
             x == SubSeq(b, 1, 4)
             url == x \o Sessions
  <1>1. Origin(b) /\ b \in Text /\ strlen[b] < 256 /\ strlen[x \o PageAt] + 32 <= 213
    BY DEF UsableBase, Origin, UiRelayCapacity, TokenChars, QrCapacity
  <1>2. /\ Trimmed(b, 3) = x /\ Len(x) = 4 /\ ~Marked(b)
        /\ Starts(b, Https) \/ Starts(b, Http)
    BY <1>1, OriginIs DEF Origin
  <1>3. /\ strlen[x \o PageAt] = strlen[x] + 3 /\ strlen[url] = strlen[x] + 12
        /\ strlen[x] \in Nat /\ url # <<>> /\ url \in Text
    BY <1>1, OriginFits
  <1>4. strlen[b] \in Nat /\ ~(strlen[b] > BaseUrlMax)
    BY <1>1, StrlenType DEF BaseUrlMax
  <1>5. ~(strlen[url] + 1 > EndpointCapacity)
    <2>1. \A n \in Nat : n + 3 + 32 <= 213 => ~(n + 12 + 1 > 512)
      OBVIOUS
    <2> HIDE DEF x, url
    <2> QED BY <1>1, <1>3, <2>1 DEF EndpointCapacity
  <1>6. BuildEndpoint(b) = url
    <2>1. Len(Https) = 3 /\ Len(Http) = 3
      BY DEF Https, Http
    <2> DEFINE n == IF Starts(b, Https) THEN Len(Https)
                    ELSE IF Starts(b, Http) THEN Len(Http) ELSE 0
    <2>2. n = 3
      BY <1>2, <2>1
    <2>3. BuildEndpoint(b) =
            IF \/ n = 0 \/ strlen[b] > BaseUrlMax \/ Marked(b)
               \/ Len(Trimmed(b, n)) <= n
               \/ strlen[Trimmed(b, n) \o Sessions] + 1 > EndpointCapacity
            THEN <<>> ELSE Trimmed(b, n) \o Sessions
      BY Zenon DEF BuildEndpoint
    <2> HIDE DEF n
    <2>4. Trimmed(b, n) = x /\ ~(Len(Trimmed(b, n)) <= n) /\ n # 0
      <3> HIDE DEF x
      <3>1. Trimmed(b, n) = x
        BY <1>2, <2>2
      <3> QED BY <1>2, <2>2, <3>1
    <2> HIDE DEF x
    <2> QED BY <1>2, <1>4, <1>5, <2>3, <2>4
  <1>7. FourTokens(x) /\ \A i \in 1 .. 4 : x[i] = b[i]
    BY <1>1, OriginTokens
  <1>8. /\ Sessions \in Text /\ Len(Sessions) = 4
        /\ \A i \in 1 .. Len(Sessions) : Sessions[i] \notin Mark
    <2>1. 1 .. 4 = {1, 2, 3, 4}
      OBVIOUS
    <2>2. /\ Len(Sessions) = 4 /\ Sessions[1] = "/" /\ Sessions[2] = "v1"
          /\ Sessions[3] = "/" /\ Sessions[4] = "sessions"
      BY DEF Sessions
    <2>3. "/" \notin Mark /\ "v1" \notin Mark /\ "sessions" \notin Mark
      BY DEF Mark
    <2> QED BY <2>1, <2>2, <2>3, TextLengths
  <1> HIDE DEF x
  <1>9. /\ Len(x \o Sessions) = 4 + Len(Sessions)
        /\ \A i \in 1 .. 4 : (x \o Sessions)[i] = x[i]
        /\ PathOf(x \o Sessions) = Sessions
    BY <1>7, <1>8, UrlParts
  <1> HIDE DEF url
  <1>10. Len(url) > 4 /\ \A i \in 1 .. 4 : url[i] = b[i]
    BY <1>7, <1>8, <1>9 DEF url
  <1>11. Reaches(url)
    <2>1. /\ url[1] = b[1] /\ url[2] = "/" /\ url[3] = "/" /\ url[4] = b[4]
      BY <1>1, <1>10 DEF Origin
    <2> QED BY <1>1, <1>3, <1>10, <2>1, OriginReaches
  <1> QED BY <1>3, <1>6, <1>9, <1>11 DEF Registers, url

\* It makes a URL for the client that is allowed and leads to the receiver handler and
\* to the session.
LEMMA ReceiverUrlLeads ==
  ASSUME UsableBase(relay_base), NEW id \in Token
  PROVE  LET url == BuildWsPath(relay_base, ReceiverAt, id)
         IN  /\ url # <<>> /\ UrlAllowed(url, opt_in)
             /\ Reaches(url) /\ IdAfter(ReceiverAt, PathOf(url)) = id
  <1> DEFINE b == relay_base
             T == Trimmed(b, 3)
             h == b[4]
             w == IF b[1] = "https" THEN "wss" ELSE "ws"
             p == <<w, "/", "/">>
             q == <<h>>
             x == p \o q
             t == Append(ReceiverAt, id)
             url == x \o t
  <1>1. /\ Origin(b) /\ b \in Text /\ strlen[b] < 256
        /\ strlen[SubSeq(b, 1, 4) \o PageAt] + 32 <= 213
        /\ b[1] = "https" \/ opt_in = "1"
    BY DEF UsableBase, Origin, UiRelayCapacity, TokenChars, QrCapacity
  <1>2. /\ T = SubSeq(b, 1, 4) /\ Len(T) = 4 /\ T[4] = h /\ T \in Text /\ ~Marked(b)
        /\ Starts(b, Https) <=> b[1] = "https"
        /\ Starts(b, Http) <=> b[1] = "http"
    BY <1>1, OriginIs
  <1>3. TokenLength(h) \in Nat /\ TokenLength(h) + 3 + 32 <= 213
    <2>1. /\ TokenLength(h) \in Nat /\ strlen[SubSeq(b, 1, 4)] \in Nat
          /\ TokenLength(h) <= strlen[SubSeq(b, 1, 4)]
          /\ strlen[SubSeq(b, 1, 4) \o PageAt] = strlen[SubSeq(b, 1, 4)] + 3
      BY <1>1, OriginFits
    <2>2. \A m, n \in Nat : m <= n /\ n + 3 + 32 <= 213 => m + 3 + 32 <= 213
      OBVIOUS
    <2> HIDE DEF h
    <2> QED BY <1>1, <2>1, <2>2
  <1>4. /\ w \in {"wss", "ws"} /\ w \in TextToken /\ w \notin Mark
        /\ h \in Host /\ h \in TextToken /\ h \notin Mark /\ b[1] \in {"https", "http"}
    BY <1>1, Words DEF Origin
  <1>5. strlen[b] \in Nat /\ ~(strlen[b] > BaseUrlMax)
    BY <1>1, StrlenType DEF BaseUrlMax
  <1> HIDE DEF T
  <1>6. From(T, 4) = q
    <2>1. From(T, 4) = SubSeq(T, 4, 4)
      BY <1>2 DEF From
    <2>2. SubSeq(T, 4, 4) = <<T[4]>>
      <3>1. T \in Seq(TextToken) /\ 4 \in 1 .. Len(T)
        BY <1>2, Words
      <3> DEFINE f == SubSeq(T, 4, 4)
      <3>2. /\ f \in Seq(TextToken) /\ Len(f) = IF 4 <= 4 THEN 4 - 4 + 1 ELSE 0
            /\ \A i \in 1 .. 4 - 4 + 1 : f[i] = T[4 + i - 1]
        <4>1. \A i \in 4 .. 4 : T[i] \in TextToken
          BY <3>1, <1>2
        <4> QED BY <4>1, SubSeqProperties
      <3> HIDE DEF f
      <3>3. 4 - 4 + 1 = 1 /\ 1 \in 1 .. 1 /\ 4 + 1 - 1 = 4
        OBVIOUS
      <3>4. f \in Seq(TextToken) /\ Len(f) = 1 /\ f[1] = T[4]
        BY <3>2, <3>3
      <3>5. f = <<f[1]>>
        <4>1. <<f[1]>> \in Seq(TextToken) /\ Len(<<f[1]>>) = 1 /\ <<f[1]>>[1] = f[1]
          BY <1>2, <1>4, <3>4
        <4>2. \A i \in 1 .. 1 : f[i] = <<f[1]>>[i]
          BY <4>1
        <4> QED BY <3>4, <4>1, <4>2, SeqEqual
      <3> QED BY <3>4, <3>5 DEF f
    <2> QED BY <1>2, <2>1, <2>2
  <1>7. /\ NormalizedScheme(b) = IF b[1] = "https" THEN Https ELSE Http
        /\ NormalizedScheme(b) # <<>> /\ Len(NormalizedScheme(b)) = 3
    <2>1. Len(Https) = 3 /\ Len(Http) = 3 /\ Https # <<>> /\ Http # <<>>
      BY DEF Https, Http
    <2> DEFINE scheme == IF Starts(b, Https) THEN Https
                         ELSE IF Starts(b, Http) THEN Http ELSE <<>>
    <2>2. scheme = IF b[1] = "https" THEN Https ELSE Http
      BY <1>2, <1>4
    <2>3. NormalizedScheme(b) =
            IF \/ scheme = <<>> \/ strlen[b] > BaseUrlMax \/ Marked(b)
               \/ Len(Trimmed(b, Len(scheme))) <= Len(scheme)
            THEN <<>> ELSE scheme
      BY Zenon DEF NormalizedScheme
    <2> HIDE DEF scheme
    <2>4. scheme # <<>> /\ Len(scheme) = 3
      BY <2>1, <2>2
    <2>5. ~(Len(Trimmed(b, Len(scheme))) <= Len(scheme))
      <3>1. Trimmed(b, Len(scheme)) = T
        BY <2>4 DEF T
      <3> QED BY <1>2, <2>4, <3>1
    <2> HIDE DEF h, w
    <2> QED BY <1>2, <1>5, <2>2, <2>3, <2>4, <2>5
  <1>8. (IF NormalizedScheme(b) = Https THEN Wss ELSE Ws) = p
    <2>1. Https # Http
      BY DEF Https, Http
    <2> QED BY <1>4, <1>7, <2>1 DEF Wss, Ws
  <1>9. /\ t \in Text /\ Len(t) = 6 /\ t[6] = id /\ \A i \in 1 .. Len(t) : t[i] \notin Mark
        /\ IdAfter(ReceiverAt, t) = id /\ strlen[t] = 45
    <2>1. ReceiverAt \in Text /\ strlen[ReceiverAt] = 13
      BY TextLengths
    <2>2. id \in TextToken /\ TokenLength(id) = 32
      BY Words, WordLengths
    <2>3. strlen[t] = 45
      <3>1. strlen[t] = strlen[ReceiverAt] + TokenLength(id)
        BY <2>1, <2>2, StrlenAppend
      <3> HIDE DEF t
      <3> QED BY <2>1, <2>2, <3>1
    <2>4. IdAfter(ReceiverAt, t) = id
      BY <2>1, IdIsFound
    <2>5. t \in Text /\ Len(t) = 6 /\ t[6] = id /\ \A i \in 1 .. 6 : t[i] \notin Mark
      BY ReceiverPath
    <2> HIDE DEF t
    <2> QED BY <2>3, <2>4, <2>5
  <1>10. /\ x \in Text /\ strlen[x] = TokenLength(w) + 2 + TokenLength(h)
         /\ TokenLength(w) \in {3, 4}
    <2>1. /\ p \in Text /\ q \in Text /\ strlen[p] = TokenLength(w) + 2
          /\ strlen[q] = TokenLength(h)
      BY <1>4, TextLengths, StrlenOne
    <2> HIDE DEF p, q, w, h
    <2>2. TokenLength(w) \in {3, 4}
      BY <1>4, WordLengths
    <2> QED BY <2>1, <2>2, StrlenJoined
  <1>11. /\ x \in Seq(TextToken) /\ Len(x) = 4
         /\ x[1] = w /\ x[2] = "/" /\ x[3] = "/" /\ x[4] = h
    BY <1>4, HostJoined
  <1> HIDE DEF w, h, p, q, x, t
  <1>12. FourTokens(x)
    <2>1. 1 .. 4 = {1, 2, 3, 4} /\ "/" \notin Mark
      BY Words
    <2> QED BY <1>4, <1>10, <1>11, <2>1 DEF FourTokens
  <1>13. /\ x \o t \in Text /\ Len(x \o t) = 4 + Len(t)
         /\ \A i \in 1 .. 4 : (x \o t)[i] = x[i]
         /\ PathOf(x \o t) = t
    <2>1. t \in Text /\ \A i \in 1 .. Len(t) : t[i] \notin Mark
      BY <1>9
    <2> QED BY <1>12, <2>1, UrlParts
  <1>14. strlen[url] = strlen[x] + 45
    BY <1>9, <1>10, StrlenJoined
  <1> HIDE DEF url
  <1>15. /\ url \in Text /\ Len(url) = 10 /\ PathOf(url) = t
         /\ url[1] = w /\ url[2] = "/" /\ url[3] = "/" /\ url[4] = h
    BY <1>9, <1>11, <1>13 DEF url
  <1>16. strlen[url] <= RelayUrlMax /\ ~(strlen[url] + 1 > EndpointCapacity)
    <2>1. \A n \in Nat, k \in {3, 4} :
             n + 3 + 32 <= 213 => k + 2 + n + 45 <= 511 /\ ~(k + 2 + n + 45 + 1 > 512)
      OBVIOUS
    <2> QED BY <1>3, <1>10, <1>14, <2>1 DEF RelayUrlMax, EndpointCapacity
  <1>17. BuildWsPath(b, ReceiverAt, id) = url
    <2> DEFINE scheme == NormalizedScheme(b)
               built == (IF scheme = Https THEN Wss ELSE Ws)
                          \o From(Trimmed(b, Len(scheme)), Len(scheme) + 1) \o t
    <2>1. built = url
      <3>1. Len(scheme) = 3
        BY <1>7, Zenon
      <3>2. (IF scheme = Https THEN Wss ELSE Ws) = p
        BY <1>8
      <3> HIDE DEF scheme
      <3>3. From(Trimmed(b, Len(scheme)), Len(scheme) + 1) = q
        <4>1. Len(scheme) + 1 = 4
          BY <3>1
        <4> QED BY <1>6, <3>1, <4>1 DEF T
      <3> QED BY <3>2, <3>3 DEF url, x
    <2>2. BuildWsPath(b, ReceiverAt, id) =
            IF id \notin Token \/ scheme = <<>> \/ strlen[built] + 1 > EndpointCapacity
            THEN <<>> ELSE built
      BY Zenon DEF BuildWsPath, t
    <2> HIDE DEF built
    <2> QED BY <1>7, <1>16, <2>1, <2>2
  <1>18. UrlAllowed(url, opt_in)
    <2>1. w = "wss" \/ (w = "ws" /\ opt_in = "1")
      BY <1>1, <1>4 DEF w
    <2>2. Starts(url, <<w, "/", "/">>)
      <3>1. url \in Seq(TextToken) /\ Len(url) > 3
        BY <1>15, Words
      <3> QED BY <1>15, <3>1, StartsMeans
    <2> QED BY <1>16, <2>1, <2>2 DEF UrlAllowed, Wss, Ws
  <1>19. Reaches(url)
    <2>1. Len(url) > 4 /\ url[1] = (IF relay_base[1] = "https" THEN "wss" ELSE "ws")
          /\ url[4] = relay_base[4]
      BY <1>15 DEF w, h
    <2> QED BY <1>1, <1>15, <2>1, OriginReaches
  <1>20. url # <<>>
    BY <1>15
  <1> QED BY <1>9, <1>15, <1>17, <1>18, <1>19, <1>20

-----------------------------------------------------------------------------
\* The receiver takes those and no others.

\* What the receiver needs of the relay and of the configuration on its way, and that it
\* has not failed without a cause.
UsableInv ==
    /\ relay \in [Token -> Secret \cup {None}]
    /\ attached \subseteq (IF worker = "listening" THEN {session.token} ELSE {})
    /\ worker \in {"client", "connect"} /\ ~disturbed =>
          relay[session.token] = session.receiver_secret
    /\ worker \in {"client", "connect", "listening"} => ~(RequiresOptIn(relay_base) /\ opt_in # "1")
    /\ worker = "failed" /\ ~disturbed => ~Usable

\* With a usable configuration the window prepares a session, unless something else
\* goes wrong.
LEMMA UsableIsPrepared ==
  ASSUME base \in Text, Usable, Prepare, ~disturbed'
  PROVE  worker' # "failed"
  <1>1. UsableBase(relay_base') /\ relay_base' = LoadRelayBase(base)
    BY UsableMeans DEF Prepare
  <1>2. Origin(relay_base') /\ relay_base' # <<>>
    BY <1>1 DEF UsableBase, Origin
  <1>3. \A id \in Token : Shown(relay_base', id) # <<>>
    BY <1>1, <1>2, ShownIff DEF UsableBase
  <1>4. CASE NoSession
    BY <1>4 DEF NoSession
  <1>5. CASE PrepareWith(relay_base')
    BY <1>3, <1>5 DEF PrepareWith
  <1> QED BY <1>2, <1>4, <1>5 DEF Prepare

\* What a usable configuration gives the worker.
LEMMA UsableLeads ==
  ASSUME SessionInv, ReceiverInv, Usable, worker \in {"run"} \cup Connected
  PROVE  /\ session.state = "WAITING" /\ session.token \in Token
         /\ session.receiver_secret \in Secret
         /\ BuildWsPath(relay_base, ReceiverAt, session.token) # <<>>
         /\ UrlAllowed(BuildWsPath(relay_base, ReceiverAt, session.token), opt_in)
         /\ Reaches(BuildWsPath(relay_base, ReceiverAt, session.token))
         /\ IdAfter(ReceiverAt, PathOf(BuildWsPath(relay_base, ReceiverAt, session.token)))
               = session.token
         /\ RequestAllowed(relay_base, session.token, session.receiver_secret)
         /\ Registers(BuildEndpoint(relay_base))
  <1>1. /\ base \in Text /\ relay_base = LoadRelayBase(base) /\ session.state = "WAITING"
        /\ session.token \in Token /\ session.receiver_secret \in Secret
    BY DEF SessionInv, ReceiverInv, SO!Live
  <1>2. UsableBase(relay_base)
    BY <1>1, UsableMeans
  <1>3. BuildEndpoint(relay_base) # <<>> /\ Registers(BuildEndpoint(relay_base))
    BY <1>2, EndpointLeads
  <1>4. ~(RequiresOptIn(relay_base) /\ opt_in # "1")
    <2>1. Origin(relay_base) /\ (relay_base[1] = "https" \/ opt_in = "1")
      BY <1>2 DEF UsableBase
    <2>2. Starts(relay_base, Http) <=> relay_base[1] = "http"
      BY <2>1, OriginIs
    <2> QED BY <2>1, <2>2 DEF RequiresOptIn
  <1>5. RequestAllowed(relay_base, session.token, session.receiver_secret)
    BY <1>1, <1>3, <1>4 DEF RequestAllowed
  <1> DEFINE url == BuildWsPath(relay_base, ReceiverAt, session.token)
  <1>6. /\ url # <<>> /\ UrlAllowed(url, opt_in) /\ Reaches(url)
        /\ IdAfter(ReceiverAt, PathOf(url)) = session.token
    BY <1>1, <1>2, ReceiverUrlLeads
  <1> QED BY <1>1, <1>3, <1>5, <1>6

\* With a usable configuration the worker does not fail, unless something else goes wrong.
LEMMA UsableIsTaken ==
  ASSUME SessionInv, ReceiverInv, UsableInv, Usable, Worker, ~disturbed'
  PROVE  worker' # "failed"
  <1>1. worker \in {"run"} \cup Connected
    BY DEF Worker, Run, RegisterRefused, Register, ClientInit, Connect, Connected
  <1> DEFINE url == BuildWsPath(relay_base, ReceiverAt, session.token)
  <1>2. /\ session.state = "WAITING" /\ session.token \in Token
        /\ session.receiver_secret \in Secret
        /\ url # <<>> /\ UrlAllowed(url, opt_in) /\ Reaches(url)
        /\ IdAfter(ReceiverAt, PathOf(url)) = session.token
        /\ RequestAllowed(relay_base, session.token, session.receiver_secret)
        /\ Registers(BuildEndpoint(relay_base))
    BY <1>1, UsableLeads
  <1>3. worker \in Connected => receiver_url = url
    BY DEF ReceiverInv
  <1>4. CASE Run
    BY <1>2, <1>4 DEF Run
  <1>5. CASE RegisterRefused
    BY <1>2, <1>5 DEF RegisterRefused
  <1> HIDE DEF url
  <1>6. CASE Register
    <2>1. CASE worker' = "client"
      BY <2>1
    <2>2. CASE \/ ~Registers(BuildEndpoint(relay_base))
               \/ Conflict(session.token, session.receiver_secret) /\ disturbed'
      BY <1>2, <2>2
    <2> QED BY <1>6, <2>1, <2>2 DEF Register
  <1>7. CASE ClientInit
    <2>1. receiver_url = url
      BY <1>3, <1>7 DEF ClientInit, Connected
    <2> QED BY <1>2, <1>7, <2>1 DEF ClientInit
  <1>8. CASE Connect
    <2>1. receiver_url = url /\ attached = {} /\ ~disturbed
      BY <1>3, <1>8 DEF Connect, Connected, UsableInv
    <2>2. relay[session.token] = session.receiver_secret
      BY <1>8, <2>1 DEF Connect, UsableInv
    <2>3. session.token # None
      BY <1>2, RendezvousAssumption
    <2>4. Attaches(receiver_url, session.receiver_secret)
      BY <1>2, <2>1, <2>2, <2>3 DEF Attaches
    <2> QED BY <1>8, <2>4 DEF Connect
  <1> QED BY <1>4, <1>5, <1>6, <1>7, <1>8 DEF Worker

\* A receiver has failed with a usable configuration only when something else went wrong.
LEMMA FailureHasCause ==
  ASSUME SessionInv, ReceiverInv, UsableInv, [Next]_vars
  PROVE  worker' = "failed" /\ ~disturbed' => ~Usable'
  <1> SUFFICES ASSUME worker' = "failed", ~disturbed', Usable' PROVE FALSE
    OBVIOUS
  <1>1. base' = base /\ opt_in' = opt_in
    BY DEF Next, Prepare, Worker, Run, RegisterRefused, Register, ClientInit, Connect, LoopReturns,
           RelayExpires, Scan, Join, Library, Clock, windowVars, phoneVars, others, vars
  <1>2. Usable
    BY <1>1 DEF Usable
  <1>3. base \in Text
    BY DEF ReceiverInv
  <1>4. ASSUME worker' = worker, disturbed' = disturbed PROVE FALSE
    BY <1>2, <1>4 DEF UsableInv
  <1>5. CASE Prepare
    BY <1>2, <1>3, <1>5, UsableIsPrepared
  <1>6. CASE Worker
    BY <1>2, <1>6, UsableIsTaken
  <1>7. CASE LoopReturns \/ RelayExpires
    BY <1>7 DEF LoopReturns, RelayExpires
  <1>8. CASE Scan \/ Join \/ Library \/ Clock \/ UNCHANGED vars
    BY <1>4, <1>8 DEF Scan, Join, Library, Clock, phoneVars, others, vars
  <1> QED BY <1>5, <1>6, <1>7, <1>8 DEF Next

\* The relay holds the receiver's secret while the receiver connects, and has no other
\* receiver.
LEMMA RelayKeeps ==
  ASSUME SessionInv, ReceiverInv, UsableInv, [Next]_vars
  PROVE  /\ relay' \in [Token -> Secret \cup {None}]
         /\ attached' \subseteq (IF worker' = "listening" THEN {session'.token} ELSE {})
         /\ worker' \in {"client", "connect"} /\ ~disturbed' =>
               relay'[session'.token] = session'.receiver_secret
  <1>1. /\ relay \in [Token -> Secret \cup {None}]
        /\ worker = "listening" => attached \subseteq {session.token}
        /\ worker # "listening" => attached = {}
        /\ worker \in {"client", "connect"} /\ ~disturbed =>
              relay[session.token] = session.receiver_secret
    BY DEF UsableInv
  <1>2. CASE Prepare
    <2>1. /\ relay' = relay /\ attached' = attached /\ worker = "down"
          /\ worker' \in {"run", "failed"}
      BY <1>2 DEF Prepare, NoSession, PrepareWith
    <2> QED BY <1>1, <2>1
  <1>3. CASE Run \/ RegisterRefused
    <2>1. /\ relay' = relay /\ attached' = attached /\ worker \in {"run", "register"}
          /\ worker' \in {"register", "failed"}
      BY <1>3 DEF Run, RegisterRefused, Return
    <2> QED BY <1>1, <2>1
  <1>4. CASE Register
    <2> DEFINE held == [relay EXCEPT ![session.token] = session.receiver_secret]
    <2>1. worker = "register" /\ attached' = attached /\ session' = session
      BY <1>4 DEF Register
    <2>2. /\ worker' \in {"client", "failed"} /\ relay' \in {relay, held}
          /\ worker' = "client" => relay' = held
      BY <1>4 DEF Register
    <2>3. session.token \in Token /\ session.receiver_secret \in Secret
      BY <2>1 DEF SessionInv, ReceiverInv, Connected, SO!Live
    <2>4. held \in [Token -> Secret \cup {None}] /\ held[session.token] = session.receiver_secret
      BY <1>1, <2>3
    <2> HIDE DEF held
    <2>5. relay' \in [Token -> Secret \cup {None}]
      BY <1>1, <2>2, <2>4
    <2>6. worker' # "listening" /\ worker' # "connect" /\ attached' = {}
      BY <1>1, <2>1, <2>2
    <2>7. worker' = "client" => relay'[session'.token] = session'.receiver_secret
      BY <2>1, <2>2, <2>4
    <2> QED BY <2>5, <2>6, <2>7
  <1>5. CASE ClientInit
    <2>1. /\ relay' = relay /\ attached' = attached /\ worker = "client"
          /\ worker' \in {"connect", "failed"}
          /\ worker' = "connect" => session' = session /\ disturbed' = disturbed
      BY <1>5 DEF ClientInit, ReturnClosed
    <2> QED BY <1>1, <2>1
  <1>6. CASE Connect
    <2>1. /\ relay' = relay /\ worker = "connect" /\ worker' \in {"listening", "failed"}
          /\ worker' = "listening" => /\ session' = session
                                      /\ attached' = attached \cup {session.token}
          /\ worker' = "failed" => attached' = attached
      BY <1>6 DEF Connect, ReturnClosed
    <2> QED BY <1>1, <2>1
  <1>7. CASE LoopReturns
    <2>1. /\ relay' = relay /\ worker = "listening" /\ worker' \in {"down", "failed"}
          /\ attached' = attached \ {session.token}
      BY <1>7 DEF LoopReturns
    <2> QED BY <1>1, <2>1
  <1>8. CASE RelayExpires
    <2>1. /\ \E id \in Token : relay' = [relay EXCEPT ![id] = None]
          /\ attached' \subseteq attached /\ worker' = worker /\ session' = session /\ disturbed'
      BY <1>8 DEF RelayExpires, sessionVars
    <2> QED BY <1>1, <2>1
  <1>9. CASE Scan \/ Join \/ UNCHANGED vars
    BY <1>1, <1>9 DEF Scan, Join, phoneVars, sessionVars, vars
  <1>10. CASE Library \/ Clock
    <2>1. /\ relay' = relay /\ attached' = attached /\ worker' = worker
          /\ worker \in {"library", "down"}
      BY <1>10 DEF Library, Clock, others
    <2> QED BY <1>1, <2>1
  <1> QED BY <1>2, <1>3, <1>4, <1>5, <1>6, <1>7, <1>8, <1>9, <1>10 DEF Next, Worker

\* A receiver that has been registered has the opt-in where it needs it.
LEMMA OptInKeeps ==
  ASSUME UsableInv, [Next]_vars, worker' \in {"client", "connect", "listening"}
  PROVE  ~(RequiresOptIn(relay_base') /\ opt_in' # "1")
  <1>1. CASE Register
    BY <1>1 DEF Register, RequestAllowed, windowVars
  <1>2. CASE ClientInit \/ Connect
    BY <1>2 DEF ClientInit, Connect, windowVars, UsableInv
  <1>3. CASE Prepare \/ Run \/ RegisterRefused \/ LoopReturns
    BY <1>3 DEF Prepare, NoSession, PrepareWith, Run, RegisterRefused, Return, LoopReturns
  <1>4. CASE RelayExpires \/ Scan \/ Join \/ Library \/ Clock \/ UNCHANGED vars
    BY <1>4 DEF RelayExpires, Scan, Join, Library, Clock, phoneVars, others, vars, UsableInv
  <1> QED BY <1>1, <1>2, <1>3, <1>4 DEF Next, Worker

\* The inductive invariant of the receiver and the relay: the relay's session is the
\* receiver's, the opt-in is there where it is needed, and no failure is without a cause.
THEOREM ReceiverTakesUsable == Spec => []UsableInv
  <1>1. Init => UsableInv
    BY DEF Init, UsableInv
  <1>2. SessionInv /\ ReceiverInv /\ PageInv /\ UsableInv /\ [Next]_vars => UsableInv'
    BY FailureHasCause, RelayKeeps, OptInKeeps DEF UsableInv
  <1> QED BY <1>1, <1>2, WayInvariant, PTL DEF Spec

\* The receiver comes to listen with the configurations docs/deployment.md describes and
\* with no others, and fails with one of them only when something else goes wrong: at
\* every limit pd_load_relay_base, pd_prepare_session, pd_build_ws_path,
\* pd_relay_registration_build_endpoint and pd_relay_url_is_allowed agree on what they take.
THEOREM UsableIsListening == Spec => []ListensWhenUsable
  <1>1. SessionInv /\ ReceiverInv /\ PageInv /\ UsableInv => ListensWhenUsable
    <2> SUFFICES ASSUME SessionInv, ReceiverInv, UsableInv, worker = "listening" PROVE Usable
      BY DEF ListensWhenUsable, UsableInv
    <2>1. /\ base \in Text /\ relay_base = LoadRelayBase(base) /\ Origin(relay_base)
          /\ session.token \in Token /\ Shown(relay_base, session.token) # <<>>
      BY DEF SessionInv, ReceiverInv, Connected, SO!Live
    <2>2. /\ relay_base[4] \notin NotUtf8
          /\ strlen[SubSeq(relay_base, 1, 4) \o PageAt] + TokenChars <= QrCapacity
      BY <2>1, ShownIff
    <2>3. relay_base[1] = "https" \/ opt_in = "1"
      <3>1. Starts(relay_base, Http) <=> relay_base[1] = "http"
        BY <2>1, OriginIs
      <3> QED BY <2>1, <3>1 DEF UsableInv, RequiresOptIn, Origin
    <2>4. strlen[relay_base] < UiRelayCapacity
      <3>1. CASE base = <<>>
        BY <2>1, <3>1, DefaultIsUsable DEF LoadRelayBase, UsableBase
      <3>2. CASE base # <<>>
        <4>1. relay_base # <<>>
          BY <2>1 DEF Origin
        <4> QED BY <2>1, <3>2, <4>1 DEF LoadRelayBase
      <3> QED BY <3>1, <3>2
    <2>5. UsableBase(relay_base)
      BY <2>1, <2>2, <2>3, <2>4 DEF UsableBase
    <2> QED BY <2>1, <2>5, UsableMeans
  <1> QED BY <1>1, WayInvariant, ReceiverTakesUsable, PTL
=============================================================================
