----------------------------- MODULE Rendezvous -----------------------------
(***************************************************************************)
(* How a page finds a receiver: the receiver creates a session, builds the *)
(* link of the QR code, registers with the relay and connects to it; a     *)
(* phone opens the link; the page derives its own address and joins.  Four *)
(* places take the configured base URL apart on their own: the window, the *)
(* endpoint, the registration and the page.                                *)
(*                                                                         *)
(* The relay answers at the origin that is configured and nowhere else.    *)
(* What happens inside the relay is RelayServer's business, the order of   *)
(* the threads of the receiver ReceiverApp's.                              *)
(***************************************************************************)
EXTENDS Addresses, FiniteSets

CONSTANTS Secret, Zeroed, Ttl, ClockMax,
          Base,        \* values of PRINTDROP_BASE_URL
          NotUtf8,     \* the hosts whose bytes are not UTF-8, none of which is ASCII
          SessionTtl   \* PD_UI_SESSION_TTL_MS

ASSUME RendezvousAssumption ==
    /\ NotUtf8 \subseteq Host \ (DOMAIN Word \cup {DefaultHost})
    /\ Base \subseteq Text
    /\ Host \cap {"/", "?", "#"} = {} /\ Token \cap {"/", "?", "#"} = {}
    /\ Zeroed \notin Token \cup Secret /\ None \notin Token
    /\ ClockMax \in Nat /\ Ttl \subseteq 0 .. ClockMax /\ SessionTtl \in Ttl \ {0}

VARIABLES
    session, now,   \* ReceiverSession
    base,        \* the environment variable PRINTDROP_BASE_URL
    opt_in,      \* the environment variable PRINTDROP_ALLOW_INSECURE_HTTP
    worker,      \* "down" without a session, "run", "register", "client", "connect",
                 \* "listening" (READY), "failed"; "library" when the session object
                 \* is not the application's but that of a caller of the library
    relay_base,  \* app->relay_base
    link,        \* app->public_url, <<>> without one
    receiver_url,   \* that of pd_win32_receiver_run_session
    sent,        \* history: the URLs the receiver has asked for in this session
    relay,       \* the secret of each session the relay holds, or None
    attached,    \* the ids of the sessions with a receiver
    page,        \* [status, location, id] of the page on the phone
    disturbed    \* history: something beyond the configuration went wrong

sessionVars == <<session, now>>
vars == <<session, now, base, opt_in, worker, relay_base, link, receiver_url, sent, relay,
          attached, page, disturbed>>

SO == INSTANCE ReceiverSession

NoPage == [status |-> "none", location |-> <<>>, id |-> None]

Init == /\ SO!SessionInit
        /\ \/ worker = "library" /\ base = <<>> /\ opt_in = "0"
           \/ worker = "down" /\ base \in Base /\ opt_in \in {"0", "1", "10"}
        /\ relay_base = <<>> /\ link = <<>> /\ receiver_url = <<>> /\ sent = {}
        /\ relay = [id \in Token |-> None] /\ attached = {}
        /\ page = NoPage /\ disturbed = FALSE

-----------------------------------------------------------------------------
\* The window thread.

\* pd_prepare_jobs_root fails, or pd_receiver_session_create does.
NoSession == /\ UNCHANGED session \/ session' = SO!Reset
             /\ link' = <<>> /\ worker' = "failed" /\ disturbed' = TRUE

\* What pd_prepare_session shows: a link that fits the QR code (pd_qr_encode_text) and
\* is UTF-8 (MultiByteToWideChar), or nothing.
Shown(b, id) == LET url == BuildUrl(BuildPrefix(b), id)
                IN  IF strlen[url] <= QrCapacity /\ ToSet(url) \cap NotUtf8 = {}
                    THEN url ELSE <<>>

\* pd_prepare_session from its call of pd_receiver_session_create on.  Of 128 random
\* bits those of the session a page has open are not drawn again.
PrepareWith(b) ==
    \E tok \in Token \ {page.id}, sec \in Secret :
        LET made == SO!Filled(now, SessionTtl, tok, sec)
            shown == Shown(b, tok) # <<>>
        IN  /\ ~SO!Overflows(now, SessionTtl)
            /\ link' = Shown(b, tok)
            /\ \/ /\ shown
                  /\ session' = made /\ worker' = "run" /\ UNCHANGED disturbed
               \/ /\ ~shown
                  /\ session' = SO!Closed(made) /\ worker' = "failed" /\ UNCHANGED disturbed
               \/ /\ shown    \* there is no thread; only pd_start_next_session closes
                  /\ session' \in {made, SO!Closed(made)}
                  /\ worker' = "failed" /\ disturbed' = TRUE

\* pd_prepare_session and pd_start_receiver.
Prepare ==
    /\ worker = "down"
    /\ relay_base' = LoadRelayBase(base)
    /\ \/ /\ relay_base' = <<>>
          /\ worker' = "failed" /\ link' = <<>> /\ UNCHANGED <<session, disturbed>>
       \/ relay_base' # <<>> /\ (NoSession \/ PrepareWith(relay_base'))
    /\ sent' = {}
    /\ UNCHANGED <<now, base, opt_in, receiver_url, relay, attached, page>>

-----------------------------------------------------------------------------
\* The worker thread: pd_win32_receiver_run_session.

Reaches(url) == /\ IsUrl(url)
                /\ Secure(url) = Secure(relay_base) /\ HostOf(url) = HostOf(relay_base)

windowVars == <<now, base, opt_in, relay_base, link, page>>

\* The worker returns before or after it owns something it has to close.
Return == worker' = "failed" /\ UNCHANGED session
ReturnClosed == worker' = "failed" /\ session' = SO!Closed(session)

Run == /\ worker = "run"
       /\ receiver_url' = BuildWsPath(relay_base, ReceiverAt, session.token)
       /\ \/ /\ session.state = "WAITING" /\ receiver_url' # <<>>
             /\ worker' = "register" /\ UNCHANGED <<session, disturbed>>
          \/ /\ ~(session.state = "WAITING" /\ receiver_url' # <<>>)
             /\ Return /\ UNCHANGED disturbed
          \/ Return /\ disturbed' = TRUE    \* pd_win32_curl_global_init fails
       /\ UNCHANGED <<windowVars, sent, relay, attached>>

\* Mutated form: the scheme is not looked at.
RequestUnchecked(b, token, secret) == secret \in Secret /\ BuildEndpoint(b) # <<>> /\ token \in Token

\* The checks of pd_win32_relay_register_session before it uses curl.
RequestAllowed(b, token, secret) ==
    /\ ~(RequiresOptIn(b) /\ opt_in # "1")
    /\ secret \in Secret
    /\ BuildEndpoint(b) # <<>>
    /\ token \in Token

RegisterRefused ==
    /\ worker = "register"
    /\ ~RequestAllowed(relay_base, session.token, session.receiver_secret)
    /\ Return
    /\ UNCHANGED <<windowVars, receiver_url, sent, relay, attached, disturbed>>

\* handleRegisterSession: 201 or 200, and 409 for an id that has another secret.
Conflict(id, secret) == relay[id] \notin {None, secret}
Registers(url) == Reaches(url) /\ PathOf(url) = Sessions

\* The request is made; curl may fail before or after the relay has seen it.
Register ==
    LET held == [relay EXCEPT ![session.token] = session.receiver_secret]
        conflict == Conflict(session.token, session.receiver_secret)
    IN  /\ worker = "register"
        /\ RequestAllowed(relay_base, session.token, session.receiver_secret)
        /\ \E endpoint \in {BuildEndpoint(relay_base)} :
              /\ sent' = sent \cup {endpoint}
              /\ \/ /\ Registers(endpoint) /\ ~conflict
                    /\ worker' = "client" /\ relay' = held /\ UNCHANGED disturbed
                 \/ /\ ~Registers(endpoint) \/ conflict
                    /\ worker' = "failed" /\ disturbed' = (disturbed \/ conflict)
                    /\ UNCHANGED relay
                 \/ /\ worker' = "failed" /\ disturbed' = TRUE
                    /\ \/ UNCHANGED relay
                       \/ Registers(endpoint) /\ ~conflict /\ relay' = held
        /\ UNCHANGED <<windowVars, receiver_url, session, attached>>

\* pd_win32_relay_client_init
ClientInit ==
    /\ worker = "client"
    /\ \/ /\ UrlAllowed(receiver_url, opt_in) /\ session.receiver_secret \in Secret
          /\ worker' = "connect" /\ UNCHANGED <<session, disturbed>>
       \/ /\ ~(UrlAllowed(receiver_url, opt_in) /\ session.receiver_secret \in Secret)
          /\ ReturnClosed /\ UNCHANGED disturbed
       \/ ReturnClosed /\ disturbed' = TRUE    \* no memory, or curl fails
    /\ UNCHANGED <<windowVars, receiver_url, sent, relay, attached>>

\* handleReceiver and attachReceiver
Attaches(url, secret) ==
    LET id == IdAfter(ReceiverAt, PathOf(url))
    IN  Reaches(url) /\ id # None /\ relay[id] = secret /\ id \notin attached

Connect ==
    /\ worker = "connect"
    /\ sent' = sent \cup {receiver_url}
    /\ \/ /\ Attaches(receiver_url, session.receiver_secret)
          /\ worker' = "listening" /\ attached' = attached \cup {session.token}
          /\ UNCHANGED <<session, disturbed>>
       \/ /\ ~Attaches(receiver_url, session.receiver_secret)
          /\ ReturnClosed /\ UNCHANGED <<attached, disturbed>>
       \/ ReturnClosed /\ disturbed' = TRUE /\ UNCHANGED attached   \* curl fails
    /\ UNCHANGED <<windowVars, receiver_url, relay>>

\* The loop returns and the worker closes the session: after a delivery the window
\* starts the next one, otherwise the receiver stays as it is.
LoopReturns ==
    /\ worker = "listening"
    /\ session' = SO!Closed(session) /\ attached' = attached \ {session.token}
    /\ \/ worker' = "down" /\ UNCHANGED disturbed
       \/ worker' = "failed" /\ disturbed' = TRUE
    /\ UNCHANGED <<windowVars, receiver_url, sent, relay>>

-----------------------------------------------------------------------------
\* The relay's timer, and the phone.

RelayExpires ==
    \E id \in Token :
        /\ relay[id] # None
        /\ relay' = [relay EXCEPT ![id] = None] /\ attached' = attached \ {id}
        /\ disturbed' = TRUE
        /\ UNCHANGED <<sessionVars, base, opt_in, worker, relay_base, link, receiver_url, sent,
                       page>>

phoneVars == <<sessionVars, base, opt_in, worker, relay_base, link, receiver_url, sent,
               relay, attached, disturbed>>

\* The user scans the code (pd_paint shows it while the state is READY) and the relay
\* serves the page, or 404; app.js takes the id from the location.
Scan ==
    /\ worker = "listening"
    /\ \E location \in {link, Append(link, "/")} :
          LET served == Reaches(location) /\ ServesPage(PathOf(location))
              id == IF served THEN ParseSessionId(PathOf(location)) ELSE None
          IN  page' = [status |-> IF id = None THEN "invalid" ELSE "ready",
                       location |-> location, id |-> id]
    /\ UNCHANGED phoneVars

\* handleSender and attachSender, for a page that is alone.
Join ==
    LET url == BuildSenderUrl(page.location, page.id)
        id == IdAfter(SenderAt, PathOf(url))
    IN  /\ page.status = "ready"
        /\ page' = [page EXCEPT !.status = IF Reaches(url) /\ id \in attached
                                           THEN "joined" ELSE "refused"]
        /\ UNCHANGED phoneVars

-----------------------------------------------------------------------------
others == <<base, opt_in, worker, relay_base, link, receiver_url, sent, relay, attached,
            page, disturbed>>

\* The session object in the hands of another caller.
Library == worker = "library" /\ SO!Call /\ UNCHANGED others

\* The application reads the clock only when it creates a session.
Clock == worker \in {"library", "down"} /\ SO!Tick /\ UNCHANGED others

Worker == \/ Run \/ RegisterRefused \/ Register \/ ClientInit \/ Connect

Next == \/ Prepare \/ Worker \/ LoopReturns \/ RelayExpires \/ Scan \/ Join
        \/ Library \/ Clock

Spec == Init /\ [][Next]_vars

-----------------------------------------------------------------------------
\* Properties.

\* The base URLs that are meant to work, as docs/deployment.md describes them: an
\* origin, with any number of slashes after it, short enough for the QR code; a plain
\* one only with the opt-in.
Usable ==
    \/ base = <<>>
    \/ /\ \E scheme \in {Https, Http} :
             /\ Starts(base, scheme)
             /\ scheme = Https \/ opt_in = "1"
       /\ base[4] \in Host \ NotUtf8
       /\ \A i \in 5 .. Len(base) : base[i] = "/"
       /\ strlen[base] < UiRelayCapacity
       /\ strlen[SubSeq(base, 1, 4) \o PageAt] + TokenChars <= QrCapacity

\* The receiver comes to listen with exactly these, and fails with one of them only
\* when something else goes wrong: the window, the registration, the endpoint and the
\* client agree on which base URLs they take and how, at every limit.
ListensWhenUsable ==
    /\ worker = "listening" => Usable
    /\ worker = "failed" /\ ~disturbed => ~Usable

\* Unless PRINTDROP_ALLOW_INSECURE_HTTP is exactly "1" nothing, and so no receiver
\* secret, leaves the machine over plain HTTP or WebSocket (docs/deployment.md, line
\* 79; pd_insecure_http_enabled is consulted in two places).
NothingInClear ==
    opt_in # "1" => \A url \in sent : Secure(url)

\* The code on the window leads to this receiver: the phone gets the page, the page
\* finds the session id in its location, and joins the session of the receiver that
\* shows the code, over the origin the receiver uses itself.
LinkLeadsHere ==
    worker = "listening" /\ link \in {page.location, Trimmed(page.location, 0)} =>
        /\ page.status # "invalid"
        /\ page.id = session.token
        /\ page.status = "refused" => disturbed

OverMatchesNothing == SO!OverMatchesNothing
NoLateTransfer == SO!NoLateTransfer
=============================================================================
