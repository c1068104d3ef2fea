------------------------------ MODULE Addresses ------------------------------
(***************************************************************************)
(* The addresses of a session: the base URL the receiver is configured     *)
(* with, the link in the QR code, the endpoint of the registration, the    *)
(* receiver's WebSocket URL and the one the page derives from its own      *)
(* location, and what the relay makes of a path.                           *)
(*                                                                         *)
(* A text is a sequence of tokens: a slash, a mark, a scheme with its      *)
(* colon, a word of a path, a host name or a session id.  The limits are   *)
(* the code's own; a token has the length of the text it stands for.       *)
(***************************************************************************)
EXTENDS Naturals, SequencesExt

CONSTANTS Host,        \* host names, and whatever else a base URL may hold
          HostLength,  \* their lengths
          DefaultHost, \* that of pd_default_relay_base
          Token,       \* session ids of 32 lower-case hex digits
          None

TokenChars == 32            \* PD_SESSION_TOKEN_HEX_CHARS
UiRelayCapacity == 256      \* PD_UI_RELAY_CAPACITY, with the NUL
UiUrlCapacity == 512        \* PD_UI_URL_CAPACITY
BaseUrlMax == 447           \* PD_RELAY_BASE_URL_MAX_BYTES
EndpointCapacity == 512     \* PD_RELAY_ENDPOINT_CAPACITY and the registration's
RelayUrlMax == 511          \* PD_RELAY_URL_MAX_BYTES
\* What a code of version PD_QR_MAX_VERSION and medium correction holds.
QrCapacity == 213

Word == [https |-> 6, http |-> 5, wss |-> 4, ws |-> 3, s |-> 1, v1 |-> 2,
         sessions |-> 8, receiver |-> 8, sender |-> 6]

\* A word has one length wherever it stands, a session id is neither host nor word, and
\* the default relay is send.printdrop.app.
ASSUME AddressAssumption ==
    /\ HostLength \in [Host -> Nat]
    /\ \A h \in Host \cap DOMAIN Word : HostLength[h] = Word[h]
    /\ Token \cap (Host \cup DOMAIN Word) = {}
    /\ DefaultHost \in Host /\ HostLength[DefaultHost] = 18

TokenLength(t) == IF t \in Host THEN HostLength[t]
                  ELSE IF t \in DOMAIN Word THEN Word[t]
                  ELSE IF t \in Token THEN TokenChars ELSE 1

Text == Seq(Host \cup DOMAIN Word \cup Token \cup {"/", "?", "#"})

strlen[text \in Text] ==
    IF text = <<>> THEN 0 ELSE TokenLength(Head(text)) + strlen[Tail(text)]

Https == <<"https", "/", "/">>
Http  == <<"http", "/", "/">>
Wss   == <<"wss", "/", "/">>
Ws    == <<"ws", "/", "/">>

Sessions    == <<"/", "v1", "/", "sessions">>
ReceiverAt  == <<"/", "v1", "/", "receiver", "/">>
SenderAt    == <<"/", "v1", "/", "sender", "/">>
PageAt      == <<"/", "s", "/">>

Starts(text, prefix) == Len(text) > Len(prefix) /\ IsPrefix(prefix, text)

\* The text without its trailing slashes, of which the first n tokens are kept.
Trimmed(text, n) ==
    SubSeq(text, 1, Min({k \in n .. Len(text) : \A i \in k + 1 .. Len(text) : text[i] = "/"}))

Marked(text) == Contains(text, "?") \/ Contains(text, "#")

From(text, n) == SubSeq(text, n, Len(text))

-----------------------------------------------------------------------------
\* The receiver.  An address is a text, or <<>> where the code refuses to build it.

\* pd_load_relay_base: the environment's value if it fits, the default without one.
LoadRelayBase(base) == IF base = <<>> THEN Append(Https, DefaultHost)
                       ELSE IF strlen[base] < UiRelayCapacity THEN base ELSE <<>>

\* pd_build_session_prefix
BuildPrefix(base) ==
    LET b == Trimmed(base, 0)
    IN  IF b = <<>> \/ strlen[b \o PageAt] + 1 > UiRelayCapacity THEN <<>> ELSE b \o PageAt

\* pd_receiver_session_build_url, of a session that waits.
BuildUrl(prefix, id) ==
    LET url == Append(prefix, id)
    IN  IF prefix = <<>> \/ id \notin Token \/ strlen[url] + 1 > UiUrlCapacity
        THEN <<>> ELSE url

\* The scheme of a base that pd_normalize_base, pd_build_ws_path's, accepts.
NormalizedScheme(base) ==
    LET scheme == IF Starts(base, Https) THEN Https
                  ELSE IF Starts(base, Http) THEN Http ELSE <<>>
    IN  IF \/ scheme = <<>> \/ strlen[base] > BaseUrlMax \/ Marked(base)
           \/ Len(Trimmed(base, Len(scheme))) <= Len(scheme)
        THEN <<>> ELSE scheme

\* pd_build_ws_path
BuildWsPath(base, path, id) ==
    LET scheme == NormalizedScheme(base)
        url == (IF scheme = Https THEN Wss ELSE Ws)
                 \o From(Trimmed(base, Len(scheme)), Len(scheme) + 1) \o Append(path, id)
    IN  IF id \notin Token \/ scheme = <<>> \/ strlen[url] + 1 > EndpointCapacity
        THEN <<>> ELSE url

\* pd_relay_registration_build_endpoint, with checks of its own.
BuildEndpoint(base) ==
    LET n == IF Starts(base, Https) THEN Len(Https)
             ELSE IF Starts(base, Http) THEN Len(Http) ELSE 0
        trimmed == Trimmed(base, n)
    IN  IF \/ n = 0 \/ strlen[base] > BaseUrlMax \/ Marked(base)
           \/ Len(trimmed) <= n
           \/ strlen[trimmed \o Sessions] + 1 > EndpointCapacity
        THEN <<>> ELSE trimmed \o Sessions

\* pd_base_url_requires_insecure_opt_in
RequiresOptIn(base) == Starts(base, Http)

\* Mutated form: the client does not know of the opt-in.
UrlAllowedSecure(url, opt_in) == strlen[url] <= RelayUrlMax /\ Starts(url, Wss)

\* pd_relay_url_is_allowed, pd_insecure_http_enabled
UrlAllowed(url, opt_in) ==
    /\ strlen[url] <= RelayUrlMax
    /\ Starts(url, Wss) \/ (opt_in = "1" /\ Starts(url, Ws))

-----------------------------------------------------------------------------
\* What a URL means to whoever opens it: its scheme, host and path.  The host follows two
\* slashes; that curl and browsers forgive a third one is left out.

IsUrl(text) == /\ \E scheme \in {Https, Http, Wss, Ws} : Starts(text, scheme)
               /\ text[4] \in Host

Secure(url) == url[1] \in {"https", "wss"}

HostOf(url) == url[4]

\* The path ends where a query or a fragment begins.
PathOf(url) ==
    LET mark == SelectInSeq(url, LAMBDA t : t \in {"?", "#"})
    IN  SubSeq(url, 5, IF mark = 0 THEN Len(url) ELSE mark - 1)

-----------------------------------------------------------------------------
\* The relay.

\* pathSessionID, and None where the handler answers 404.
IdAfter(prefix, path) ==
    IF Starts(path, prefix) /\ Len(path) = Len(prefix) + 1 /\ Last(path) \in Token
    THEN Last(path) ELSE None

\* ServeHTTP and serveSessionPage: the page of a session, with or without a slash.
ServesPage(path) ==
    /\ IsPrefix(PageAt, path)
    /\ IdAfter(PageAt, IF Last(path) = "/" THEN Front(path) ELSE path) # None

-----------------------------------------------------------------------------
\* The page.

\* Mutated form: a slash at the end is not allowed for.
ParseSessionIdStrict(path) == IdAfter(PageAt, path)

\* parseSessionId
ParseSessionId(path) ==
    IdAfter(PageAt, IF path # <<>> /\ Last(path) = "/" THEN Front(path) ELSE path)

\* buildSenderWebSocketUrl
BuildSenderUrl(location, id) ==
    (IF Secure(location) THEN Wss ELSE Ws) \o <<HostOf(location)>> \o Append(SenderAt, id)
=============================================================================
