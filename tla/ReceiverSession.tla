--------------------------- MODULE ReceiverSession ---------------------------
(***************************************************************************)
(* The session object of the receiver (receiver_session.c): its two        *)
(* credentials, its deadline on a clock of finite width and its state.     *)
(* Every call of receiver_session.h is an action here.  The application    *)
(* makes two of them, create and close (see Rendezvous); the others belong *)
(* to the interface and are called by its tests.                           *)
(***************************************************************************)
EXTENDS Naturals

CONSTANTS
    Token, Secret,   \* what the hex digits of fresh entropy can be
    Zeroed,          \* the content of a credential that was never set or was wiped
    Ttl,             \* the lifetimes callers ask for
    ClockMax         \* UINT64_MAX

VARIABLES
    session,   \* pd_receiver_session
    now        \* the caller's clock, GetTickCount64 in the application

Live == {"WAITING", "TRANSFERRING"}

Session == [state : {"INACTIVE", "EXPIRED", "CLOSED"} \cup Live,
            token : Token \cup {Zeroed}, receiver_secret : Secret \cup {Zeroed},
            created_at : 0 .. ClockMax, expires_at : 0 .. ClockMax]

\* pd_receiver_session_reset
Reset == [state |-> "INACTIVE", token |-> Zeroed, receiver_secret |-> Zeroed,
          created_at |-> 0, expires_at |-> 0]

\* Mutated form: only the token is wiped.
ClearToken(s) == [s EXCEPT !.token = Zeroed]

\* pd_receiver_session_clear_credentials
ClearCredentials(s) == [s EXCEPT !.token = Zeroed, !.receiver_secret = Zeroed]

\* A candidate of the wrong length, and so the empty text of a wiped session,
\* matches nothing.
TokenMatches(s, candidate)  == candidate \in Token /\ candidate = s.token
SecretMatches(s, candidate) == candidate \in Secret /\ candidate = s.receiver_secret

-----------------------------------------------------------------------------
\* pd_receiver_session_create, with the clock at t: its refusals in their order.
\* A lifetime of zero is refused before the session is reset, the others after.

Overflows(t, ttl) == ttl > ClockMax - t

Filled(t, ttl, tok, sec) ==
    [state |-> "WAITING", token |-> tok, receiver_secret |-> sec,
     created_at |-> t, expires_at |-> (t + ttl) % (ClockMax + 1)]

Create(ttl) ==
    \/ ttl = 0 /\ UNCHANGED session
    \/ ttl # 0 /\ session' = Reset    \* the clock overflows, or there is no entropy
    \/ /\ ttl # 0 /\ ~Overflows(now, ttl)
       /\ \E tok \in Token, sec \in Secret : session' = Filled(now, ttl, tok, sec)

\* pd_receiver_session_expire_if_due

\* Mutated form: the deadline itself still counts as in time.
DueAfter(s, t) == s.state \in Live /\ t > s.expires_at

Due(s, t) == s.state \in Live /\ t >= s.expires_at

Expired(s) == [ClearCredentials(s) EXCEPT !.state = "EXPIRED"]

ExpireIfDue == session' = IF Due(session, now) THEN Expired(session) ELSE session

\* pd_receiver_session_begin_transfer; without a match the session stays as it is.
BeginTransfer(candidate) ==
    session' = IF session.state # "WAITING" THEN session
               ELSE IF Due(session, now) THEN Expired(session)
               ELSE IF TokenMatches(session, candidate)
                    THEN [session EXCEPT !.state = "TRANSFERRING"] ELSE session

\* pd_receiver_session_close
Closed(s) == IF s.state = "INACTIVE" THEN s
             ELSE [ClearCredentials(s) EXCEPT !.state = "CLOSED"]
Close == session' = Closed(session)

-----------------------------------------------------------------------------
SessionInit == session = Reset /\ now = 0

Tick == now < ClockMax /\ now' = now + 1 /\ UNCHANGED session

Call == /\ \/ \E ttl \in Ttl : Create(ttl)
           \/ ExpireIfDue
           \/ \E candidate \in Token \cup {Zeroed} : BeginTransfer(candidate)
           \/ Close
        /\ UNCHANGED now

-----------------------------------------------------------------------------
\* Properties.

\* The credentials are there exactly while the session is live, and no candidate
\* matches a session that is over (reset, expire_if_due and close all wipe them).
OverMatchesNothing ==
    /\ session.state \in Live => session.token \in Token /\ session.receiver_secret \in Secret
    /\ session.state \notin Live =>
          /\ \A c \in Token \cup {Zeroed} : ~TokenMatches(session, c)
          /\ \A c \in Secret \cup {Zeroed} : ~SecretMatches(session, c)

\* Once its deadline has come a session hands nobody a transfer, one that has been
\* used or is over waits again only after the next create, and from create on it has
\* its whole lifetime ahead, however near the clock is to its limit: now_ms + ttl_ms
\* does not wrap.
NoLateTransfer ==
    [][/\ session'.state = "TRANSFERRING"
             => session.state = "WAITING" /\ now < session.expires_at
       /\ session'.state = "WAITING"
             => session'.created_at = now /\ session'.expires_at - now \in Ttl \ {0}
       ]_session
=============================================================================
