-------------------------- MODULE ConnectionSetup --------------------------
(***************************************************************************)
(* From the settings of a client to a socket, and back to one after every  *)
(* loss: the setters of ConnectionConfiguration that connect_with's        *)
(* closure calls, negotiate with its choice of endpoint and transport, the *)
(* attempts to open the socket, and the delays between the attempts        *)
(* (client/configuration.rs, communication/common.rs, and the loop of      *)
(* communication/client_tokio.rs).  What shutdown does to the loop is the  *)
(* business of ConnectionLifecycle.                                        *)
(*                                                                         *)
(* A URL is the record of its parts; an id or a token the server hands out *)
(* is the number of the negotiation that returned it, modulo two.          *)
(***************************************************************************)
EXTENDS Integers

CONSTANTS
    Ports,           \* the ports with_port may be given
    NoPort,          \* no port was set
    Hubs,            \* the hub paths
    FirstHub,        \* the one connect_with is called with
    Durations,       \* the delays with_reconnect_delays may be given
    DefaultInitial,  \* DEFAULT_INITIAL_DELAY
    DefaultMax,      \* DEFAULT_MAX_DELAY
    MaxDuration,     \* Duration::MAX, where saturating_mul stops
    WordBits,        \* width of the multiplier, 32 in the code
    Limits,          \* the limits with_max_reconnect_attempts may be given
    NoLimit,         \* max_attempts is None
    MaxSettings,     \* bound: setters the closure calls
    MaxAttempt       \* bound: the attempt of a loss that does not fail

ASSUME SettingsAssumption ==
    /\ NoPort \notin Ports
    /\ FirstHub \in Hubs
    /\ NoLimit \notin Nat
    /\ Limits \subseteq Nat

ASSUME DelayAssumption ==
    /\ MaxDuration \in Nat
    /\ Durations \subseteq 0 .. MaxDuration
    /\ DefaultInitial \in Nat /\ DefaultMax \in Nat
    /\ DefaultInitial <= DefaultMax /\ DefaultMax <= MaxDuration
    /\ WordBits \in Nat \ {0}
    /\ MaxSettings \in Nat /\ MaxAttempt \in Nat \ {0}

\* The powers of two that the multiplier takes, for the prover, which has no
\* arithmetic of exponents.
ASSUME PowerAssumption ==
    /\ 2^0 = 1
    /\ \A n \in 0 .. WordBits - 1 : 2^n \in Nat /\ 2^(n + 1) = 2 * 2^n
    /\ \A n \in 0 .. WordBits : 2^n \in Nat /\ n < 2^n

Protocol       == {"Json", "MessagePack"}
Authentication == {"None", "Basic", "Bearer"}

ReconnectPolicy ==
    [enabled : BOOLEAN, initialDelay : 0 .. MaxDuration,
     maxDelay : 0 .. MaxDuration, maxAttempts : Nat \cup {NoLimit}]

ConnectionConfiguration ==
    [secure : BOOLEAN, port : Ports \cup {NoPort}, hub : Hubs,
     authentication : Authentication, skipNegotiation : BOOLEAN,
     protocol : Protocol, reconnect : ReconnectPolicy]

SmallerOf(x, y) == IF x <= y THEN x ELSE y
LargerOf(x, y)  == IF x >= y THEN x ELSE y

-----------------------------------------------------------------------------
(* ConnectionConfiguration.                                                 *)

NewConfiguration ==
    [secure |-> TRUE, port |-> NoPort, hub |-> FirstHub,
     authentication |-> "None", skipNegotiation |-> FALSE, protocol |-> "Json",
     reconnect |-> [enabled |-> FALSE, initialDelay |-> DefaultInitial,
                    maxDelay |-> DefaultMax, maxAttempts |-> NoLimit]]

\* Mutant: the maximum is taken as it is given.
DelaysAsGiven(c, initial, max) ==
    [c EXCEPT !.reconnect.initialDelay = initial, !.reconnect.maxDelay = max]

WithReconnectDelays(c, initial, max) ==
    [c EXCEPT !.reconnect.initialDelay = initial,
              !.reconnect.maxDelay = LargerOf(max, initial)]

\* with_port, with_hub, secure, unsecure: where the server is.
AddressSetters(c) ==
    {[c EXCEPT !.port = p] : p \in Ports}
        \cup {[c EXCEPT !.hub = h] : h \in Hubs}
        \cup {[c EXCEPT !.secure = b] : b \in BOOLEAN}

\* authenticate_basic, authenticate_bearer, skip_negotiation, with_protocol.
ProtocolSetters(c) ==
    {[c EXCEPT !.authentication = a] : a \in {"Basic", "Bearer"}}
        \cup {[c EXCEPT !.skipNegotiation = TRUE]}
        \cup {[c EXCEPT !.protocol = p] : p \in Protocol}

\* with_auto_reconnect and its opposite, with_reconnect_delays,
\* with_max_reconnect_attempts, with_unlimited_reconnect_attempts.
ReconnectSetters(c) ==
    {[c EXCEPT !.reconnect.enabled = b] : b \in BOOLEAN}
        \cup {WithReconnectDelays(c, d[1], d[2]) : d \in Durations \X Durations}
        \cup {[c EXCEPT !.reconnect.maxAttempts = n] : n \in Limits \cup {NoLimit}}

WebUrl(c) ==
    [scheme |-> IF c.secure THEN "https" ELSE "http", port |-> c.port, hub |-> c.hub]

SocketUrl(c) ==
    [scheme |-> IF c.secure THEN "wss" ELSE "ws", port |-> c.port, hub |-> c.hub]

-----------------------------------------------------------------------------
(* ReconnectPolicy::delay_for_attempt.                                      *)

MaxWord == 2^WordBits - 1

\* Mutant: the multiplier is shifted once too often.
ShiftByAttempt(attempt) ==
    LET shift == attempt % 2^WordBits
    IN  IF shift < WordBits THEN 2^shift ELSE MaxWord

\* 1_u32.checked_shl(attempt.saturating_sub(1) as u32).unwrap_or(u32::MAX)
Multiplier(attempt) ==
    LET shift == LargerOf(attempt - 1, 0) % 2^WordBits
    IN  IF shift < WordBits THEN 2^shift ELSE MaxWord

\* Mutant: the maximum is forgotten.
DelayUncapped(policy, attempt) == policy.initialDelay * Multiplier(attempt)

DelayForAttempt(policy, attempt) ==
    SmallerOf(SmallerOf(policy.initialDelay * Multiplier(attempt), MaxDuration),
              policy.maxDelay)

-----------------------------------------------------------------------------
(* What the server of a negotiation may answer: the number of the           *)
(* negotiation as its connection id, with or without a token, and the       *)
(* transports it offers with their formats.                                 *)

TransportSpec == [transport : {"WebSockets", "LongPolling"},
                  formats : SUBSET {"Text", "Binary"}]

NegotiateResponse ==
    [token : BOOLEAN,
     transports : {<<>>, <<[transport |-> "LongPolling", formats |-> {"Text", "Binary"}]>>}
                  \cup {<<t, u>> : t, u \in TransportSpec}]

TransferFormat(protocol) == IF protocol = "Json" THEN "Text" ELSE "Binary"

\* The first entry for WebSockets is the one that counts.
Fits(answer, protocol) ==
    \E i \in DOMAIN answer.transports :
        LET spec == answer.transports[i]
        IN  /\ spec.transport = "WebSockets"
            /\ TransferFormat(protocol) \in spec.formats
            /\ \A j \in 1 .. i - 1 : answer.transports[j].transport # "WebSockets"

\* The query of a URL: the token of a bearer, or the id or the connection
\* token of a negotiation.
NoQuery     == [parameter |-> "none", number |-> 0]
AccessToken == [parameter |-> "access_token", number |-> 0]
Number      == 0 .. 1
Query       == {NoQuery, AccessToken} \cup
               [parameter : {"connection_id", "connection_token"}, number : Number]

IdParam(answer, number) ==
    [parameter |-> IF answer.token THEN "connection_token" ELSE "connection_id",
     number |-> number]

ConnectionData ==
    [endpoint : [scheme : {"ws", "wss"}, port : Ports \cup {NoPort}, hub : Hubs],
     query : Query, protocol : Protocol, authentication : Authentication]

NewConnectionData(c, query) ==
    [endpoint |-> SocketUrl(c), query |-> query,
     protocol |-> c.protocol, authentication |-> c.authentication]

\* What the server expects of the socket request that follows its answer.
FormatsOffered(answer) ==
    UNION {spec.formats : spec \in {answer.transports[i] : i \in
              {j \in DOMAIN answer.transports : answer.transports[j].transport = "WebSockets"}}}

Expected == [query : Query, formats : SUBSET {"Text", "Binary"}]
Nothing  == [query |-> NoQuery, formats |-> {}]

-----------------------------------------------------------------------------
(* A request, as post sends it, and as connect_socket does.                 *)

NoRequest == [none |-> TRUE]

\* Mutant: TLS is decided by the scheme of sockets only.
RequestByWss(url, query, authentication) ==
    [tls |-> url.scheme = "wss",
     port |-> IF url.port # NoPort THEN url.port
              ELSE IF url.scheme \in {"https", "wss"} THEN 443 ELSE 80,
     hub |-> url.hub, query |-> query, authorization |-> authentication]

RequestTo(url, query, authentication) ==
    [tls |-> url.scheme \in {"https", "wss"},
     port |-> IF url.port # NoPort THEN url.port
              ELSE IF url.scheme \in {"https", "wss"} THEN 443 ELSE 80,
     hub |-> url.hub, query |-> query, authorization |-> authentication]

\* The upgrade request of connect_socket.
SocketRequest(connection) ==
    RequestTo(connection.endpoint, connection.query, connection.authentication)

Request == [tls : BOOLEAN, port : Ports \cup {443, 80}, hub : Hubs,
            query : Query, authorization : Authentication]

-----------------------------------------------------------------------------
VARIABLES
    settings,  \* the number of setters called
    config,    \* the ConnectionConfiguration, kept as source_configuration
    phase,     \* where connect or the reconnect loop is
    data,      \* the ConnectionData of this attempt
    issued,    \* the number of the latest negotiation
    expected,  \* history: what its answer obliges this attempt to use
    request,   \* history: the latest request sent
    attempt,   \* attempt, 0 outside the reconnect loop
    delay,     \* what the loop has slept last
    tried      \* history: the attempts since the connection was lost

setupVars ==
    <<settings, config, phase, data, issued, expected, request, attempt, delay, tried>>

NoData == [none |-> TRUE]

Attempting == {"negotiating", "posted", "connecting", "handshake"}
Phase      == Attempting \cup {"configuring", "connected", "waiting", "failed", "closed"}

SetupInit ==
    /\ config = NewConfiguration /\ settings = 0
    /\ phase = "configuring"
    /\ data = NoData /\ issued = 0 /\ expected = Nothing /\ request = NoRequest
    /\ attempt = 0 /\ delay = 0 /\ tried = 0

\* One call of the closure that connect_with is given.
Configure ==
    /\ phase = "configuring"
    /\ settings < MaxSettings
    /\ settings' = settings + 1
    /\ config' \in AddressSetters(config) \cup ProtocolSetters(config)
                   \cup ReconnectSetters(config)
    /\ UNCHANGED <<phase, data, issued, expected, request, attempt, delay, tried>>

\* The closure returns: connect_internal negotiates.
Connect ==
    /\ phase = "configuring"
    /\ phase' = "negotiating" /\ settings' = 0
    /\ UNCHANGED <<config, data, issued, expected, request, attempt, delay, tried>>

\* negotiate with skip_negotiation: the socket URL as configured.
SkipNegotiation ==
    /\ phase = "negotiating"
    /\ config.skipNegotiation
    /\ data' = NewConnectionData(config, IF config.authentication = "Bearer"
                                         THEN AccessToken ELSE NoQuery)
    /\ phase' = "connecting"
    /\ UNCHANGED <<settings, config, issued, expected, request, attempt, delay, tried>>

\* negotiate without it: the request is on its way.
PostNegotiate ==
    /\ phase = "negotiating"
    /\ ~config.skipNegotiation
    /\ request' = RequestTo(WebUrl(config), NoQuery, config.authentication)
    /\ phase' = "posted"
    /\ UNCHANGED <<settings, config, data, issued, expected, attempt, delay, tried>>

\* The answer of the server arrives and fits.
Answered(answer) ==
    /\ phase = "posted"
    /\ Fits(answer, config.protocol)
    /\ issued' = 1 - issued
    /\ expected' = [query |-> [parameter |-> IF answer.token THEN "connection_token"
                                                             ELSE "connection_id",
                               number |-> issued'],
                    formats |-> FormatsOffered(answer)]
    /\ phase' = "connecting"
    /\ UNCHANGED <<settings, config, request, attempt, delay, tried>>

\* Mutant: a reconnect uses the endpoint of the first connection again.
KeepsEndpoint ==
    \E answer \in NegotiateResponse :
        /\ Answered(answer)
        /\ data' = IF data = NoData THEN NewConnectionData(config, IdParam(answer, issued'))
                                    ELSE data

\* create_configuration chooses the endpoint.
Negotiated ==
    \E answer \in NegotiateResponse :
        /\ Answered(answer)
        /\ data' = NewConnectionData(config, IdParam(answer, issued'))

\* connect_socket up to the handshake request: the socket is open.
SocketOpens ==
    /\ phase = "connecting"
    /\ request' = SocketRequest(data)
    /\ phase' = "handshake"
    /\ UNCHANGED <<settings, config, data, issued, expected, attempt, delay, tried>>

\* An attempt fails, here in phase p: the first one ends connect, any other is
\* followed by the next.  A loss is taken to be repaired by MaxAttempt.
AttemptFails(p) ==
    /\ phase = p
    /\ IF attempt = 0
       THEN phase' = "failed" /\ UNCHANGED attempt
       ELSE phase' = "waiting" /\ attempt < MaxAttempt /\ attempt' = attempt + 1
    /\ expected' = Nothing
    /\ UNCHANGED <<settings, config, data, issued, request, delay, tried>>

\* No answer, an answer that is no OK, or one that does not fit.
NegotiateFails == AttemptFails("posted")

\* No address, no TCP or TLS connection, or no upgrade.
ConnectFails == AttemptFails("connecting")

\* The handshake request or the frame that answers it fails.
HandshakeFails == AttemptFails("handshake")

\* A frame answers the handshake: the connection is published.
HandshakeRead ==
    /\ phase = "handshake"
    /\ phase' = "connected"
    /\ expected' = Nothing /\ attempt' = 0 /\ delay' = 0 /\ tried' = 0
    /\ UNCHANGED <<settings, config, data, issued, request>>

\* The monitor handles the loss of the connection.
Lost ==
    /\ phase = "connected"
    /\ IF config.reconnect.enabled
       THEN phase' = "waiting" /\ attempt' = 1
       ELSE phase' = "closed" /\ UNCHANGED attempt
    /\ UNCHANGED <<settings, config, data, issued, expected, request, delay, tried>>

\* Mutant: the limit is reached one attempt early.
ExhaustedEarly(n) ==
    /\ config.reconnect.maxAttempts # NoLimit
    /\ n >= config.reconnect.maxAttempts

Exhausted(n) ==
    /\ config.reconnect.maxAttempts # NoLimit
    /\ n > config.reconnect.maxAttempts

\* The loop gives up.
GiveUp ==
    /\ phase = "waiting"
    /\ Exhausted(attempt)
    /\ phase' = "closed"
    /\ UNCHANGED <<settings, config, data, issued, expected, request, attempt, delay, tried>>

\* The loop sleeps, and negotiates again from the source configuration.
Sleep ==
    /\ phase = "waiting"
    /\ ~Exhausted(attempt)
    /\ delay' = DelayForAttempt(config.reconnect, attempt)
    /\ tried' = tried + 1
    /\ phase' = "negotiating"
    /\ UNCHANGED <<settings, config, data, issued, expected, request, attempt>>

\* Nothing happens any more.
Over ==
    /\ phase \in {"failed", "closed"}
    /\ UNCHANGED setupVars

SetupNext ==
    \/ Configure \/ Connect \/ SkipNegotiation \/ PostNegotiate \/ Negotiated
    \/ SocketOpens \/ NegotiateFails \/ ConnectFails \/ HandshakeFails \/ HandshakeRead
    \/ Lost \/ GiveUp \/ Sleep \/ Over

SetupSpec == SetupInit /\ [][SetupNext]_setupVars

-----------------------------------------------------------------------------
(* Properties.                                                              *)

\* Every variable has its type.
SetupTypeOK ==
    /\ config \in ConnectionConfiguration /\ settings \in Nat
    /\ phase \in Phase
    /\ data \in ConnectionData \cup {NoData}
    /\ issued \in Number
    /\ expected \in Expected
    /\ request \in Request \cup {NoRequest}
    /\ attempt \in Nat /\ delay \in 0 .. MaxDuration /\ tried \in Nat

\* A socket is opened with the token or id of the negotiation just made, the
\* first time and at every reconnect, and speaks a format the server offered
\* for it (negotiate, create_configuration, reconnect_until_connected).
AddressesThisNegotiation ==
    phase \in {"connecting", "handshake"} /\ ~config.skipNegotiation =>
        /\ data.query = expected.query
        /\ TransferFormat(data.protocol) \in expected.formats
        /\ phase = "handshake" => request.query = expected.query

\* Every request, to negotiate or for a socket, of the first attempt or a
\* later one, goes where the configuration says, over TLS exactly if it is
\* secure, with its credentials; the bearer's token is in the URL only where no
\* negotiation could carry it (post, connect_socket, negotiate).
AsConfigured ==
    request # NoRequest =>
        /\ request.tls = config.secure
        /\ request.hub = config.hub
        /\ request.authorization = config.authentication
        /\ config.port # NoPort => request.port = config.port
        /\ request.query = AccessToken <=>
               config.skipNegotiation /\ config.authentication = "Bearer"

\* No wait between two attempts is shorter than the initial delay or longer
\* than the maximum, whatever was configured in whatever order; the widths of
\* attempt and multiplier do not matter for it (delay_for_attempt).
DelayWithinPolicy ==
    tried > 0 => /\ config.reconnect.initialDelay <= delay
                 /\ delay <= config.reconnect.maxDelay

\* The first retry waits for the initial delay, each later one for the double
\* of the previous delay, up to the maximum.  Beyond the width of the
\* multiplier the delay stops growing, but does not shrink, until the attempt
\* leaves that width too (delay_for_attempt).
BackoffDoubles ==
    [][tried' > tried =>
        LET policy  == config.reconnect
            doubled == SmallerOf(2 * delay, policy.maxDelay)
        IN  /\ tried = 0 => delay' = policy.initialDelay
            /\ tried \in 1 .. WordBits - 1 => delay' = doubled
            /\ tried \in WordBits .. 2^WordBits - 1 => delay <= delay' /\ delay' <= doubled
      ]_setupVars

\* "The first retry waits for `initial_delay`. Each later retry doubles the
\* previous delay until it reaches `max_delay`" (with_reconnect_delays): also
\* beyond the width of the multiplier.
DoublesUntilMaximum ==
    [][tried' > tried /\ tried > 0 =>
        delay' = SmallerOf(2 * delay, config.reconnect.maxDelay)]_setupVars

\* The reconnect loop gives up a lost connection when exactly the configured
\* number of attempts has failed, zero included, and never without a limit;
\* attempts of an earlier loss do not count (reconnect_until_connected).
GivesUpAtLimit ==
    [][phase' = "closed" /\ phase = "waiting" => tried = config.reconnect.maxAttempts]_setupVars
=============================================================================
