----------------------- MODULE ConnectionSetupProofs -----------------------
(***************************************************************************)
(* Proofs about ConnectionSetup, for all values of its constants.          *)
(***************************************************************************)
EXTENDS ConnectionSetup, TLAPS

-----------------------------------------------------------------------------
(* The delay.                                                               *)

\* The multiplier is a positive number whatever the attempt: the shift by the
\* width and beyond is caught, and the attempt is reduced to its width first.
LEMMA MultiplierPositive ==
    ASSUME NEW n \in Nat
    PROVE  Multiplier(n) \in Nat /\ Multiplier(n) >= 1
<1> DEFINE shift == LargerOf(n - 1, 0) % 2^WordBits
<1>1. 2^WordBits \in Nat /\ WordBits < 2^WordBits
  BY DelayAssumption, PowerAssumption
<1>2. LargerOf(n - 1, 0) \in Nat
  BY DEF LargerOf
<1>3. shift \in Nat
  BY <1>1, <1>2, DelayAssumption
<1>4. CASE shift < WordBits
  <2>1. 2^shift \in Nat /\ shift < 2^shift
    BY <1>3, <1>4, PowerAssumption, DelayAssumption
  <2> QED
    BY <2>1, <1>3, <1>4 DEF Multiplier
<1>5. CASE ~(shift < WordBits)
  <2>1. MaxWord \in Nat /\ MaxWord >= 1
    BY <1>1, DelayAssumption DEF MaxWord
  <2> QED
    BY <2>1, <1>5 DEF Multiplier
<1> QED
  BY <1>4, <1>5

\* A delay lies between the initial one and the maximum of its policy.
LEMMA DelayBounds ==
    ASSUME NEW policy \in ReconnectPolicy, NEW n \in Nat,
           policy.initialDelay <= policy.maxDelay
    PROVE  /\ DelayForAttempt(policy, n) \in 0 .. MaxDuration
           /\ policy.initialDelay <= DelayForAttempt(policy, n)
           /\ DelayForAttempt(policy, n) <= policy.maxDelay
<1> DEFINE i == policy.initialDelay
           m == Multiplier(n)
<1>1. m \in Nat /\ m >= 1
  BY MultiplierPositive
<1>2. /\ i \in 0 .. MaxDuration /\ policy.maxDelay \in 0 .. MaxDuration
      /\ MaxDuration \in Nat
  BY DelayAssumption DEF ReconnectPolicy
<1>3. i * m \in Nat /\ i <= i * m
  <2> HIDE DEF i, m
  <2>1. i \in Nat
    BY <1>2
  <2>2. \E k \in Nat : m = k + 1
    BY <1>1
  <2>3. PICK k \in Nat : m = k + 1
    BY <2>2
  <2>4. i * m = i * k + i /\ i * k \in Nat
    BY <2>1, <2>3
  <2> QED
    BY <2>1, <2>4
<1> QED
  <2> HIDE DEF m
  <2> QED
    BY <1>2, <1>3 DEF DelayForAttempt, SmallerOf, m

-----------------------------------------------------------------------------
(* Types.                                                                   *)

\* The maximum delay is never below the initial one, in whatever order they
\* were set.
PolicyOrdered == config.reconnect.initialDelay <= config.reconnect.maxDelay

\* An attempt to connect has the data that its phase needs.
DataPresent == phase \in {"connecting", "handshake"} => data \in ConnectionData

TInv == SetupTypeOK /\ PolicyOrdered /\ DataPresent

\* The defaults are a configuration, with ordered delays.
LEMMA InitialConfiguration ==
    /\ NewConfiguration \in ConnectionConfiguration
    /\ NewConfiguration.reconnect.initialDelay <= NewConfiguration.reconnect.maxDelay
BY SettingsAssumption, DelayAssumption
DEF NewConfiguration, ConnectionConfiguration, ReconnectPolicy, Authentication, Protocol

\* Every setter leaves a configuration with ordered delays.
LEMMA SettersKeepOrder ==
    ASSUME NEW c \in ConnectionConfiguration,
           c.reconnect.initialDelay <= c.reconnect.maxDelay,
           NEW d \in AddressSetters(c) \cup ProtocolSetters(c) \cup ReconnectSetters(c)
    PROVE  /\ d \in ConnectionConfiguration
           /\ d.reconnect.initialDelay <= d.reconnect.maxDelay
<1>1. CASE d \in AddressSetters(c)
  BY <1>1 DEF AddressSetters, ConnectionConfiguration
<1>2. CASE d \in ProtocolSetters(c)
  <2>1. CASE \E a \in {"Basic", "Bearer"} : d = [c EXCEPT !.authentication = a]
    BY <2>1 DEF ConnectionConfiguration, Authentication
  <2>2. CASE d = [c EXCEPT !.skipNegotiation = TRUE]
    BY <2>2 DEF ConnectionConfiguration
  <2>3. CASE \E p \in Protocol : d = [c EXCEPT !.protocol = p]
    BY <2>3 DEF ConnectionConfiguration
  <2> QED
    BY <1>2, <2>1, <2>2, <2>3 DEF ProtocolSetters
<1>3. CASE d \in ReconnectSetters(c)
  <2>1. CASE \E b \in BOOLEAN : d = [c EXCEPT !.reconnect.enabled = b]
    BY <2>1 DEF ConnectionConfiguration, ReconnectPolicy
  <2>2. CASE \E n \in Limits \cup {NoLimit} : d = [c EXCEPT !.reconnect.maxAttempts = n]
    BY <2>2, SettingsAssumption DEF ConnectionConfiguration, ReconnectPolicy
  <2>3. CASE \E w \in Durations \X Durations : d = WithReconnectDelays(c, w[1], w[2])
    <3>1. PICK w \in Durations \X Durations : d = WithReconnectDelays(c, w[1], w[2])
      BY <2>3
    <3>2. w[1] \in 0 .. MaxDuration /\ w[2] \in 0 .. MaxDuration
      BY DelayAssumption
    <3>3. LargerOf(w[2], w[1]) \in 0 .. MaxDuration /\ w[1] <= LargerOf(w[2], w[1])
      BY <3>2, DelayAssumption DEF LargerOf
    <3> QED
      BY <3>1, <3>2, <3>3 DEF WithReconnectDelays, ConnectionConfiguration, ReconnectPolicy
  <2> QED
    BY <1>3, <2>1, <2>2, <2>3 DEF ReconnectSetters
<1> QED
  BY <1>1, <1>2, <1>3

\* New connection data agree with the configuration they are made from.
LEMMA NewDataTyped ==
    ASSUME NEW c \in ConnectionConfiguration, NEW q \in Query
    PROVE  /\ NewConnectionData(c, q) \in ConnectionData
           /\ NewConnectionData(c, q).endpoint = SocketUrl(c)
           /\ NewConnectionData(c, q).query = q
           /\ NewConnectionData(c, q).protocol = c.protocol
           /\ NewConnectionData(c, q).authentication = c.authentication
BY DEF NewConnectionData, ConnectionData, ConnectionConfiguration, SocketUrl

\* A request is made of its address, its query and the credentials.
LEMMA RequestTyped ==
    ASSUME NEW url, url.hub \in Hubs, url.port \in Ports \cup {NoPort},
           NEW q \in Query, NEW a \in Authentication
    PROVE  RequestTo(url, q, a) \in Request
BY DEF RequestTo, Request

\* Every query there is, the one of an id and that of a token told apart.
LEMMA QueryTyped ==
    /\ NoQuery \in Query /\ AccessToken \in Query /\ NoQuery # AccessToken
    /\ Nothing \in Expected
    /\ \A answer \in NegotiateResponse, n \in Number :
        /\ IdParam(answer, n) \in Query
        /\ IdParam(answer, n) # AccessToken
<1>1. NoQuery.parameter # AccessToken.parameter
  BY DEF NoQuery, AccessToken
<1>2. NoQuery \in Query /\ AccessToken \in Query
  BY DEF Query
<1>3. Nothing \in Expected
  BY <1>2 DEF Nothing, Expected
<1>4. ASSUME NEW answer \in NegotiateResponse, NEW n \in Number
      PROVE  IdParam(answer, n) \in Query /\ IdParam(answer, n) # AccessToken
  <2>1. IdParam(answer, n).parameter # AccessToken.parameter
    BY DEF IdParam, AccessToken
  <2> QED
    BY <2>1 DEF IdParam, Query
<1> QED
  BY <1>1, <1>2, <1>3, <1>4

\* The types and the ordered delays hold always.
LEMMA SetupTypes == SetupSpec => []TInv
<1>1. SetupInit => TInv
  BY InitialConfiguration, QueryTyped, DelayAssumption
  DEF SetupInit, TInv, SetupTypeOK, PolicyOrdered, DataPresent, Phase, Attempting, Number
<1>2. TInv /\ [SetupNext]_setupVars => TInv'
  <2> SUFFICES ASSUME TInv, [SetupNext]_setupVars
               PROVE  TInv'
    OBVIOUS
  <2> USE DEF TInv, SetupTypeOK, PolicyOrdered, DataPresent, Phase, Attempting
  <2>1. CASE Configure
    BY <2>1, SettersKeepOrder DEF Configure
  <2>2. CASE Connect
    BY <2>2 DEF Connect
  <2>3. CASE SkipNegotiation
    BY <2>3, NewDataTyped, QueryTyped DEF SkipNegotiation
  <2>4. CASE PostNegotiate
    <3>1. /\ WebUrl(config).hub \in Hubs /\ WebUrl(config).port \in Ports \cup {NoPort}
          /\ config.authentication \in Authentication
      BY DEF WebUrl, ConnectionConfiguration
    <3>2. request' \in Request
      BY <2>4, <3>1, RequestTyped, QueryTyped DEF PostNegotiate
    <3> QED
      BY <2>4, <3>2 DEF PostNegotiate
  <2>5. CASE Negotiated
    <3>1. PICK answer \in NegotiateResponse :
            /\ Answered(answer)
            /\ data' = NewConnectionData(config, IdParam(answer, issued'))
      BY <2>5 DEF Negotiated
    <3>2. issued' \in Number
      BY <3>1 DEF Answered, Number
    <3>3. data' \in ConnectionData
      BY <3>1, <3>2, QueryTyped, NewDataTyped
    <3>4. expected' \in Expected
      <4>1. expected'.query \in Query
        BY <3>1, <3>2 DEF Answered, Query
      <4>2. FormatsOffered(answer) \in SUBSET {"Text", "Binary"}
        <5>1. ASSUME NEW j \in DOMAIN answer.transports
              PROVE  answer.transports[j].formats \in SUBSET {"Text", "Binary"}
          BY DEF NegotiateResponse, TransportSpec
        <5> QED
          BY <5>1 DEF FormatsOffered
      <4> QED
        BY <3>1, <4>1, <4>2 DEF Answered, Expected
    <3> QED
      BY <3>1, <3>2, <3>3, <3>4 DEF Answered
  <2>6. CASE SocketOpens
    <3>1. /\ data.endpoint.hub \in Hubs /\ data.endpoint.port \in Ports \cup {NoPort}
          /\ data.query \in Query /\ data.authentication \in Authentication
      BY <2>6 DEF SocketOpens, ConnectionData
    <3>2. request' \in Request
      BY <2>6, <3>1, RequestTyped DEF SocketOpens, SocketRequest
    <3> QED
      BY <2>6, <3>2 DEF SocketOpens
  <2>7. ASSUME NEW p, AttemptFails(p)
        PROVE  TInv'
    BY <2>7, QueryTyped DEF AttemptFails
  <2>8. CASE HandshakeRead
    BY <2>8, QueryTyped, DelayAssumption DEF HandshakeRead
  <2>9. CASE Lost
    BY <2>9 DEF Lost
  <2>10. CASE GiveUp
    BY <2>10 DEF GiveUp
  <2>11. CASE Sleep
    <3>1. config.reconnect \in ReconnectPolicy
      BY DEF ConnectionConfiguration
    <3>2. delay' \in 0 .. MaxDuration
      BY <2>11, <3>1, DelayBounds DEF Sleep
    <3> QED
      BY <2>11, <3>2 DEF Sleep
  <2>12. CASE UNCHANGED setupVars
    BY <2>12 DEF setupVars
  <2> QED
    BY <2>1, <2>2, <2>3, <2>4, <2>5, <2>6, <2>7, <2>8, <2>9, <2>10, <2>11, <2>12
    DEF SetupNext, NegotiateFails, ConnectFails, HandshakeFails, Over
<1> QED
  BY <1>1, <1>2, PTL DEF SetupSpec

\* Every variable keeps its type.
THEOREM SetupTypeCorrect == SetupSpec => []SetupTypeOK
BY SetupTypes, PTL DEF TInv

-----------------------------------------------------------------------------
(* Addresses and credentials.                                               *)

\* The data of an attempt agree with the configuration and with the answer of
\* this attempt's negotiation.
DataMatches ==
    phase \in {"connecting", "handshake"} =>
        /\ data.endpoint = SocketUrl(config)
        /\ data.authentication = config.authentication
        /\ data.query = AccessToken <=>
               config.skipNegotiation /\ config.authentication = "Bearer"
        /\ ~config.skipNegotiation =>
               /\ data.query = expected.query
               /\ TransferFormat(data.protocol) \in expected.formats

\* Only a socket request was sent when the handshake is awaited, and none while
\* the closure runs; only a client that negotiates waits for an answer.
RequestMatches ==
    /\ phase = "configuring" => request = NoRequest
    /\ phase = "posted" => ~config.skipNegotiation
    /\ phase = "handshake" => request.query = data.query

AInv == TInv /\ DataMatches /\ RequestMatches /\ AsConfigured

\* What a request says, if its URL is one of the configuration's.
LEMMA RequestsAsConfigured ==
    ASSUME NEW c \in ConnectionConfiguration, NEW url \in {WebUrl(c), SocketUrl(c)},
           NEW q
    PROVE  LET r == RequestTo(url, q, c.authentication)
           IN  /\ r.tls = c.secure /\ r.hub = c.hub /\ r.authorization = c.authentication
               /\ c.port # NoPort => r.port = c.port
               /\ r.query = q
BY DEF RequestTo, WebUrl, SocketUrl, ConnectionConfiguration

\* A transport that fits offers the format of the protocol.
LEMMA FitIsOffered ==
    ASSUME NEW answer, NEW p, Fits(answer, p)
    PROVE  TransferFormat(p) \in FormatsOffered(answer)
BY DEF Fits, FormatsOffered

\* The connection data agree always with the configuration and the last answer.
LEMMA SetupAddresses == SetupSpec => []AInv
<1>1. SetupInit => DataMatches /\ RequestMatches /\ AsConfigured
  BY DEF SetupInit, DataMatches, RequestMatches, AsConfigured
<1>2. TInv /\ TInv' /\ AInv /\ [SetupNext]_setupVars => AInv'
  <2> SUFFICES ASSUME TInv, TInv', AInv, [SetupNext]_setupVars
               PROVE  DataMatches' /\ RequestMatches' /\ AsConfigured'
    BY DEF AInv
  <2>0. config \in ConnectionConfiguration
    BY DEF TInv, SetupTypeOK
  <2> USE DEF AInv, DataMatches, RequestMatches
  <2>1. CASE Configure
    BY <2>1 DEF Configure, AsConfigured
  <2>2. CASE Connect
    BY <2>2 DEF Connect, AsConfigured
  <2>3. CASE SkipNegotiation
    BY <2>0, <2>3, NewDataTyped, QueryTyped DEF SkipNegotiation, AsConfigured
  <2>4. CASE PostNegotiate
    <3> HIDE DEF AInv, DataMatches, RequestMatches
    <3>1. AsConfigured'
      BY <2>0, <2>4, RequestsAsConfigured, QueryTyped DEF PostNegotiate, AsConfigured
    <3> QED
      BY <2>4, <3>1 DEF PostNegotiate, DataMatches, RequestMatches
  <2>5. CASE Negotiated
    <3>1. PICK answer \in NegotiateResponse :
            /\ Answered(answer)
            /\ data' = NewConnectionData(config, IdParam(answer, issued'))
      BY <2>5 DEF Negotiated
    <3>2. issued' \in Number
      BY DEF TInv, SetupTypeOK
    <3>3. /\ IdParam(answer, issued') \in Query
          /\ IdParam(answer, issued') # AccessToken
          /\ expected'.query = IdParam(answer, issued')
      BY <3>1, <3>2, QueryTyped DEF Answered, IdParam
    <3>4. TransferFormat(config.protocol) \in expected'.formats
      BY <3>1, FitIsOffered DEF Answered
    <3>5. ~config.skipNegotiation
      BY <3>1 DEF Answered
    <3> QED
      BY <2>0, <3>1, <3>3, <3>4, <3>5, NewDataTyped DEF Answered, AsConfigured
  <2>6. CASE SocketOpens
    <3>1. /\ data.endpoint = SocketUrl(config)
          /\ data.authentication = config.authentication
          /\ data.query = AccessToken <=>
                 config.skipNegotiation /\ config.authentication = "Bearer"
      BY <2>6 DEF SocketOpens
    <3>2. request' = RequestTo(SocketUrl(config), data.query, config.authentication)
      BY <2>6, <3>1 DEF SocketOpens, SocketRequest
    <3>3. /\ request'.tls = config.secure /\ request'.hub = config.hub
          /\ request'.authorization = config.authentication
          /\ config.port # NoPort => request'.port = config.port
          /\ request'.query = data.query
      BY <2>0, <3>2, RequestsAsConfigured
    <3> QED
      BY <2>6, <3>1, <3>3 DEF SocketOpens, AsConfigured
  <2>7. ASSUME NEW p, AttemptFails(p)
        PROVE  DataMatches' /\ RequestMatches' /\ AsConfigured'
    BY <2>7 DEF AttemptFails, AsConfigured
  <2>8. CASE HandshakeRead
    BY <2>8 DEF HandshakeRead, AsConfigured
  <2>9. CASE Lost
    BY <2>9 DEF Lost, AsConfigured
  <2>10. CASE GiveUp
    BY <2>10 DEF GiveUp, AsConfigured
  <2>11. CASE Sleep
    BY <2>11 DEF Sleep, AsConfigured
  <2>12. CASE UNCHANGED setupVars
    BY <2>12 DEF setupVars, AsConfigured
  <2> QED
    BY <2>1, <2>2, <2>3, <2>4, <2>5, <2>6, <2>7, <2>8, <2>9, <2>10, <2>11, <2>12
    DEF SetupNext, NegotiateFails, ConnectFails, HandshakeFails, Over
<1>3. AInv /\ TInv /\ TInv' /\ [SetupNext]_setupVars => AInv'
  BY <1>2
<1> QED
  BY <1>1, <1>3, SetupTypes, PTL DEF SetupSpec, AInv

\* Every socket, of the first attempt and of every reconnect, is opened with the
\* token or id of its own negotiation, in a format the server offered.
THEOREM NegotiatedAddressUsed == SetupSpec => []AddressesThisNegotiation
<1>1. AInv => AddressesThisNegotiation
  BY DEF AInv, DataMatches, RequestMatches, AddressesThisNegotiation
<1> QED
  BY <1>1, SetupAddresses, PTL

\* Every request goes where the configuration says, encrypted if it says so,
\* with its credentials, and the token is in a URL only without negotiation.
THEOREM RequestsMatchConfiguration == SetupSpec => []AsConfigured
BY SetupAddresses, PTL DEF AInv

-----------------------------------------------------------------------------
(* Attempts and delays.                                                     *)

\* The attempt number counts the attempts since the loss, the one to come
\* included, and never runs past the limit by more than one.
AttemptsCounted ==
    /\ phase = "configuring" => attempt = 0 /\ tried = 0
    /\ phase = "connected" => tried = 0
    /\ phase \in Attempting => tried = attempt
    /\ phase = "waiting" => attempt = tried + 1
    /\ phase \in Attempting \cup {"waiting"} /\ config.reconnect.maxAttempts # NoLimit =>
           tried <= config.reconnect.maxAttempts

\* The delay is that of the latest attempt.
DelayOfAttempt == tried > 0 => delay = DelayForAttempt(config.reconnect, tried)

BInv == AttemptsCounted /\ DelayOfAttempt

\* The attempt counts the attempts, and the delay is the one for it, always.
LEMMA SetupAttempts == SetupSpec => []BInv
<1>1. SetupInit => BInv
  BY SettingsAssumption
  DEF SetupInit, BInv, AttemptsCounted, DelayOfAttempt, Attempting, NewConfiguration
<1>2. TInv /\ BInv /\ [SetupNext]_setupVars => BInv'
  <2> SUFFICES ASSUME TInv, BInv, [SetupNext]_setupVars
               PROVE  BInv'
    OBVIOUS
  <2>0. /\ attempt \in Nat /\ tried \in Nat /\ phase \in Phase
        /\ config.reconnect.maxAttempts \in Nat \cup {NoLimit}
    BY DEF TInv, SetupTypeOK, ConnectionConfiguration, ReconnectPolicy
  <2> USE <2>0, SettingsAssumption DEF BInv, AttemptsCounted, DelayOfAttempt, Attempting
  <2>1. CASE Configure
    BY <2>1 DEF Configure
  <2>2. CASE Connect
    BY <2>2 DEF Connect
  <2>3. CASE SkipNegotiation
    BY <2>3 DEF SkipNegotiation
  <2>4. CASE PostNegotiate
    BY <2>4 DEF PostNegotiate
  <2>5. CASE Negotiated
    BY <2>5 DEF Negotiated, Answered
  <2>6. CASE SocketOpens
    BY <2>6 DEF SocketOpens
  <2>7. ASSUME NEW p, p \in Attempting, AttemptFails(p)
        PROVE  BInv'
    BY <2>7 DEF AttemptFails
  <2>8. CASE HandshakeRead
    BY <2>8 DEF HandshakeRead
  <2>9. CASE Lost
    BY <2>9 DEF Lost
  <2>10. CASE GiveUp
    BY <2>10 DEF GiveUp
  <2>11. CASE Sleep
    BY <2>11 DEF Sleep, Exhausted
  <2>12. CASE UNCHANGED setupVars
    BY <2>12 DEF setupVars
  <2> QED
    BY <2>1, <2>2, <2>3, <2>4, <2>5, <2>6, <2>7, <2>8, <2>9, <2>10, <2>11, <2>12
    DEF SetupNext, NegotiateFails, ConnectFails, HandshakeFails, Over
<1> QED
  BY <1>1, <1>2, SetupTypes, PTL DEF SetupSpec

\* No wait is shorter than the initial delay or longer than the maximum.
THEOREM DelaysWithinPolicy == SetupSpec => []DelayWithinPolicy
<1>1. TInv /\ BInv => DelayWithinPolicy
  <2> SUFFICES ASSUME TInv, BInv, tried > 0
               PROVE  /\ config.reconnect.initialDelay <= delay
                      /\ delay <= config.reconnect.maxDelay
    BY DEF DelayWithinPolicy
  <2>1. config.reconnect \in ReconnectPolicy /\ tried \in Nat
    BY DEF TInv, SetupTypeOK, ConnectionConfiguration
  <2> QED
    BY <2>1, DelayBounds DEF TInv, PolicyOrdered, BInv, DelayOfAttempt
<1> QED
  BY <1>1, SetupTypes, SetupAttempts, PTL

\* The reconnect loop gives up after exactly the configured number of attempts.
THEOREM LimitIsExact == SetupSpec => GivesUpAtLimit
<1>1. TInv /\ BInv /\ [SetupNext]_setupVars =>
          [phase' = "closed" /\ phase = "waiting" =>
               tried = config.reconnect.maxAttempts]_setupVars
  <2> SUFFICES ASSUME TInv, BInv, SetupNext, phase = "waiting", phase' = "closed"
               PROVE  tried = config.reconnect.maxAttempts
    OBVIOUS
  <2>1. /\ attempt \in Nat /\ tried \in Nat
        /\ config.reconnect.maxAttempts \in Nat \cup {NoLimit}
    BY DEF TInv, SetupTypeOK, ConnectionConfiguration, ReconnectPolicy
  <2>2. GiveUp
    BY DEF SetupNext, Configure, Connect, SkipNegotiation, PostNegotiate, Negotiated, Answered,
           SocketOpens, NegotiateFails, ConnectFails, HandshakeFails, AttemptFails,
           HandshakeRead, Lost, Sleep, Over
  <2>3. attempt = tried + 1 /\ Exhausted(attempt)
    BY <2>2 DEF GiveUp, BInv, AttemptsCounted
  <2> QED
    BY <2>1, <2>3 DEF BInv, AttemptsCounted, Exhausted
<1> QED
  BY <1>1, SetupTypes, SetupAttempts, PTL DEF SetupSpec, GivesUpAtLimit

\* The multiplier doubles up to its width, is at its maximum beyond it, and
\* stays there as long as the attempt is not reduced.
LEMMA MultiplierDoubles ==
    /\ Multiplier(1) = 1
    /\ \A n \in 1 .. WordBits - 1 : Multiplier(n + 1) = 2 * Multiplier(n)
    /\ \A n \in WordBits .. 2^WordBits - 1 :
           Multiplier(n) <= Multiplier(n + 1) /\ Multiplier(n + 1) <= 2 * Multiplier(n)
<1>0. /\ WordBits \in Nat \ {0} /\ 2^WordBits \in Nat /\ WordBits < 2^WordBits
      /\ MaxWord = 2^WordBits - 1
  BY DelayAssumption, PowerAssumption DEF MaxWord
<1>1. ASSUME NEW n \in 1 .. 2^WordBits
      PROVE  LargerOf(n - 1, 0) % 2^WordBits = n - 1
  <2>1. LargerOf(n - 1, 0) = n - 1 /\ n - 1 \in 0 .. 2^WordBits - 1
    BY <1>0 DEF LargerOf
  <2> QED
    BY <1>0, <2>1
<1>2. ASSUME NEW n \in 1 .. WordBits
      PROVE  Multiplier(n) = 2^(n - 1)
  <2>1. n \in 1 .. 2^WordBits /\ n - 1 < WordBits
    BY <1>0
  <2> QED
    BY <1>1, <2>1 DEF Multiplier
<1>3. ASSUME NEW n \in WordBits + 1 .. 2^WordBits
      PROVE  Multiplier(n) = MaxWord
  <2>1. n \in 1 .. 2^WordBits /\ ~(n - 1 < WordBits)
    BY <1>0
  <2> QED
    BY <1>1, <2>1 DEF Multiplier
<1>4. Multiplier(1) = 1
  <2>1. 1 \in 1 .. WordBits /\ 1 - 1 = 0
    BY <1>0
  <2>2. Multiplier(1) = 2^(1 - 1)
    BY <1>2, <2>1
  <2> QED
    BY <2>1, <2>2, PowerAssumption
<1>5. ASSUME NEW n \in 1 .. WordBits - 1
      PROVE  Multiplier(n + 1) = 2 * Multiplier(n)
  <2>1. n \in 1 .. WordBits /\ n + 1 \in 1 .. WordBits /\ n - 1 \in 0 .. WordBits - 1
        /\ (n + 1) - 1 = (n - 1) + 1
    BY <1>0
  <2>2. Multiplier(n) = 2^(n - 1) /\ Multiplier(n + 1) = 2^((n - 1) + 1)
    BY <1>2, <2>1
  <2> QED
    BY <2>1, <2>2, PowerAssumption
<1>6. ASSUME NEW n \in WordBits .. 2^WordBits - 1
      PROVE  Multiplier(n) <= Multiplier(n + 1) /\ Multiplier(n + 1) <= 2 * Multiplier(n)
  <2>1. Multiplier(n + 1) = MaxWord
    <3>1. n + 1 \in WordBits + 1 .. 2^WordBits
      BY <1>0
    <3> QED
      BY <1>3, <3>1
  <2>2. CASE n = WordBits
    <3>1. WordBits - 1 \in 0 .. WordBits - 1 /\ (WordBits - 1) + 1 = WordBits
      BY <1>0
    <3>2. 2^(WordBits - 1) \in Nat /\ 2^WordBits = 2 * 2^(WordBits - 1)
      BY <3>1, PowerAssumption
    <3>3. WordBits \in 1 .. WordBits
      BY <1>0
    <3>4. Multiplier(n) = 2^(WordBits - 1)
      BY <2>2, <3>3, <1>2
    <3> QED
      BY <1>0, <2>1, <3>2, <3>4
  <2>3. CASE n # WordBits
    <3>1. n \in WordBits + 1 .. 2^WordBits
      BY <1>0, <2>3
    <3>2. Multiplier(n) = MaxWord
      BY <1>3, <3>1
    <3> QED
      BY <1>0, <2>1, <3>2
  <2> QED
    BY <2>2, <2>3
<1> QED
  BY <1>4, <1>5, <1>6

\* So does the delay, below the maximum.
LEMMA DelayDoubles ==
    ASSUME NEW policy \in ReconnectPolicy, policy.initialDelay <= policy.maxDelay
    PROVE  LET D(n) == DelayForAttempt(policy, n)
           IN  /\ D(1) = policy.initialDelay
               /\ \A n \in 1 .. WordBits - 1 :
                      D(n + 1) = SmallerOf(2 * D(n), policy.maxDelay)
               /\ \A n \in WordBits .. 2^WordBits - 1 :
                      D(n) <= D(n + 1) /\ D(n + 1) <= SmallerOf(2 * D(n), policy.maxDelay)
<1> DEFINE i == policy.initialDelay
           max == policy.maxDelay
           D(n) == DelayForAttempt(policy, n)
<1>1. i \in Nat /\ max \in Nat /\ MaxDuration \in Nat /\ i <= max /\ max <= MaxDuration
  BY DelayAssumption DEF ReconnectPolicy
<1>2. ASSUME NEW n \in Nat
      PROVE  D(n) = SmallerOf(i * Multiplier(n), max) /\ i * Multiplier(n) \in Nat
  <2> DEFINE m == Multiplier(n)
  <2>1. m \in Nat
    BY MultiplierPositive
  <2>2. i * m \in Nat
    <3> HIDE DEF i, m
    <3> QED
      BY <1>1, <2>1
  <2> QED
    BY <1>1, <2>2 DEF DelayForAttempt, SmallerOf
<1>3. D(1) = i
  BY <1>1, <1>2, MultiplierDoubles DEF SmallerOf
<1>4. ASSUME NEW n \in 1 .. WordBits - 1
      PROVE  D(n + 1) = SmallerOf(2 * D(n), max)
  <2> DEFINE m == Multiplier(n)
             x == i * m
  <2>1. n \in Nat /\ n + 1 \in Nat
    BY DelayAssumption
  <2>2. m \in Nat
    BY <2>1, MultiplierPositive
  <2>3. Multiplier(n + 1) = 2 * m
    BY MultiplierDoubles
  <2>4. i * (2 * m) = 2 * x
    <3> HIDE DEF i, m
    <3> QED
      BY <1>1, <2>2
  <2>5. /\ D(n) = SmallerOf(x, max) /\ x \in Nat
        /\ D(n + 1) = SmallerOf(2 * x, max)
    BY <1>2, <2>1, <2>3, <2>4
  <2> QED
    <3> HIDE DEF x, D, max, m
    <3> QED
      BY <1>1, <2>5 DEF SmallerOf
<1>5. ASSUME NEW n \in WordBits .. 2^WordBits - 1
      PROVE  D(n) <= D(n + 1) /\ D(n + 1) <= SmallerOf(2 * D(n), max)
  <2> DEFINE m == Multiplier(n)
             k == Multiplier(n + 1)
             x == i * m
             y == i * k
  <2>1. n \in Nat /\ n + 1 \in Nat
    BY DelayAssumption, PowerAssumption
  <2>2. m \in Nat /\ k \in Nat /\ m <= k /\ k <= 2 * m
    BY <2>1, MultiplierPositive, MultiplierDoubles
  <2>3. x <= y /\ y <= 2 * x
    <3> HIDE DEF i, m, k
    <3>1. i * (k - m) \in Nat /\ i * (2 * m - k) \in Nat
      <4>1. k - m \in Nat /\ 2 * m - k \in Nat
        BY <2>2
      <4> QED
        BY <1>1, <4>1
    <3>2. i * (k - m) = y - x /\ i * (2 * m - k) = 2 * x - y /\ x \in Nat /\ y \in Nat
      BY <1>1, <2>2
    <3> QED
      BY <3>1, <3>2
  <2>4. D(n) = SmallerOf(x, max) /\ D(n + 1) = SmallerOf(y, max) /\ x \in Nat /\ y \in Nat
    BY <1>2, <2>1
  <2> QED
    <3> HIDE DEF x, y, D, max
    <3> QED
      BY <1>1, <2>3, <2>4 DEF SmallerOf
<1> QED
  BY <1>3, <1>4, <1>5

\* The first retry waits for the initial delay, every later one for twice the
\* delay before it, up to the maximum, as far as the multiplier reaches.
THEOREM BackoffIsExponential == SetupSpec => BackoffDoubles
<1> DEFINE Step ==
        tried' > tried =>
            LET policy  == config.reconnect
                doubled == SmallerOf(2 * delay, policy.maxDelay)
            IN  /\ tried = 0 => delay' = policy.initialDelay
                /\ tried \in 1 .. WordBits - 1 => delay' = doubled
                /\ tried \in WordBits .. 2^WordBits - 1 => delay <= delay' /\ delay' <= doubled
<1>1. TInv /\ BInv /\ [SetupNext]_setupVars => [Step]_setupVars
  <2> SUFFICES ASSUME TInv, BInv, SetupNext, tried' > tried
               PROVE  Step
    OBVIOUS
  <2>1. /\ config.reconnect \in ReconnectPolicy /\ tried \in Nat
        /\ config.reconnect.initialDelay <= config.reconnect.maxDelay
    BY DEF TInv, SetupTypeOK, PolicyOrdered, ConnectionConfiguration
  <2>2. Sleep
    BY <2>1 DEF SetupNext, Configure, Connect, SkipNegotiation, PostNegotiate, Negotiated,
           Answered, SocketOpens, NegotiateFails, ConnectFails, HandshakeFails, AttemptFails,
           HandshakeRead, Lost, GiveUp, Over, setupVars
  <2>3. delay' = DelayForAttempt(config.reconnect, tried + 1)
    BY <2>2 DEF Sleep, BInv, AttemptsCounted
  <2>4. tried > 0 => delay = DelayForAttempt(config.reconnect, tried)
    BY DEF BInv, DelayOfAttempt
  <2>5. tried = 0 => tried + 1 = 1
    BY <2>1
  <2>6. tried \in 1 .. WordBits - 1 \/ tried \in WordBits .. 2^WordBits - 1 => tried > 0
    BY <2>1, DelayAssumption
  <2> QED
    BY <2>1, <2>3, <2>4, <2>5, <2>6, DelayDoubles
<1> QED
  BY <1>1, SetupTypes, SetupAttempts, PTL DEF SetupSpec, BackoffDoubles
=============================================================================
