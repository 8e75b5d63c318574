--------------------------- MODULE SessionProofs ---------------------------
(***************************************************************************)
(* A session takes no step to a socket that ConnectionSetup does not know, *)
(* and ends its reading with it; and what the reader promises holds in     *)
(* every session, whatever the server sends on whichever socket.           *)
(***************************************************************************)
EXTENDS Session, ConnectionSetupProofs, FrameReaderProofs

\* Reading frames, and losing connections only when the reader has ended, keeps
\* to the rules of ConnectionSetup; what is proved of those holds of a session.
THEOREM SessionImplementsSetup == SessionSpec => SetupSpec
<1>1. SessionInit => SetupInit
  BY DEF SessionInit
<1>2. [SessionNext]_sessionVars => [SetupNext]_setupVars
  <2>1. ASSUME Prepare PROVE SetupNext
    BY <2>1 DEF Prepare, SetupNext
  <2>2. ASSUME OpenSession \/ AbandonHandshake \/ BeginReading \/ LoseConnection
        PROVE  SetupNext
    BY <2>2 DEF OpenSession, AbandonHandshake, BeginReading, LoseConnection, SetupNext
  <2>3. ASSUME Exchange \/ UNCHANGED sessionVars
        PROVE  UNCHANGED setupVars
    BY <2>3 DEF Exchange, sessionVars
  <2> QED
    BY <2>1, <2>2, <2>3 DEF SessionNext
<1> QED
  BY <1>1, <1>2, PTL DEF SessionSpec, SetupSpec

\* In every phase of the setup that has a socket, and in no other, the reader's
\* side has one too.
SocketPhases ==
    /\ socket = "handshake" <=> phase = "handshake"
    /\ socket \in {"open", "ended"} <=> phase = "connected"

\* The reader's socket and the phase of the client never part.
THEOREM SocketFollowsPhase == SessionSpec => []SocketPhases
<1>1. SessionInit => SocketPhases
  BY DEF SessionInit, SetupInit, ReaderInit, SocketPhases
<1>2. SocketPhases /\ [SessionNext]_sessionVars => SocketPhases'
  <2> SUFFICES ASSUME SocketPhases, [SessionNext]_sessionVars
               PROVE  SocketPhases'
    OBVIOUS
  <2>1. CASE Prepare
    BY <2>1 DEF Prepare, SocketPhases, readerVars, Configure, Connect, SkipNegotiation,
       PostNegotiate, Negotiated, Answered, NegotiateFails, ConnectFails, AttemptFails,
       GiveUp, Sleep, Over, setupVars
  <2>2. CASE OpenSession
    BY <2>2 DEF OpenSession, SocketOpens, OpenSocket, SocketPhases
  <2>3. CASE AbandonHandshake
    BY <2>3 DEF AbandonHandshake, HandshakeFails, AttemptFails, DropSocket, SocketPhases
  <2>4. CASE BeginReading
    BY <2>4 DEF BeginReading, HandshakeRead, ReadHandshake, SocketPhases
  <2>5. CASE LoseConnection
    BY <2>5 DEF LoseConnection, Lost, DropSocket, SocketPhases
  <2>6. CASE Exchange
    <3>1. phase' = phase
      BY <2>6 DEF Exchange, setupVars
    <3>2. ASSUME NEW places, NEW cut, NEW utf8, ServerSends(places, cut, utf8)
          PROVE  socket' = socket
      BY <3>2 DEF ServerSends
    <3>3. CASE ServerSendsAny
      BY <3>1, <3>2, <3>3 DEF SocketPhases, ServerSendsAny
    <3>4. CASE ServerCloses \/ ReadFails
      BY <3>1, <3>4 DEF SocketPhases, ServerCloses, ReadFails
    <3>5. CASE ReadFrame
      <4>1. socket = "open" /\ socket' \in {"open", "ended"}
        BY <3>5 DEF ReadFrame
      <4> QED
        BY <3>1, <4>1 DEF SocketPhases
    <3> QED
      BY <2>6, <3>3, <3>4, <3>5 DEF Exchange
  <2>7. CASE UNCHANGED sessionVars
    BY <2>7 DEF sessionVars, setupVars, readerVars, SocketPhases
  <2> QED
    BY <2>1, <2>2, <2>3, <2>4, <2>5, <2>6, <2>7 DEF SessionNext
<1> QED
  BY <1>1, <1>2, PTL DEF SessionSpec

-----------------------------------------------------------------------------
(* The reader.                                                              *)

\* A socket is opened with data, so with a protocol: an action property of
\* ConnectionSetup that its types and DataPresent give.
LEMMA OpenedWithProtocol ==
    ASSUME TInv, OpenSession
    PROVE  \E p \in {"Json", "MessagePack"} : OpenSocket(p)
<1>1. data \in ConnectionData
  BY DEF TInv, SetupTypeOK, DataPresent, OpenSession, SocketOpens
<1>2. data.protocol \in {"Json", "MessagePack"}
  BY <1>1 DEF ConnectionData, Protocol
<1> QED
  BY <1>2 DEF OpenSession

\* The invariant of the reader holds in every session.
THEOREM ReaderInvariant == SessionSpec => []ReaderIInv
<1>1. SessionInit => ReaderIInv
  BY ReaderInitIInv DEF SessionInit
<1>2. TInv /\ ReaderIInv /\ [SessionNext]_sessionVars => ReaderIInv'
  <2> SUFFICES ASSUME TInv, ReaderIInv, [SessionNext]_sessionVars
               PROVE  ReaderIInv'
    OBVIOUS
  <2>1. CASE Prepare
    BY <2>1, ReaderUnchanged DEF Prepare
  <2>2. CASE OpenSession
    BY <2>2, OpenedWithProtocol, OpenSocketIInv
  <2>3. CASE AbandonHandshake \/ LoseConnection
    BY <2>3, DropSocketIInv DEF AbandonHandshake, LoseConnection
  <2>4. CASE BeginReading
    BY <2>4, ReadHandshakeIInv DEF BeginReading
  <2>5. CASE Exchange
    <3>1. CASE ServerSendsAny
      BY <3>1, ServerSendsIInv DEF ServerSendsAny
    <3>2. CASE ServerCloses
      BY <3>2, ServerClosesIInv
    <3>3. CASE ReadFrame
      BY <3>3, ReadFrameIInv
    <3>4. CASE ReadFails
      BY <3>4, ReadFailsIInv
    <3> QED
      BY <2>5, <3>1, <3>2, <3>3, <3>4 DEF Exchange
  <2>6. CASE UNCHANGED sessionVars
    BY <2>6, ReaderUnchanged DEF sessionVars
  <2> QED
    BY <2>1, <2>2, <2>3, <2>4, <2>5, <2>6 DEF SessionNext
<1>3. SessionSpec => []TInv
  BY SessionImplementsSetup, SetupTypes, PTL
<1> QED
  BY <1>1, <1>2, <1>3, PTL DEF SessionSpec

\* Every variable of the reader keeps its type.
THEOREM ReaderTypeCorrect == SessionSpec => []ReaderTypeOK
<1>1. ReaderIInv => ReaderTypeOK
  BY DEF ReaderIInv
<1> QED
  BY <1>1, ReaderInvariant, PTL

\* Whatever frame arrives, get_messages_text and get_messages_binary cut it
\* into exactly its runs without a separator.
THEOREM SplittersCutExactly == SessionSpec => []SplittersExact
<1>1. ReaderIInv => SplittersExact
  BY SplittersAreExact DEF ReaderIInv
<1> QED
  BY <1>1, ReaderInvariant, PTL

\* The storage gets the messages of a socket in order, each at most once, and
\* only whole ones.
THEOREM StoredOnceInOrder == SessionSpec => []InOrderOnce
<1>1. ReaderIInv => InOrderOnce
  BY StoredInOrderOnce
<1> QED
  BY <1>1, ReaderInvariant, PTL

\* A message that reaches the reader in one piece, after the answer to the
\* handshake, reaches the storage.
THEOREM WholeMessagesKept == SessionSpec => []LossAccounted
<1>1. ReaderIInv => LossAccounted
  BY LossIsAccounted
<1> QED
  BY <1>1, ReaderInvariant, PTL
=============================================================================
