------------------------------ MODULE Session ------------------------------
(***************************************************************************)
(* ConnectionSetup and FrameReader together: every socket that an attempt  *)
(* opens is read with the protocol negotiated for it, from the handshake   *)
(* to the loss that starts the next attempt.                               *)
(***************************************************************************)
EXTENDS ConnectionSetup, FrameReader

sessionVars == <<setupVars, readerVars>>

SessionInit == SetupInit /\ ReaderInit

\* Steps without a socket.
Prepare ==
    /\ Configure \/ Connect \/ SkipNegotiation \/ PostNegotiate \/ Negotiated
       \/ NegotiateFails \/ ConnectFails \/ GiveUp \/ Sleep \/ Over
    /\ UNCHANGED readerVars

\* Steps of connect_socket and of the monitor that concern both.
OpenSession      == SocketOpens /\ OpenSocket(data.protocol)
AbandonHandshake == HandshakeFails /\ DropSocket
BeginReading     == HandshakeRead /\ ReadHandshake
LoseConnection   == socket = "ended" /\ Lost /\ DropSocket

\* Steps of the server and of the reader task.
Exchange ==
    /\ ServerSendsAny \/ ServerCloses \/ ReadFrame \/ ReadFails
    /\ UNCHANGED setupVars

SessionNext ==
    Prepare \/ OpenSession \/ AbandonHandshake \/ BeginReading \/ LoseConnection \/ Exchange

SessionSpec == SessionInit /\ [][SessionNext]_sessionVars
=============================================================================
