---------------------------- MODULE FrameReader ----------------------------
(***************************************************************************)
(* What becomes of the bytes of a socket: the frame that answers the       *)
(* handshake (connect_socket), the frames the reader task takes one by one *)
(* (start_split_tasks), the functions that split them into messages        *)
(* (get_messages_text, get_messages_binary), and the messages that reach   *)
(* the storage.                                                            *)
(*                                                                         *)
(* A byte is a pair: the number of its message and its place in it.  The   *)
(* server ends every message with the record separator, as the client does *)
(* (MessageParser::serialize); it may put several messages into one        *)
(* websocket message, the answer to the handshake included, and may send   *)
(* that in two fragments.  A piece of a message is taken not to parse.     *)
(***************************************************************************)
EXTENDS Naturals, Sequences

CONSTANTS
    MaxMessages,  \* bound: messages the server sends on a socket
    MaxInFrame,   \* bound: messages it puts into one websocket message
    SeparatorAt   \* where a MessagePack payload may have the separator's byte

ASSUME FrameAssumption ==
    /\ MaxMessages \in Nat /\ MaxInFrame \in Nat
    /\ SeparatorAt \subseteq {1, 2}

Separator == <<0, 0>>
Answer    == <<0, 1>>                 \* the answer to the handshake
Bytes     == (0 .. MaxMessages) \X (0 .. 2)
Message   == 1 .. MaxMessages

\* Message n, two bytes long.  A MessagePack payload may contain the byte of
\* the separator, here in the given place if that is not 0; JSON escapes it.
Payload(n, place) == [i \in 1 .. 2 |-> IF i = place THEN Separator ELSE <<n, i>>]

Places(protocol) == IF protocol = "MessagePack" THEN {0} \cup SeparatorAt ELSE {0}

\* MessageParser::serialize.
Serialize(payload) == Append(payload, Separator)

-----------------------------------------------------------------------------
(* Splitting a frame.                                                       *)

\* MessageParser::strip_record_separator (trim_end_matches).
StripRecordSeparator(text) ==
    SubSeq(text, 1, CHOOSE end \in 0 .. Len(text) :
                        /\ end = 0 \/ text[end] # Separator
                        /\ \A i \in end + 1 .. Len(text) : text[i] = Separator)

\* Where str::split cuts the first n bytes: before them, and at each separator.
Cuts(text) ==
    LET cuts[n \in 0 .. Len(text)] ==
            IF n = 0 THEN <<0>>
            ELSE IF text[n] = Separator THEN Append(cuts[n - 1], n) ELSE cuts[n - 1]
    IN  cuts

\* str::split at the separator.
Split(text) ==
    LET at == Append(Cuts(text)[Len(text)], Len(text) + 1)
    IN  [i \in 1 .. Len(at) - 1 |-> SubSeq(text, at[i] + 1, at[i + 1] - 1)]

IfNotEmpty(piece) == IF piece = <<>> THEN <<>> ELSE <<piece>>

\* map and filter: what the first n of the parts give.
Collected(parts) ==
    LET collected[n \in 0 .. Len(parts)] ==
            IF n = 0 THEN <<>>
            ELSE collected[n - 1] \o IfNotEmpty(StripRecordSeparator(parts[n]))
    IN  collected

GetMessagesText(text) == Collected(Split(text))[Len(Split(text))]

\* The loop: messages and the start of the rest after n rounds.  A round
\* splits off at the first separator of the rest, if there is one.
Rounds(data) ==
    LET separators(from) == {p \in from .. Len(data) : data[p] = Separator}
        first(from) == CHOOSE p \in separators(from) : \A q \in separators(from) : p <= q
        rounds[n \in 0 .. Len(data)] ==
            IF n = 0 THEN [messages |-> <<>>, from |-> 1]
            ELSE LET messages == rounds[n - 1].messages
                     from     == rounds[n - 1].from
                 IN  IF separators(from) = {} THEN rounds[n - 1]
                     ELSE [messages |-> messages \o IfNotEmpty(SubSeq(data, from, first(from) - 1)),
                           from     |-> first(from) + 1]
    IN  rounds

\* Mutant: what follows the last separator is dropped.
BinaryNeedsSeparator(data) == Rounds(data)[Len(data)].messages

GetMessagesBinary(data) ==
    LET end == Rounds(data)[Len(data)]
    IN  end.messages \o IfNotEmpty(SubSeq(data, end.from, Len(data)))

\* Mutant: no type is read first.
ParsesAll(piece) == TRUE

\* read_signalr_message_type.
Parses(piece) == \E n \in Message : piece = Payload(n, 0)

\* Mutant: a message that does not parse ends the frame.
DispatchedUntilError(pieces) ==
    LET dispatched[n \in 0 .. Len(pieces)] ==
            IF n = 0 THEN <<>>
            ELSE dispatched[n - 1] \o (IF \A i \in 1 .. n : Parses(pieces[i])
                                       THEN <<pieces[n][1][1]>> ELSE <<>>)
    IN  dispatched[Len(pieces)]

\* The numbers of the messages among the first n pieces of a frame that go to
\* the storage.
DispatchedOf(pieces) ==
    LET dispatched[n \in 0 .. Len(pieces)] ==
            IF n = 0 THEN <<>>
            ELSE dispatched[n - 1] \o (IF Parses(pieces[n]) THEN <<pieces[n][1][1]>> ELSE <<>>)
    IN  dispatched

Dispatched(pieces) == DispatchedOf(pieces)[Len(pieces)]

-----------------------------------------------------------------------------
Frame == [op : {"Text", "Binary", "Continuation", "Close"}, utf8 : BOOLEAN, data : Seq(Bytes)]

CloseFrame == [op |-> "Close", utf8 |-> TRUE, data |-> <<>>]

VARIABLES
    socket,     \* "none", "handshake", "open", or "ended" once the reader is
    protocol,   \* _protocol of the connection
    incoming,   \* frames sent by the server and not read
    answered,   \* whether the server has answered the handshake
    closing,    \* whether it has sent a close frame
    last,       \* number of the last message it has sent
    whole,      \* history: messages sent as one piece in one readable frame
    early,      \* history: messages sent in the frame of the answer
    processed   \* numbers of the messages given to the storage, in order

readerVars == <<socket, protocol, incoming, answered, closing, last, whole, early, processed>>

ReaderInit ==
    /\ socket = "none" /\ protocol = "Json" /\ incoming = <<>>
    /\ answered = FALSE /\ closing = FALSE /\ last = 0
    /\ whole = {} /\ early = {} /\ processed = <<>>

\* The upgrade has succeeded and the handshake request is written; the
\* connection will use protocol p.
OpenSocket(p) ==
    /\ socket = "none"
    /\ socket' = "handshake"
    /\ protocol' = p
    /\ UNCHANGED <<incoming, answered, closing, last, whole, early, processed>>

\* The next messages after number base, places saying what is in them.
Messages(base, places) ==
    [p \in 1 .. 3 * Len(places) |->
        LET i == (p + 2) \div 3
        IN  Serialize(Payload(base + i, places[i]))[p - 3 * (i - 1)]]

\* A websocket message, unfragmented, or cut before byte number cut + 1.
Fragments(op, utf8, bytes, cut) ==
    IF cut = 0
    THEN <<[op |-> op, utf8 |-> utf8, data |-> bytes]>>
    ELSE <<[op |-> op, utf8 |-> utf8, data |-> SubSeq(bytes, 1, cut)],
           [op |-> "Continuation", utf8 |-> TRUE,
            data |-> SubSeq(bytes, cut + 1, Len(bytes))]>>

\* The server sends its next messages in one websocket message, after its
\* answer if that is due.  A text may be cut within a character.
ServerSends(places, cut, utf8) ==
    LET next   == last + 1 .. last + Len(places)
        op     == IF protocol = "Json" THEN "Text" ELSE "Binary"
        bytes  == (IF answered THEN <<>> ELSE Serialize(<<Answer>>)) \o Messages(last, places)
        frames == Fragments(op, utf8, bytes, cut)
    IN  /\ socket \in {"handshake", "open"} /\ ~closing
        /\ last + Len(places) <= MaxMessages
        /\ bytes # <<>> /\ cut < Len(bytes)
        /\ ~utf8 => cut > 0 /\ op = "Text"
        /\ incoming' = incoming \o frames
        /\ last' = last + Len(places)
        /\ whole' = whole \cup
               {n \in next : /\ utf8
                             /\ places[n - last] = 0
                             /\ \E p \in DOMAIN frames[1].data : frames[1].data[p] = <<n, 2>>}
        /\ early' = IF answered THEN early ELSE next
        /\ answered' = TRUE
        /\ UNCHANGED <<socket, protocol, closing, processed>>

ServerSendsAny ==
    \E count \in 0 .. MaxInFrame, utf8 \in BOOLEAN :
        \E places \in [1 .. count -> Places(protocol)], cut \in 0 .. 3 * count + 1 :
            ServerSends(places, cut, utf8)

ServerCloses ==
    /\ socket \in {"handshake", "open"} /\ ~closing
    /\ incoming' = Append(incoming, CloseFrame)
    /\ closing' = TRUE
    /\ UNCHANGED <<socket, protocol, answered, last, whole, early, processed>>

\* connect_socket reads one frame and looks at nothing in it; the tasks start.
ReadHandshake ==
    /\ socket = "handshake"
    /\ incoming # <<>>
    /\ incoming' = Tail(incoming)
    /\ socket' = "open"
    /\ UNCHANGED <<protocol, answered, closing, last, whole, early, processed>>

\* The reader task: one frame, with every message in it.
ReadFrame ==
    /\ socket = "open"
    /\ incoming # <<>>
    /\ incoming' = Tail(incoming)
    /\ LET frame == Head(incoming)
       IN  \/ /\ frame.op = "Text"
              /\ processed' = processed \o
                     IF frame.utf8 THEN Dispatched(GetMessagesText(frame.data)) ELSE <<>>
              /\ UNCHANGED socket
           \/ /\ frame.op = "Binary"
              /\ processed' = processed \o Dispatched(GetMessagesBinary(frame.data))
              /\ UNCHANGED socket
           \/ /\ frame.op = "Continuation"
              /\ UNCHANGED <<socket, processed>>
           \/ /\ frame.op = "Close"
              /\ socket' = "ended"
              /\ UNCHANGED processed
    /\ UNCHANGED <<protocol, answered, closing, last, whole, early>>

\* Reading fails, or writing does.
ReadFails ==
    /\ socket = "open"
    /\ socket' = "ended"
    /\ UNCHANGED <<protocol, incoming, answered, closing, last, whole, early, processed>>

\* Mutant: the frames not read are kept for the next connection.
DropKeepsFrames ==
    /\ socket \in {"handshake", "ended"}
    /\ socket' = "none" /\ answered' = FALSE /\ closing' = FALSE
    /\ last' = 0 /\ whole' = {} /\ early' = {} /\ processed' = <<>>
    /\ UNCHANGED <<protocol, incoming>>

\* The connection is dropped, or the attempt to open it failed.
DropSocket ==
    /\ socket \in {"handshake", "ended"}
    /\ socket' = "none" /\ incoming' = <<>> /\ answered' = FALSE /\ closing' = FALSE
    /\ last' = 0 /\ whole' = {} /\ early' = {} /\ processed' = <<>>
    /\ UNCHANGED protocol

-----------------------------------------------------------------------------
(* Properties.                                                              *)

\* Every variable has its type, and without a socket there is nothing of the
\* one before it.
ReaderTypeOK ==
    /\ socket \in {"none", "handshake", "open", "ended"}
    /\ protocol \in {"Json", "MessagePack"}
    /\ incoming \in Seq(Frame)
    /\ answered \in BOOLEAN /\ closing \in BOOLEAN
    /\ last \in 0 .. MaxMessages
    /\ whole \subseteq Message /\ early \subseteq Message
    /\ processed \in Seq(Message)
    /\ socket = "none" =>
          /\ incoming = <<>> /\ ~answered /\ ~closing /\ last = 0
          /\ whole = {} /\ early = {} /\ processed = <<>>

\* The places where a maximal run of bytes without a separator starts.
RunStarts(data) ==
    {s \in DOMAIN data : data[s] # Separator /\ (s = 1 \/ data[s - 1] = Separator)}

\* The piece is the run that starts at s.
IsRunAt(data, s, piece) ==
    LET after == s + Len(piece)
    IN  /\ after <= Len(data) + 1
        /\ \A i \in DOMAIN piece : piece[i] = data[s + i - 1] /\ piece[i] # Separator
        /\ after = Len(data) + 1 \/ data[after] = Separator

\* The pieces are the runs, in order.
AreTheRuns(data, pieces) ==
    \E at \in [DOMAIN pieces -> RunStarts(data)] :
        /\ \A i \in DOMAIN pieces : IsRunAt(data, at[i], pieces[i])
        /\ \A i, j \in DOMAIN pieces : i < j => at[i] < at[j]
        /\ \A s \in RunStarts(data) : \E i \in DOMAIN pieces : at[i] = s

\* Whatever frame arrives, both splitters cut it into exactly its maximal runs
\* of bytes without a separator: no empty message, none lost, none joined, with
\* and without a separator at the end (get_messages_text, get_messages_binary).
SplittersExact ==
    \A i \in DOMAIN incoming :
        /\ AreTheRuns(incoming[i].data, GetMessagesText(incoming[i].data))
        /\ AreTheRuns(incoming[i].data, GetMessagesBinary(incoming[i].data))

\* The storage gets the messages of a socket in the order in which the server
\* sent them, each at most once, and only whole ones (the reader task).
InOrderOnce ==
    /\ \A i, j \in DOMAIN processed : i < j => processed[i] < processed[j]
    /\ \A i \in DOMAIN processed : processed[i] \in whole

Underway(n) == \E i \in DOMAIN incoming :
                   \E p \in DOMAIN incoming[i].data : incoming[i].data[p] = <<n, 2>>
Stored(n)   == \E i \in DOMAIN processed : processed[i] = n

\* A message that reaches the reader in one piece reaches the storage, whatever
\* surrounds it: fragments and broken messages cost themselves only.  Those in
\* the frame of the handshake's answer are excepted, see SetupMessagesKept.
LossAccounted ==
    socket = "open" => \A n \in whole \ early : Underway(n) \/ Stored(n)

\* "Messages sent during connection setup, before this registration, are
\* replayed automatically" (README.md): the storage gets them also when the
\* server sends them together with its answer to the handshake.
SetupMessagesKept ==
    socket = "open" => \A n \in whole : Underway(n) \/ Stored(n)
=============================================================================
