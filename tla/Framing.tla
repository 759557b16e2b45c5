-------------------------------- MODULE Framing --------------------------------
(***************************************************************************)
(* How TCPConnection (and StringProtocol on a serial line) makes messages  *)
(* of a stream of bytes: the sender puts the length in front; the receiver *)
(* collects what arrives in m_partialData and hands on complete messages.  *)
(* The stream may be cut into chunks anywhere.                             *)
(***************************************************************************)
EXTENDS Integers, Sequences, FiniteSets

CONSTANTS
  N,      \* messages
  Length, \* Length[n]: bytes of message n
  Window  \* bound: messages sent and not handed on

Messages   == 1..N
HeaderSize == 4
MaxLength  == 255

ASSUME FramingAssumption ==
  /\ N \in Nat /\ Window \in Nat \ {0}
  /\ Length \in [Messages -> 1..MaxLength]

VARIABLES
  whole,   \* no chunk ends within the header of a message that is read next
  window,  \* messages the sender sends before it waits for one to be handed on
  sent,    \* messages sent
  wire,    \* bytes under way
  partial, \* m_partialData
  good,    \* the state of m_partialData
  handed   \* history: what the listener has got

vars == <<whole, window, sent, wire, partial, good, handed>>

\* Byte i of message n, header and payload.
Bytes      == Messages \X (1..(HeaderSize + MaxLength))
Message(n) == [i \in 1..(HeaderSize + Length[n]) |-> <<n, i>>]
Header(n)  == SubSeq(Message(n), 1, HeaderSize)
Payload(n) == SubSeq(Message(n), HeaderSize + 1, HeaderSize + Length[n])

TypeOK ==
  /\ whole \in BOOLEAN /\ good \in BOOLEAN
  /\ window \in 1..Window /\ sent \in 0..N
  /\ wire \in Seq(Bytes) /\ partial \in Seq(Bytes)
  /\ handed \in Seq(Seq(Bytes))
  /\ whole => good

Init ==
  /\ whole \in BOOLEAN /\ window \in 1..Window
  /\ sent = 0 /\ wire = <<>> /\ partial = <<>> /\ good = TRUE /\ handed = <<>>

\* The number of messages handed on that are not empty.
Received == Cardinality({i \in DOMAIN handed : handed[i] # <<>>})

Send ==
  /\ sent < N /\ sent - Received < window
  /\ sent' = sent + 1
  /\ wire' = wire \o Message(sent + 1)
  /\ UNCHANGED <<whole, window, partial, good, handed>>

\* The length can be read.
HeaderArrived(data) == Len(data) >= HeaderSize

\* What may be read as the length at the beginning of the data: bytes that are no
\* header may mean anything.
DataSize(data) ==
  LET ns == {n \in Messages : SubSeq(data, 1, HeaderSize) = Header(n)}
  IN  IF ns = {} THEN 0..MaxLength ELSE {Length[n] : n \in ns}

\* Mutant of HasCompleteData: another byte must have arrived.
HasMoreData(data, size) == Len(data) > HeaderSize + size

HasCompleteData(data, size) == Len(data) >= HeaderSize + size

\* Mutant of Remaining: the buffer is reset.
NothingRemains(data, size) == <<>>

\* What follows the message stays in the stream.
Remaining(data, size) == SubSeq(data, HeaderSize + size + 1, Len(data))

\* receivedString: at most one message is handed on.
ReceivedString(data) ==
  \E size \in DataSize(data) :
    IF HasCompleteData(data, size)
    THEN /\ handed' = Append(handed, SubSeq(data, HeaderSize + 1, HeaderSize + size))
         /\ partial' = Remaining(data, size)
    ELSE partial' = data /\ UNCHANGED handed

\* Reading a header that is not complete fails, for good: from then on nothing
\* can be written to the stream, and every chunk counts as an empty message.
\* (The leading bytes of the length of a message below 256 bytes are zero.)
ReadFails(data) ==
  /\ good' = FALSE
  /\ handed' = Append(handed, <<>>)
  /\ partial' = data

\* A chunk of k bytes arrives.
Receive(k) ==
  /\ k <= Len(wire)
  /\ wire' = SubSeq(wire, k + 1, Len(wire))
  /\ LET data == partial \o SubSeq(wire, 1, k)
     IN  /\ whole => Len(data) >= HeaderSize
         /\ IF ~good THEN ReadFails(partial)
            ELSE IF ~HeaderArrived(data) THEN ReadFails(data)
            ELSE ReceivedString(data) /\ UNCHANGED good
  /\ UNCHANGED <<whole, window, sent>>

Chunks == 1..(Window * (HeaderSize + MaxLength))

Next == Send \/ \E k \in Chunks : Receive(k)

Spec == Init /\ [][Next]_vars

\* The network delivers; nobody has to send.
FairSpec == Spec /\ WF_vars(\E k \in Chunks : Receive(k))

-----------------------------------------------------------------------------

\* Wherever the stream is cut, the listener gets the messages that were sent,
\* whole and in order; after a failure it gets nothing at all.
WholeAndInOrder ==
  \E n \in 0..sent :
    /\ n <= Len(handed)
    /\ \A i \in 1..Len(handed) : handed[i] = IF i <= n THEN Payload(i) ELSE <<>>

\* The byte that is sent after byte b.
NextByte(b) ==
  IF b[2] < HeaderSize + Length[b[1]] THEN <<b[1], b[2] + 1>> ELSE <<b[1] + 1, 1>>

\* No byte is lost while the stream is good: those that have arrived and those
\* under way go on, without a gap, from the first byte of the first message that
\* was not handed on to the last byte that was sent.
NoByteLost ==
  good =>
    LET rest == partial \o wire
    IN  IF rest = <<>> THEN Len(handed) = sent
        ELSE /\ rest[1] = <<Len(handed) + 1, 1>>
             /\ \A i \in 1..(Len(rest) - 1) : rest[i + 1] = NextByte(rest[i])
             /\ rest[Len(rest)] = <<sent, HeaderSize + Length[sent]>>

\* If no header is cut, the listener is never further behind than the messages
\* that may be under way besides the last one.
NeverFurtherBehind ==
  \A n \in Messages : whole /\ sent >= n ~> Received >= n - (window - 1)

-----------------------------------------------------------------------------
(* What comments of the program say, and the code does not do. *)

\* "The first piece contains the data for the StringListener, the second piece
\* will remain in the stringstream": even if it is a complete message, until
\* another chunk arrives.
CompleteIsHandedOn == \A n \in Messages : whole /\ sent >= n ~> Received >= n
================================================================================
