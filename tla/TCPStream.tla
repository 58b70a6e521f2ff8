----------------------------- MODULE TCPStream -----------------------------
(* One direction of a connection.  common/tcp_socket.cpp sends and reads     *)
(* bytes, and the two recvCallbacks cut what they have read into records of  *)
(* sizeof(message) bytes, wherever a message begins: once a send has taken   *)
(* only the beginning of a message, what a record holds may be of two.       *)
(*                                                                           *)
(* A message is Size parts.  Up to NumberEnd they are its seq_num_, up to    *)
(* ClientEnd the client_id_ (the request's or response's type_ with it), and *)
(* the others the rest of it.  A stream is the sequence of the parts that    *)
(* have been sent and are in no record yet.                                  *)
EXTENDS Integers, Sequences

CONSTANTS
    Size, NumberEnd, ClientEnd,
    AnyClientId     \* what four bytes may say: a client's id, or one out of range

Part(m, i) == [of |-> m, at |-> i]
Parts(m) == [i \in 1 .. Size |-> Part(m, i)]

\* outbound_data_, of messages that TCPSocket::send has been given.
Wire(messages) ==
    LET wire[i \in 0 .. Len(messages)] ==
            IF i = 0 THEN <<>> ELSE wire[i - 1] \o Parts(messages[i])
    IN  wire[Len(messages)]

\* How many bytes ::send() may take: sendAndRecv does not look at its result and
\* forgets its buffer, so that what has not been taken is lost.
Takes(bytes, open) == IF open THEN 0 .. Len(bytes) ELSE {0}

Flushed(stream, bytes, n) == stream \o SubSeq(bytes, 1, n)

\* The last message of which the kernel takes anything is cut short.
Tears(bytes, n) == n > 0 /\ bytes[n].at # Size

HasRecord(stream) == Len(stream) >= Size

\* How many records there may be in what recvmsg() has read: at least one if one
\* has arrived.
Readable(stream) == IF HasRecord(stream) THEN 1 .. Len(stream) \div Size ELSE {0}

Record(stream) == SubSeq(stream, 1, Size)
Rest(stream) == SubSeq(stream, Size + 1, Len(stream))

\* Its parts from first to last are one message's, and in their place.
Whole(record, first, last) ==
    \A i \in first .. last : record[i] = Part(record[last].of, i)

Intact(record) == Whole(record, 1, Size)

\* What a field says that two messages make up cannot be told: it may be the
\* number expected, or another (0 is never expected).
SeqNums(record, expected) ==
    IF Whole(record, 1, NumberEnd) THEN {record[NumberEnd].of.seq_num_} ELSE {expected, 0}

ClientIds(record) ==
    IF Whole(record, NumberEnd + 1, ClientEnd) THEN {record[ClientEnd].of.client_id_}
    ELSE AnyClientId
=============================================================================
