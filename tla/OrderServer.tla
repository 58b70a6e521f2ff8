---------------------------- MODULE OrderServer ----------------------------
(***************************************************************************)
(* exchange/order_server/order_server.cpp, with its TCPServer and its      *)
(* FIFOSequencer: one thread that polls for connections, reads every       *)
(* socket once, sequences what has come in, and sends responses.           *)
(*                                                                         *)
(* The sequencer sorts by receive time.  That is always 0: the kernel's    *)
(* stamp is asked for with SO_TIMESTAMP (socket_utils.hpp:85) and looked   *)
(* for with SO_TIMESTAMPNS (tcp_socket.cpp:33).  All requests of a round   *)
(* compare equal and std::sort may leave them in any order; libstdc++      *)
(* keeps that of up to 16 elements.                                        *)
(***************************************************************************)
EXTENDS Integers, Sequences, FiniteSets, Functions

CONSTANTS
    Gateways, Clients, None, Size, NumberEnd, ClientEnd, AnyClientId,
    Spliced,        \* in place of the gateway: the record is of more than one message
    ME_MAX_PENDING_REQUESTS,
    StableUpTo,     \* the requests std::sort leaves in order if they compare equal
    MaxTorn,        \* bound of the model: streams in which a message is cut short
    AcceptsLast     \* whether poll() accepts a connection whose event is the
                    \* last of its batch; the code does not (see AcceptMissed)

VARIABLES
    backlog,            \* connections made and not accepted
    listener_ready,     \* the listener's edge-triggered event is due
    receive_sockets_,
    visiting,           \* 0 in poll(), then the place in receive_sockets_, then
                        \* one and two further for what run() does after it
    cid_tcp_sockets_, cid_next_exp_seq_num_, cid_next_outgoing_seq_num_,
    pending_client_requests_,
    server_outbound,    \* outbound_data_ of the accepted sockets
    client_requests,    \* the queue to the matching engine
    client_responses,   \* and from it
    server,             \* "running", or why the process has ended
    reordered,          \* std::sort has changed the order of a round
    fellShort, torn, upstream, downstream

TCP == INSTANCE TCPStream

Init ==
    /\ backlog = <<>>
    /\ listener_ready = FALSE
    /\ receive_sockets_ = <<>>
    /\ visiting = 0
    /\ cid_tcp_sockets_ = [c \in Clients |-> None]
    /\ cid_next_exp_seq_num_ = [c \in Clients |-> 1]
    /\ cid_next_outgoing_seq_num_ = [c \in Clients |-> 1]
    /\ pending_client_requests_ = <<>>
    /\ server_outbound = [g \in Gateways |-> <<>>]
    /\ client_requests = <<>>
    /\ client_responses = <<>>
    /\ server = "running"
    /\ reordered = FALSE
----------------------------------------------------------------------------
(* TCPServer::poll.                                                        *)

Connected(g) ==
    /\ backlog' = Append(backlog, g)
    /\ listener_ready' = TRUE
    /\ UNCHANGED <<receive_sockets_, visiting, cid_tcp_sockets_,
                   cid_next_exp_seq_num_, cid_next_outgoing_seq_num_,
                   pending_client_requests_, server_outbound, client_requests,
                   client_responses, server, reordered>>

\* Defect for the mutation runs: one connection is accepted for each event.
AcceptOne ==
    /\ listener_ready
    /\ backlog' = Tail(backlog)
    /\ receive_sockets_' = Append(receive_sockets_, Head(backlog))

\* poll() has the listener's event, and accepts all connections there are.
Accept ==
    /\ listener_ready
    /\ backlog' = <<>>
    /\ receive_sockets_' = receive_sockets_ \o backlog

\* The loop that accepts is inside the loop over the events and follows a
\* continue: it is not reached unless an accepted socket's event comes later in
\* the batch.
AcceptMissed ==
    /\ listener_ready => ~AcceptsLast
    /\ UNCHANGED <<backlog, receive_sockets_>>

AnotherEvent == \E i \in DOMAIN receive_sockets_ : upstream[receive_sockets_[i]] # <<>>

Poll ==
    /\ visiting = 0
    /\ \/ (AcceptsLast \/ AnotherEvent) /\ Accept
       \/ AcceptMissed
    /\ listener_ready' = FALSE
    /\ visiting' = 1
    /\ UNCHANGED <<cid_tcp_sockets_, cid_next_exp_seq_num_, cid_next_outgoing_seq_num_,
                   pending_client_requests_, server_outbound, client_requests,
                   client_responses, server, reordered, fellShort, torn, upstream, downstream>>
----------------------------------------------------------------------------
(* TCPServer::sendAndRecv, socket by socket, with recvCallback.            *)

\* Defect for the mutation runs: a message from another socket frees the client.
OwnerForgotten(now, g, c) == IF now.sockets[c] \in {None, g} THEN g ELSE None

\* A client belongs to the socket that the first record with its id came from.
Owner(now, g, c) == IF now.sockets[c] = None THEN g ELSE now.sockets[c]

\* Defect for the mutation runs: requests are taken from any socket.
TakenFromAny(now, g, c, seq_num) == seq_num = now.expected[c]

Accepted(now, g, c, seq_num) == Owner(now, g, c) = g /\ seq_num = now.expected[c]

\* The request in a record, told by the gateway it is from and its number there.
Request(record, c, seq_num) ==
    IF TCP!Intact(record)
    THEN [client_id_ |-> c, from |-> record[1].of.from, nth |-> record[1].of.nth]
    ELSE [client_id_ |-> c, from |-> Spliced, nth |-> seq_num]

\* Defect for the mutation runs: one request more than there is room for.
AddAnyway(now, request) ==
    IF Len(now.pending) <= ME_MAX_PENDING_REQUESTS
    THEN [now EXCEPT !.pending = Append(@, request)]
    ELSE [now EXCEPT !.server = "Too many pending requests"]

\* FIFOSequencer::addClientRequest.
AddClientRequest(now, request) ==
    IF Len(now.pending) < ME_MAX_PENDING_REQUESTS
    THEN [now EXCEPT !.pending = Append(@, request)]
    ELSE [now EXCEPT !.server = "Too many pending requests"]

\* A record of client c in the loop of recvCallback.
Check(now, g, c, seq_num, record) ==
    LET owned == [now EXCEPT !.sockets[c] = Owner(now, g, c)]
    IN  IF ~Accepted(now, g, c, seq_num) THEN owned
        ELSE AddClientRequest([owned EXCEPT !.expected[c] = @ + 1],
                              Request(record, c, seq_num))

\* Nobody checks that a client id is one.  With any other the code reads, and may
\* write, past the end of its arrays; of that the model has the record refused or
\* the process ended.
OutOfRange(now) == {now, [now EXCEPT !.server = "client id out of range"]}

\* What comes of the next record.
Turn(now, g) ==
    LET record == TCP!Record(now.left)
        next == [now EXCEPT !.left = TCP!Rest(@)]
    IN  IF now.server # "running" \/ ~TCP!HasRecord(now.left) THEN {now}
        ELSE UNION {IF c \in Clients
                    THEN {Check(next, g, c, seq_num, record) :
                             seq_num \in TCP!SeqNums(record, now.expected[c])}
                    ELSE OutOfRange(next) : c \in TCP!ClientIds(record)}

\* What recvCallback may make of k records.
RecvCallback(g, k) ==
    LET after[i \in 0 .. k] ==
            IF i = 0
            THEN {[left |-> upstream[g], sockets |-> cid_tcp_sockets_,
                   expected |-> cid_next_exp_seq_num_,
                   pending |-> pending_client_requests_, server |-> server]}
            ELSE UNION {Turn(now, g) : now \in after[i - 1]}
    IN  after[k]

ReadSocket ==
    /\ visiting \in DOMAIN receive_sockets_
    /\ LET g == receive_sockets_[visiting]
           bytes == TCP!Wire(server_outbound[g])
       IN  \E k \in TCP!Readable(upstream[g]) : \E now \in RecvCallback(g, k) :
              /\ upstream' = [upstream EXCEPT ![g] = now.left]
              /\ cid_tcp_sockets_' = now.sockets
              /\ cid_next_exp_seq_num_' = now.expected
              /\ pending_client_requests_' = now.pending
              /\ server' = now.server
              /\ \E n \in TCP!Takes(bytes, now.server = "running") :
                    /\ TCP!Tears(bytes, n) => Cardinality(torn \cup {<<"down", g>>}) <= MaxTorn
                    /\ downstream' = [downstream EXCEPT ![g] = TCP!Flushed(@, bytes, n)]
                    /\ fellShort' = [fellShort EXCEPT ![g] = @ \/ n < Len(bytes)]
                    /\ torn' = IF TCP!Tears(bytes, n) THEN torn \cup {<<"down", g>>} ELSE torn
              /\ server_outbound' = [server_outbound EXCEPT ![g] = <<>>]
    /\ visiting' = visiting + 1
    /\ UNCHANGED <<backlog, listener_ready, receive_sockets_,
                   cid_next_outgoing_seq_num_, client_requests, client_responses, reordered>>
----------------------------------------------------------------------------
(* recvFinishedCallback, and the responses.                                *)

\* What std::sort makes of requests with equal receive times.
Sorted(pending) ==
    IF Len(pending) <= StableUpTo THEN {pending}
    ELSE {[i \in DOMAIN pending |-> pending[p[i]]] :
             p \in Bijection(DOMAIN pending, DOMAIN pending)}

SequenceAndPublish ==
    /\ visiting = Len(receive_sockets_) + 1
    /\ \E sorted \in Sorted(pending_client_requests_) :
          /\ client_requests' = client_requests \o sorted
          /\ reordered' = (reordered \/ sorted # pending_client_requests_)
    /\ pending_client_requests_' = <<>>
    /\ visiting' = visiting + 1
    /\ UNCHANGED <<backlog, listener_ready, receive_sockets_, cid_tcp_sockets_,
                   cid_next_exp_seq_num_, cid_next_outgoing_seq_num_, server_outbound,
                   client_responses, server, fellShort, torn, upstream, downstream>>

\* run(), one response: numbered, and buffered for the socket of its client.
Send(now, r) ==
    LET c == r.client_id_
    IN  [outbound |-> [now.outbound EXCEPT ![cid_tcp_sockets_[c]] =
            Append(@, [seq_num_ |-> now.next[c], client_id_ |-> c,
                       nth |-> r.nth, answers |-> r.answers])],
         next |-> [now.next EXCEPT ![c] = @ + 1]]

\* ... and all that are waiting.
SendAll ==
    LET after[i \in 0 .. Len(client_responses)] ==
            IF i = 0 THEN [outbound |-> server_outbound, next |-> cid_next_outgoing_seq_num_]
            ELSE Send(after[i - 1], client_responses[i])
    IN  after[Len(client_responses)]

\* The ASSERT in run() is that its client has a socket.
SendResponses ==
    /\ visiting = Len(receive_sockets_) + 2
    /\ IF \E i \in DOMAIN client_responses :
              cid_tcp_sockets_[client_responses[i].client_id_] = None
       THEN /\ server' = "Don't have a TCPSocket"
            /\ UNCHANGED <<server_outbound, cid_next_outgoing_seq_num_,
                           client_responses, visiting>>
       ELSE /\ server_outbound' = SendAll.outbound
            /\ cid_next_outgoing_seq_num_' = SendAll.next
            /\ client_responses' = <<>>
            /\ visiting' = 0
            /\ UNCHANGED server
    /\ UNCHANGED <<backlog, listener_ready, receive_sockets_, cid_tcp_sockets_,
                   cid_next_exp_seq_num_, pending_client_requests_, client_requests,
                   reordered, fellShort, torn, upstream, downstream>>

Next ==
    /\ server = "running"
    /\ Poll \/ ReadSocket \/ SequenceAndPublish \/ SendResponses
=============================================================================
