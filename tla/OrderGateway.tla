---------------------------- MODULE OrderGateway ----------------------------
(***************************************************************************)
(* trading/order_gate/order_gateway.cpp: numbers the strategy's requests   *)
(* and sends them to the exchange, and passes on the responses that come   *)
(* back.  A gateway is one OrderGateway object with its socket; a client   *)
(* that restarts is a new gateway with the same client id, and its former  *)
(* one takes no more steps.                                                *)
(***************************************************************************)
EXTENDS Integers, Sequences, FiniteSets, Functions

CONSTANTS
    Gateways, ClientOf, Size, NumberEnd, ClientEnd, AnyClientId, Spliced,
    MaxTorn,            \* bound of the model: streams in which a message is cut short
    MaxRequests         \* bound of the model: requests to all gateways together

VARIABLES
    connected,          \* the handshake is over
    next_outgoing_seq_num_,
    next_exp_seq_num_,
    incoming_responses_,\* all that the strategy's queue was given
    fellShort,          \* a send has dropped something, in either direction
    torn,               \* the streams in which it has dropped the end of a message
    upstream, downstream

vars == <<connected, next_outgoing_seq_num_, next_exp_seq_num_,
          incoming_responses_, fellShort, torn, upstream, downstream>>

TCP == INSTANCE TCPStream

Init ==
    /\ connected = [g \in Gateways |-> FALSE]
    /\ next_outgoing_seq_num_ = [g \in Gateways |-> 1]
    /\ next_exp_seq_num_ = [g \in Gateways |-> 1]
    /\ incoming_responses_ = [g \in Gateways |-> <<>>]
    /\ fellShort = [g \in Gateways |-> FALSE]
    /\ torn = {}
    /\ upstream = [g \in Gateways |-> <<>>]
    /\ downstream = [g \in Gateways |-> <<>>]

\* start() has been called, sooner or later.  The socket does not block, so that
\* connect() only begins, and run() does not wait for it.
Established(g) ==
    /\ ~connected[g]
    /\ connected' = [connected EXCEPT ![g] = TRUE]
    /\ UNCHANGED <<next_outgoing_seq_num_, next_exp_seq_num_,
                   incoming_responses_, fellShort, torn, upstream, downstream>>

\* The requests that there have been.
Sent == FoldFunction(LAMBDA next, sum : sum + next - 1, 0, next_outgoing_seq_num_)

\* The next n requests of the strategy, numbered and buffered for the socket.
\* (The nth request of a gateway has number n unless the code gets it wrong.)
Requests(g, n) ==
    [i \in 1 .. n |-> [seq_num_ |-> next_outgoing_seq_num_[g] + i - 1,
                       client_id_ |-> ClientOf[g], from |-> g,
                       nth |-> next_outgoing_seq_num_[g] + i - 1]]

\* Defect for the mutation runs: responses are passed on whatever their number.
InAnyOrder(now, g, c, seq_num) == c = ClientOf[g]

Accepted(now, g, c, seq_num) == c = ClientOf[g] /\ seq_num = now.expected

\* The response in a record, told by its number among those to the client and by
\* the request that it answers.
Response(record, c) ==
    IF TCP!Intact(record)
    THEN [client_id_ |-> c, nth |-> record[1].of.nth, answers |-> record[1].of.answers]
    ELSE [client_id_ |-> c, nth |-> Spliced, answers |-> Spliced]

\* A record in the loop of recvCallback.
Check(now, g, c, seq_num, record) ==
    IF ~Accepted(now, g, c, seq_num) THEN now
    ELSE [now EXCEPT !.expected = @ + 1, !.responses = Append(@, Response(record, c))]

\* What comes of the next record.
Turn(now, g) ==
    LET record == TCP!Record(now.left)
        next == [now EXCEPT !.left = TCP!Rest(@)]
    IN  IF ~TCP!HasRecord(now.left) THEN {now}
        ELSE {Check(next, g, c, seq_num, record) :
                 c \in TCP!ClientIds(record), seq_num \in TCP!SeqNums(record, now.expected)}

\* What recvCallback may make of k records.
RecvCallback(g, k) ==
    LET after[i \in 0 .. k] ==
            IF i = 0
            THEN {[left |-> downstream[g], expected |-> next_exp_seq_num_[g],
                   responses |-> incoming_responses_[g]]}
            ELSE UNION {Turn(now, g) : now \in after[i - 1]}
    IN  after[k]

\* An iteration of run(), told from its inner loop on: n requests are buffered,
\* and the sendAndRecv that follows reads, recvCallback in it, and then sends.
Run(g, n) ==
    /\ n <= MaxRequests - Sent
    /\ next_outgoing_seq_num_' = [next_outgoing_seq_num_ EXCEPT ![g] = @ + n]
    /\ \E k \in TCP!Readable(downstream[g]) : \E now \in RecvCallback(g, k) :
          /\ downstream' = [downstream EXCEPT ![g] = now.left]
          /\ next_exp_seq_num_' = [next_exp_seq_num_ EXCEPT ![g] = now.expected]
          /\ incoming_responses_' = [incoming_responses_ EXCEPT ![g] = now.responses]
    /\ LET bytes == TCP!Wire(Requests(g, n))
       IN  \E taken \in TCP!Takes(bytes, connected[g]) :
              /\ TCP!Tears(bytes, taken) => Cardinality(torn \cup {<<"up", g>>}) <= MaxTorn
              /\ upstream' = [upstream EXCEPT ![g] = TCP!Flushed(@, bytes, taken)]
              /\ fellShort' = [fellShort EXCEPT ![g] = @ \/ taken < Len(bytes)]
              /\ torn' = IF TCP!Tears(bytes, taken) THEN torn \cup {<<"up", g>>} ELSE torn
    /\ UNCHANGED connected
=============================================================================
