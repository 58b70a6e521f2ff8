---------------------------- MODULE OrderSession ----------------------------
(***************************************************************************)
(* Clients and the exchange over TCP: a gateway per client process, the    *)
(* order server, and behind it the matching engine.                        *)
(*                                                                         *)
(* The queues to and from the engine are taken not to fill up.             *)
(***************************************************************************)
EXTENDS Integers, Sequences, FiniteSets

CONSTANTS
    Gateways, Clients, ClientOf, None, Spliced, Size, NumberEnd, ClientEnd,
    ME_MAX_PENDING_REQUESTS, StableUpTo, AcceptsLast, MaxRequests, MaxTorn,
    Launches        \* bound of the model: the gateways that there may be together

ASSUME OrderSessionAssumption ==
    /\ ClientOf \in [Gateways -> Clients]
    /\ None \notin Gateways \cup Clients
    /\ Spliced \notin Gateways
    /\ Size \in Nat /\ NumberEnd \in 1 .. Size /\ ClientEnd \in NumberEnd + 1 .. Size
    /\ ME_MAX_PENDING_REQUESTS \in Nat /\ StableUpTo \in Nat
    /\ AcceptsLast \in BOOLEAN
    /\ MaxRequests \in Nat /\ MaxTorn \in Nat

VARIABLES
    \* OrderGateway
    connected, next_outgoing_seq_num_, next_exp_seq_num_, incoming_responses_,
    \* OrderServer
    backlog, listener_ready, receive_sockets_, visiting, cid_tcp_sockets_,
    cid_next_exp_seq_num_, cid_next_outgoing_seq_num_, pending_client_requests_,
    server_outbound, client_requests, client_responses, server, reordered,
    \* the connections
    fellShort, torn, upstream, downstream,
    \* the matching engine
    processed,      \* the requests of each client it has taken
    responded       \* how many responses to each client

\* A client id is out of range if there is no such client.
AnyClientId == Clients \cup {None}

Gateway == INSTANCE OrderGateway
Server == INSTANCE OrderServer

gatewayVars == <<connected, next_outgoing_seq_num_, next_exp_seq_num_,
                 incoming_responses_>>
serverVars == <<backlog, listener_ready, receive_sockets_, visiting, cid_tcp_sockets_,
                cid_next_exp_seq_num_, cid_next_outgoing_seq_num_,
                pending_client_requests_, server_outbound, client_requests,
                client_responses, server, reordered>>
connectionVars == <<fellShort, torn, upstream, downstream>>
engineVars == <<processed, responded>>
vars == <<gatewayVars, serverVars, connectionVars, engineVars>>

Init ==
    /\ Gateway!Init
    /\ Server!Init
    /\ processed = [c \in Clients |-> <<>>]
    /\ responded = [c \in Clients |-> 0]

\* g is among the gateways there are, or may join them.
MayRun(g) ==
    \E launch \in Launches :
        {g} \cup {h \in Gateways : connected[h] \/ next_outgoing_seq_num_[h] > 1} \subseteq launch

Connect(g) ==
    /\ MayRun(g)
    /\ Gateway!Established(g)
    /\ Server!Connected(g)
    /\ UNCHANGED engineVars

GatewayStep(g) ==
    /\ MayRun(g)
    /\ \E n \in 0 .. MaxRequests : Gateway!Run(g, n)
    /\ UNCHANGED <<serverVars, engineVars>>

ServerStep ==
    /\ Server!Next
    /\ UNCHANGED <<gatewayVars, engineVars>>

\* The engine takes a request and answers it; its owner may have traded with a
\* client whose order was there, which is told as well.
EngineAnswers ==
    /\ server = "running"
    /\ client_requests # <<>>
    /\ LET request == Head(client_requests)
           c == request.client_id_
           response(d, answers) ==
               [client_id_ |-> d, nth |-> responded[d] + 1, answers |-> answers]
           answer == response(c, request.nth)
       IN  /\ processed' = [processed EXCEPT ![c] = Append(@, request)]
           /\ \/ /\ client_responses' = Append(client_responses, answer)
                 /\ responded' = [responded EXCEPT ![c] = @ + 1]
              \/ \E d \in Clients \ {c} :
                    /\ processed[d] # <<>>
                    /\ client_responses' = client_responses \o <<answer, response(d, 0)>>
                    /\ responded' = [responded EXCEPT ![c] = @ + 1, ![d] = @ + 1]
    /\ client_requests' = Tail(client_requests)
    /\ UNCHANGED <<gatewayVars, connectionVars, backlog, listener_ready,
                   receive_sockets_, visiting, cid_tcp_sockets_, cid_next_exp_seq_num_,
                   cid_next_outgoing_seq_num_, pending_client_requests_,
                   server_outbound, server, reordered>>

\* What two requests make up may have any type_, ticker_id_ and client_order_id_:
\* the first is checked, and the others are used as they are.
EngineFails ==
    /\ server = "running"
    /\ client_requests # <<>>
    /\ Head(client_requests).from = Spliced
    /\ server' = "Received invalid client-request-type"
    /\ UNCHANGED <<gatewayVars, connectionVars, engineVars, backlog, listener_ready,
                   receive_sockets_, visiting, cid_tcp_sockets_, cid_next_exp_seq_num_,
                   cid_next_outgoing_seq_num_, pending_client_requests_,
                   server_outbound, client_requests, client_responses, reordered>>

EngineStep == EngineAnswers \/ EngineFails

Next ==
    \/ \E g \in Gateways : Connect(g) \/ GatewayStep(g)
    \/ ServerStep
    \/ EngineStep

\* Every thread polls until its run_ is cleared.
Fairness ==
    /\ WF_vars(ServerStep)
    /\ WF_vars(EngineStep)
    /\ \A g \in Gateways :
          WF_vars(Gateway!Run(g, 0) /\ UNCHANGED <<serverVars, engineVars>>)

Spec == Init /\ [][Next]_vars /\ Fairness
----------------------------------------------------------------------------
TypeOK ==
    /\ connected \in [Gateways -> BOOLEAN]
    /\ \A g \in Gateways : next_outgoing_seq_num_[g] \in Nat \ {0}
    /\ \A g \in Gateways : next_exp_seq_num_[g] = Len(incoming_responses_[g]) + 1
    /\ visiting \in 0 .. Len(receive_sockets_) + 2
    /\ cid_tcp_sockets_ \in [Clients -> Gateways \cup {None}]
    /\ \A c \in Clients : cid_next_exp_seq_num_[c] \in Nat \ {0}
    /\ \A c \in Clients : cid_next_outgoing_seq_num_[c] <= responded[c] + 1
    /\ Len(pending_client_requests_) <= ME_MAX_PENDING_REQUESTS

\* The nth request of a client has been taken by the engine or is on its way.
NotLost(c, n) ==
    LET queued == client_requests \o pending_client_requests_
    IN  \/ \E i \in DOMAIN processed[c] : processed[c][i].nth = n
        \/ \E i \in DOMAIN queued : queued[i].client_id_ = c /\ queued[i].nth = n

\* The requests of a client that the engine is given come through one socket,
\* each once, and none before them is missing, whatever gets lost and whether or
\* not the client has been restarted.  They come in the order the strategy made
\* them unless std::sort has changed it.  A request may be made up of two, but
\* only if a send through that socket has cut a message short.
RequestsInOrder ==
    \A c \in Clients : \E g \in Gateways \cup {None} :
        \A i \in DOMAIN processed[c] :
            LET request == processed[c][i]
            IN  /\ \/ request.from = g
                   \/ request.from = Spliced /\ <<"up", g>> \in torn
                /\ request.nth = i \/ reordered
                /\ \A j \in DOMAIN processed[c] : request.nth = processed[c][j].nth => i = j
                /\ server = "running" => \A n \in 1 .. request.nth : NotLost(c, n)

\* A strategy is given the responses to its client without gap, once and in the
\* order in which the engine made them, whatever gets lost; and a response made
\* up of two in place of one only if a send to it has cut a message short.
ResponsesInOrder ==
    \A g \in Gateways : \A i \in DOMAIN incoming_responses_[g] :
        LET response == incoming_responses_[g][i]
        IN  /\ response.client_id_ = ClientOf[g]
            /\ \/ response.nth = i
               \/ response.nth = Spliced /\ <<"down", g>> \in torn

\* "Don't have a TCPSocket for ClientId:": the ASSERT of run() holds; the engine
\* answers nobody who has not sent anything, and no client loses its socket.
SocketKnown == server # "Don't have a TCPSocket"

\* What may keep a request from being answered: the server has ended, the client
\* belongs to another gateway, or a send fell short.
Excused(g) ==
    \/ server # "running"
    \/ cid_tcp_sockets_[ClientOf[g]] \notin {None, g}
    \/ fellShort[g]

Answered(g, n) ==
    \E i \in DOMAIN incoming_responses_[g] : incoming_responses_[g][i].answers = n

\* Every other request is answered: there is always a later time at which none
\* of a gateway's requests waits for an answer.
RequestsAnswered ==
    \A g \in Gateways :
        []<>((\A n \in 1 .. next_outgoing_seq_num_[g] - 1 : Answered(g, n)) \/ Excused(g))

\* "accepted socket": a connection is accepted.
ConnectionsAccepted ==
    \A g \in Gateways :
        connected[g] ~> \E i \in DOMAIN receive_sockets_ : receive_sockets_[i] = g
=============================================================================
