--------------------------- MODULE ClientExchange ---------------------------
(***************************************************************************)
(* What the exchange promises one client: which of its orders are open,    *)
(* and what it is told of them.  MEOrderBook implements it for each of its *)
(* clients; Strategy, the client's side, takes the exchange to do the same.*)
(***************************************************************************)
EXTENDS ClientOutcomes

VARIABLES
    open,           \* the client's orders in the book, with what is left of each
    sent            \* what the last step told it

vars == <<open, sent>>
----------------------------------------------------------------------------
Init == open = {} /\ sent = <<>>

Become(outcome) == open' = outcome.open /\ sent' = outcome.sent

Accept(o) == Named(open, o.order_id_) = {} /\ Become(Accepted(open, o))

Trade(price) == \E outcome \in Trades(open, price) : Become(outcome)

Next ==
    \/ Become(Nothing(open))
    \/ \E o \in Orders : Accept(o)
    \/ \E price \in Prices : Trade(price)
    \/ \E id \in Oids : Become(CancelTaken(open, id))

Spec == Init /\ [][Next]_vars
=============================================================================
