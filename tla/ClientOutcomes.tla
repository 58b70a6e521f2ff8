--------------------------- MODULE ClientOutcomes ---------------------------
(***************************************************************************)
(* What the exchange may do to one client's open orders, and what it tells *)
(* the client of it.  An outcome is the open orders afterwards and the     *)
(* responses sent.                                                         *)
(***************************************************************************)
EXTENDS Integers, Sequences

CONSTANTS
    Oids, Prices, Qtys,
    BUY, SELL, INVALID_SIDE,
    None            \* in a field that a response leaves empty
----------------------------------------------------------------------------
Orders == [side_ : {BUY, SELL}, order_id_ : Oids, price_ : Prices, qty_ : Qtys]

Response(type, o, price, exec_qty, leaves_qty) ==
    <<[type_ |-> type, side_ |-> o.side_, order_id_ |-> o.order_id_,
       price_ |-> price, exec_qty_ |-> exec_qty, leaves_qty_ |-> leaves_qty]>>

Named(orders, id) == {o \in orders : o.order_id_ = id}

Accepted(orders, o) ==
    [open |-> orders \cup (IF o.qty_ = 0 THEN {} ELSE {o}),
     sent |-> Response("ACCEPTED", o, o.price_, 0, o.qty_)]

\* An order trades at its price or at a better one.
AtOrBetter(o, price) == IF o.side_ = BUY THEN price <= o.price_ ELSE price >= o.price_

Filled(orders, o, price, qty) ==
    [open |-> (orders \ {o}) \cup
                (IF qty = o.qty_ THEN {} ELSE {[o EXCEPT !.qty_ = @ - qty]}),
     sent |-> Response("FILLED", o, price, qty, o.qty_ - qty)]

\* Both orders of a trade are the client's.
FilledBoth(orders, o, p, price, qty) ==
    LET first == Filled(orders, o, price, qty)
        second == Filled(first.open, p, price, qty)
    IN  [open |-> second.open, sent |-> first.sent \o second.sent]

\* A cancel takes the open order of that id, or is rejected.
CancelTaken(orders, id) ==
    LET found == Named(orders, id)
    IN  [open |-> orders \ found,
         sent |-> IF found = {}
                  THEN Response("CANCEL_REJECTED",
                                [side_ |-> INVALID_SIDE, order_id_ |-> id], None, None, None)
                  ELSE LET o == CHOOSE o \in found : TRUE
                       IN  Response("CANCELED", o, o.price_, None, o.qty_)]

Nothing(orders) == [open |-> orders, sent |-> <<>>]

\* What a trade at a price may do to a client's orders: one of them is filled, or
\* two by each other.
Trades(orders, price) ==
    LET at == {o \in orders : AtOrBetter(o, price)}
    IN  (UNION {{Filled(orders, o, price, qty) : qty \in 1 .. o.qty_} : o \in at})
        \cup (UNION {UNION {{FilledBoth(orders, o, p, price, qty) :
                              qty \in {qty \in 1 .. o.qty_ : qty <= p.qty_}} :
                           p \in {p \in at : p.side_ # o.side_}} : o \in at})
=============================================================================
