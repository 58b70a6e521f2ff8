---------------------------- MODULE OrderManager ----------------------------
(***************************************************************************)
(* trading/strategy/order_manager.cpp, om_order.hpp and risk_manager.hpp,  *)
(* for one ticker: at most one order on each side, moved by a cancel and,  *)
(* once that is through, a new one.                                        *)
(***************************************************************************)
EXTENDS Integers, Sequences, FiniteSets

CONSTANTS
    Prices, Price_INVALID,
    max_order_size_, max_position_, max_loss_,  \* RiskCfg
    TimeLogged      \* whether the lines of newOrder and cancelOrder log the time
                    \* their format has a place for; the code's do not

BUY == 1
SELL == -1
INVALID_SIDE == 0
Sides == {BUY, SELL}

VARIABLES
    orders,             \* ticker_side_orders_, of the ticker
    next_order_id_,
    requests,           \* sent by sendClientRequest and not yet at the exchange
    exited,             \* log() has ended the process: "Invalid log format"
    position_, total_pnl_

NoOMOrder == [order_id_ |-> 0, price_ |-> Price_INVALID, qty_ |-> 0, order_state_ |-> "INVALID"]

Init ==
    /\ orders = [s \in Sides \cup {INVALID_SIDE} |-> NoOMOrder]
    /\ next_order_id_ = 1
    /\ requests = <<>>
    /\ exited = FALSE
----------------------------------------------------------------------------
\* "%:% %() % Sent new order % for %": a place for each argument and the time.
SentFormat ==
    <<"%", ":", "%", " ", "%", "() ", "%", " Sent new order ", "%", " for ", "%">>
SentArgs ==
    <<"file", "line", "function">> \o (IF TimeLogged THEN <<"time">> ELSE <<>>)
    \o <<"request", "order">>

Format == INSTANCE LogFormat WITH Percent <- "%", Invalid <- "Invalid log format"

LoggedFatally == Format!Fatal(Format!Log(SentFormat, SentArgs))

Abs(i) == IF i < 0 THEN -i ELSE i

\* Defect for the mutation runs: the order to be sent is not counted.
AllowedSoFar(side, qty) ==
    /\ qty <= max_order_size_
    /\ Abs(position_) <= max_position_
    /\ total_pnl_ >= max_loss_

\* RiskInfo::checkPreTradeRisk returns ALLOWED.
Allowed(side, qty) ==
    /\ qty <= max_order_size_
    /\ Abs(position_ + side * qty) <= max_position_
    /\ total_pnl_ >= max_loss_

\* Defect for the mutation runs: the number of the order is used again.
NewOrderSameId(now, side, price, qty) ==
    [orders |-> [now.orders EXCEPT ![side] =
        [order_id_ |-> now.next_order_id_, price_ |-> price, qty_ |-> qty,
         order_state_ |-> "PENDING_NEW"]],
     next_order_id_ |-> now.next_order_id_,
     exited |-> LoggedFatally,
     requests |-> Append(now.requests,
        [type_ |-> "NEW", side_ |-> side, order_id_ |-> now.next_order_id_,
         price_ |-> price, qty_ |-> qty])]

NewOrder(now, side, price, qty) ==
    [orders |-> [now.orders EXCEPT ![side] =
        [order_id_ |-> now.next_order_id_, price_ |-> price, qty_ |-> qty,
         order_state_ |-> "PENDING_NEW"]],
     next_order_id_ |-> now.next_order_id_ + 1,
     exited |-> LoggedFatally,
     requests |-> Append(now.requests,
        [type_ |-> "NEW", side_ |-> side, order_id_ |-> now.next_order_id_,
         price_ |-> price, qty_ |-> qty])]

CancelOrder(now, side) ==
    [now EXCEPT
        !.exited = LoggedFatally,
        !.orders[side].order_state_ = "PENDING_CANCEL",
        !.requests = Append(@, [type_ |-> "CANCEL", side_ |-> side,
            order_id_ |-> now.orders[side].order_id_,
            price_ |-> now.orders[side].price_, qty_ |-> now.orders[side].qty_])]

\* Defect for the mutation runs: the next order does not wait for the cancel.
IdleOrCanceling(order) == order.order_state_ \in {"INVALID", "DEAD", "PENDING_CANCEL"}

Idle(order) == order.order_state_ \in {"INVALID", "DEAD"}

\* moveOrder, as a function of the manager's state.
MoveOrder(now, side, price, qty) ==
    LET order == now.orders[side]
    IN  IF now.exited THEN now
        ELSE IF order.order_state_ = "LIVE" /\ order.price_ # price
        THEN CancelOrder(now, side)
        ELSE IF Idle(order) /\ price # Price_INVALID /\ Allowed(side, qty)
        THEN NewOrder(now, side, price, qty)
        ELSE now

MoveOrders(bid_price, ask_price, clip) ==
    LET now == [orders |-> orders, next_order_id_ |-> next_order_id_,
                exited |-> exited, requests |-> requests]
        after == MoveOrder(MoveOrder(now, BUY, bid_price, clip), SELL, ask_price, clip)
    IN  /\ ~exited
        /\ exited' = after.exited
        /\ orders' = after.orders
        /\ next_order_id_' = after.next_order_id_
        /\ requests' = after.requests

\* Defect for the mutation runs: a filled order is only dead if nothing was pending.
FilledIfLive(order, exec_qty_) ==
    [order EXCEPT !.qty_ = @ - exec_qty_,
                  !.order_state_ = IF order.qty_ = exec_qty_ /\ @ = "LIVE" THEN "DEAD" ELSE @]

Filled(order, exec_qty_) ==
    [order EXCEPT !.qty_ = @ - exec_qty_,
                  !.order_state_ = IF order.qty_ = exec_qty_ THEN "DEAD" ELSE @]

\* The response's side says which order it is for.  A rejected cancel has none,
\* and the array has a place for that.
OnOrderUpdate(response) ==
    /\ ~exited
    /\ orders' = [orders EXCEPT ![response.side_] =
          CASE response.type_ = "ACCEPTED" -> [@ EXCEPT !.order_state_ = "LIVE"]
            [] response.type_ = "CANCELED" -> [@ EXCEPT !.order_state_ = "DEAD"]
            [] response.type_ = "FILLED" -> Filled(@, response.exec_qty_)
            [] OTHER -> @]
    /\ UNCHANGED <<next_order_id_, requests, exited>>
=============================================================================
