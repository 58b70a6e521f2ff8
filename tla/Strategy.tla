------------------------------ MODULE Strategy ------------------------------
(***************************************************************************)
(* The strategy's components for one ticker against the exchange: order    *)
(* manager, risk manager and position keeper, in one thread; the queues    *)
(* between them and the exchange, in order and without loss; and of the    *)
(* exchange what becomes of the client's orders, as MEOrderBook shows it   *)
(* to a client (ClientExchange).                                           *)
(*                                                                         *)
(* The trade engine that calls them is an empty file.  Its part is taken   *)
(* to be what their parameters are made for: moveOrders with any prices,   *)
(* updateBBO, and for each response first addFill, if it is a fill, and    *)
(* then onOrderUpdate.                                                     *)
(***************************************************************************)
EXTENDS Integers, Sequences, FiniteSets

CONSTANTS
    Prices, Price_INVALID, Clips, Uninitialized,
    max_order_size_, max_position_, max_loss_, TimeLogged,
    MaxOrders           \* bound of the model: orders sent

ASSUME StrategyAssumption ==
    /\ Prices \subseteq Int /\ Price_INVALID \notin Prices
    /\ Clips \subseteq Nat \ {0}
    /\ Uninitialized \subseteq Int
    /\ max_order_size_ \in Nat /\ max_position_ \in Nat /\ max_loss_ \in Int
    /\ TimeLogged \in BOOLEAN
    /\ MaxOrders \in Nat

VARIABLES
    orders, next_order_id_, requests, exited,
    position_, real_pnl_, unreal_pnl_, total_pnl_, open_vwap_, volume_,
    \* the exchange
    open,           \* the client's orders in the book
    responses,      \* sent and not yet handled
    \* kept for the properties
    cash,           \* paid and received for the fills that have been handled
    mark,           \* the price the position was last valued at
    before          \* what open_vwap_ held when it was first added to, signed

Manager == INSTANCE OrderManager
Keeper == INSTANCE PositionKeeper

BUY == Manager!BUY
SELL == Manager!SELL
Sides == Manager!Sides

Exchange ==
    INSTANCE ClientOutcomes WITH
        Oids <- 1 .. MaxOrders, Qtys <- Clips, INVALID_SIDE <- Manager!INVALID_SIDE,
        None <- Price_INVALID

managerVars == <<orders, next_order_id_, requests, exited>>
keeperVars == <<position_, real_pnl_, unreal_pnl_, total_pnl_, open_vwap_, volume_>>
exchangeVars == <<open, responses>>
ghosts == <<cash, mark, before>>
vars == <<managerVars, keeperVars, exchangeVars, ghosts>>

Init ==
    /\ Manager!Init
    /\ Keeper!Init
    /\ open = {}
    /\ responses = <<>>
    /\ cash = 0 /\ mark = 0 /\ before = 0
----------------------------------------------------------------------------
(* The strategy.                                                           *)

MoveOrders ==
    /\ \E bid, ask \in Prices \cup {Price_INVALID}, clip \in Clips :
          Manager!MoveOrders(bid, ask, clip)
    /\ next_order_id_' <= MaxOrders + 1
    /\ UNCHANGED <<keeperVars, exchangeVars, ghosts>>

UpdateBBO ==
    /\ ~exited
    /\ \E bid, ask \in Prices :
          /\ bid < ask
          /\ Keeper!UpdateBBO(bid, ask)
          /\ mark' = (bid + ask) \div 2
    /\ UNCHANGED <<managerVars, exchangeVars, cash, before>>

HandleResponse ==
    /\ responses # <<>>
    /\ responses' = Tail(responses)
    /\ LET r == Head(responses)
       IN  /\ Manager!OnOrderUpdate(r)
           /\ IF r.type_ = "FILLED"
              THEN /\ Keeper!AddFill(r.side_, r.price_, r.exec_qty_)
                   /\ cash' = cash - r.side_ * r.price_ * r.exec_qty_
                   /\ mark' = r.price_
                   /\ before' = IF volume_ = 0 THEN r.side_ * open_vwap_[r.side_] ELSE before
              ELSE UNCHANGED <<keeperVars, ghosts>>
    /\ UNCHANGED open
----------------------------------------------------------------------------
(* The exchange.                                                           *)

Become(outcome) ==
    /\ open' = outcome.open
    /\ responses' = responses \o outcome.sent

\* The book takes the next request.
TakeRequest ==
    /\ requests # <<>>
    /\ requests' = Tail(requests)
    /\ LET r == Head(requests)
       IN  Become(IF r.type_ = "NEW"
                  THEN Exchange!Accepted(open,
                          [side_ |-> r.side_, order_id_ |-> r.order_id_,
                           price_ |-> r.price_, qty_ |-> r.qty_])
                  ELSE Exchange!CancelTaken(open, r.order_id_))
    /\ UNCHANGED <<orders, next_order_id_, exited, keeperVars, ghosts>>

Trade ==
    /\ \E price \in Prices : \E outcome \in Exchange!Trades(open, price) : Become(outcome)
    /\ UNCHANGED <<managerVars, keeperVars, ghosts>>

Next == MoveOrders \/ UpdateBBO \/ HandleResponse \/ TakeRequest \/ Trade

\* The strategy's thread and the exchange poll their queues.
Fairness == WF_vars(HandleResponse) /\ WF_vars(TakeRequest)

Spec == Init /\ [][Next]_vars /\ Fairness
----------------------------------------------------------------------------
TypeOK ==
    /\ \A s \in DOMAIN orders :
          /\ orders[s].order_state_ \in {"INVALID", "PENDING_NEW", "LIVE", "PENDING_CANCEL", "DEAD"}
          /\ orders[s].qty_ \in Nat
          /\ orders[s].order_id_ \in 0 .. next_order_id_ - 1
    /\ orders[Manager!INVALID_SIDE] = Manager!NoOMOrder
    /\ next_order_id_ \in 1 .. MaxOrders + 1
    /\ volume_ \in Nat
    /\ \A o \in open : o.qty_ \in Nat \ {0}

\* The sum of a sequence of numbers.
Total(numbers) ==
    LET upTo[i \in 0 .. Len(numbers)] == IF i = 0 THEN 0 ELSE upTo[i - 1] + numbers[i]
    IN  upTo[Len(numbers)]

\* What of an order on a side is among the requests on their way.
Asked(sent, s) ==
    Total([i \in DOMAIN sent |->
              IF sent[i].type_ = "NEW" /\ sent[i].side_ = s THEN sent[i].qty_ ELSE 0])

\* What has been filled on a side and is among the responses on their way.
Executed(sent, s) ==
    Total([i \in DOMAIN sent |->
              IF sent[i].type_ = "FILLED" /\ sent[i].side_ = s THEN sent[i].exec_qty_ ELSE 0])

OpenOn(book, s) == {o \in book : o.side_ = s}
OpenQty(book, s) ==
    IF OpenOn(book, s) = {} THEN 0 ELSE (CHOOSE o \in OpenOn(book, s) : TRUE).qty_

\* What the client's orders on a side may still do to its position.
Outstanding(s) == Asked(requests, s) + OpenQty(open, s) + Executed(responses, s)

Canceled(s) ==
    \E i \in DOMAIN responses : responses[i].type_ = "CANCELED" /\ responses[i].side_ = s

\* The order manager's one order on a side is all there is: when it holds the
\* order for dead, nothing of it is left anywhere and no response to it will
\* come; until then its qty_ is what may still be executed, or was when the rest
\* was canceled.
OrdersAgree ==
    \A s \in Sides :
        /\ \A o, p \in OpenOn(open, s) : o = p
        /\ IF Manager!Idle(orders[s]) THEN Outstanding(s) = 0 /\ ~Canceled(s)
           ELSE /\ orders[s].qty_ > 0
                /\ IF Canceled(s) THEN Outstanding(s) < orders[s].qty_
                   ELSE Outstanding(s) = orders[s].qty_

\* Whatever is filled of what is outstanding, the position stays within
\* max_position_, though the check knows neither the other side's order nor the
\* fills on their way.
PositionWithinLimit ==
    /\ position_ + Outstanding(BUY) <= max_position_
    /\ position_ - Outstanding(SELL) >= -max_position_

\* total_pnl_ is what was received less what was paid, and the position at the
\* price it was last valued at; and off for good by what open_vwap_ held before
\* its first fill.  (The averages are exact here: nothing is lost in a division.)
TotalPnl ==
    /\ position_ # 0 => \A s \in Sides : open_vwap_[s] % Keeper!Abs(position_) = 0
    /\ total_pnl_ = cash + position_ * mark - before

\* No order stays pending: each is answered, accepted or gone, so that it can be
\* moved again.
PendingIsResolved ==
    \A s \in Sides :
        []<>(orders[s].order_state_ \notin {"PENDING_NEW", "PENDING_CANCEL"})

\* "Sent new order" (order_manager.cpp:65): when an order or a cancel has been
\* sent it is logged, and the process goes on.  (The FATAL in log(), "Invalid log
\* format", is not reached.)
SentIsLogged == ~exited
=============================================================================
