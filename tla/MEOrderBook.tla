---------------------------- MODULE MEOrderBook ----------------------------
(***************************************************************************)
(* exchange/matcher/me_order_book.cpp and .hpp, with the pools and maps it *)
(* keeps its orders in: the limit order book of one instrument, driven by  *)
(* MatchingEngine::processClientRequest.                                   *)
(*                                                                         *)
(* The intrusive lists are kept pointer by pointer.  An MEOrder is named   *)
(* by its market_order_id_ and an MEOrdersAtPrice by its price_, both      *)
(* unique among the objects in use; 0 is the null pointer.  What the pools *)
(* do is MemPool's business: here they only run out.                       *)
(*                                                                         *)
(* add() is cut at the iterations of checkForMatch's loop, since the       *)
(* messages of each are on their way to other threads before the next: a   *)
(* request is in "incoming" from its acceptance to the return of add(),    *)
(* and the engine's thread takes no other meanwhile.                       *)
(***************************************************************************)
EXTENDS Integers, Sequences, FiniteSets, SortedRing

CONSTANTS
    Clients, Oids,          \* ClientId and client OrderId
    Prices, Qtys,           \* those of the requests
    ME_MAX_PRICE_LEVELS,    \* size of the level pool and of the price index
    ME_MAX_ORDER_IDS,       \* size of the order pool
    MaxOrderId              \* bound of the model: market order ids given out

ASSUME MEOrderBookAssumption ==
    /\ Prices \subseteq Nat \ {0}
    /\ Qtys \subseteq Nat
    /\ ME_MAX_PRICE_LEVELS \in Nat \ {0}
    /\ ME_MAX_ORDER_IDS \in Nat \ {0}
    /\ MaxOrderId \in Nat

VARIABLES
    order_pool_,            \* the MEOrder objects
    orders_at_price_pool_,  \* the MEOrdersAtPrice objects
    price_orders_at_price_, \* priceToIndex(price) -> level
    best_by_price,          \* bids_by_price_ ("BUY") and asks_by_price_ ("SELL")
    cid_oid_to_order_,      \* client -> client order id -> order
    next_market_order_id_,
    incoming,               \* the request add() is working on
    responses,              \* what the last step sent: MEClientResponses
    updates,                \* and MEMarketUpdates
    exited                  \* an ASSERT ended the process

book == <<order_pool_, orders_at_price_pool_, price_orders_at_price_,
          best_by_price, cid_oid_to_order_>>
vars == <<book, next_market_order_id_, incoming, responses, updates, exited>>

Null == 0
Sides == {"BUY", "SELL"}
OrderIds == 1 .. MaxOrderId
LevelIndices == 0 .. ME_MAX_PRICE_LEVELS - 1

Opposite(side) == IF side = "BUY" THEN "SELL" ELSE "BUY"

\* The price comparisons of checkForMatch and addOrdersAtPrice: p is the
\* better price for a resting order on that side.
Better(side, p, q) == IF side = "BUY" THEN p > q ELSE p < q

\* A block of either pool that is not in use.
FreeOrder == [client_id_ |-> Null, client_order_id_ |-> Null, side_ |-> "INVALID",
              price_ |-> Null, qty_ |-> 0, priority_ |-> 0,
              prev_order_ |-> Null, next_order_ |-> Null]
FreeLevel == [side_ |-> "INVALID", first_me_order_ |-> Null,
              prev_entry_ |-> Null, next_entry_ |-> Null]
NoRequest == [client_id_ |-> Null, client_order_id_ |-> Null, side_ |-> "INVALID",
              price_ |-> Null, leaves_qty |-> 0, market_order_id_ |-> Null]

LiveOrders == {o \in OrderIds : order_pool_[o].side_ # "INVALID"}
LiveLevels == {l \in Prices : orders_at_price_pool_[l].side_ # "INVALID"}
Matching == incoming # NoRequest

\* The constructor leaves cid_oid_to_order_ and price_orders_at_price_ as the memory
\* is.  The first alone takes 2 GB, and what new has the system map is zero, that
\* is, Null.
Init ==
    /\ order_pool_ = [o \in OrderIds |-> FreeOrder]
    /\ orders_at_price_pool_ = [l \in Prices |-> FreeLevel]
    /\ price_orders_at_price_ = [i \in LevelIndices |-> Null]
    /\ best_by_price = [side \in Sides |-> Null]
    /\ cid_oid_to_order_ = [c \in Clients |-> [o \in Oids |-> Null]]
    /\ next_market_order_id_ = 1
    /\ incoming = NoRequest
    /\ responses = <<>>
    /\ updates = <<>>
    /\ exited = FALSE

PriceToIndex(price) == price % ME_MAX_PRICE_LEVELS

GetOrdersAtPrice(price) == price_orders_at_price_[PriceToIndex(price)]

Response(type, c, o, id, side, price, exec_qty, leaves_qty) ==
    [type_ |-> type, client_id_ |-> c, client_order_id_ |-> o,
     market_order_id_ |-> id, side_ |-> side, price_ |-> price,
     exec_qty_ |-> exec_qty, leaves_qty_ |-> leaves_qty]

Update(type, id, side, price, qty, priority) ==
    [type_ |-> type, order_id_ |-> id, side_ |-> side, price_ |-> price,
     qty_ |-> qty, priority_ |-> priority]
----------------------------------------------------------------------------
(* The list of price levels of a side: circular, best first.               *)

\* Defect for the mutation runs: no walk.
TargetBest(side, price) == best_by_price[side]

\* Where addOrdersAtPrice's walk from the best level ends: at the first level
\* the new price is not worse than, or round at the best one again.
Target(side, price) ==
    LET best == best_by_price[side]
        WorseThan(l) == Better(side, l, price)
        Found == {l \in LiveLevels :
                     /\ orders_at_price_pool_[l].side_ = side
                     /\ ~WorseThan(l)
                     /\ WorseThan(orders_at_price_pool_[l].prev_entry_)}
    IN  IF ~WorseThan(best) \/ Found = {} THEN best
        ELSE CHOOSE l \in Found : TRUE

\* The new level goes in before the target, and becomes the best one if it is.
AddOrdersAtPrice(side, price, order) ==
    LET best == best_by_price[side]
        target == Target(side, price)
        prev == orders_at_price_pool_[target].prev_entry_
        level(p, n) == [side_ |-> side, first_me_order_ |-> order,
                        prev_entry_ |-> p, next_entry_ |-> n]
    IN  /\ price_orders_at_price_' =
              [price_orders_at_price_ EXCEPT ![PriceToIndex(price)] = price]
        /\ IF best = Null
           THEN orders_at_price_pool_' =
                   [orders_at_price_pool_ EXCEPT ![price] = level(price, price)]
           ELSE orders_at_price_pool_' =
                   [orders_at_price_pool_ EXCEPT
                        ![price] = level(prev, target),
                        ![prev].next_entry_ = price,
                        ![target].prev_entry_ = price]
        /\ best_by_price' =
              IF best = Null \/ Better(side, price, best)
              THEN [best_by_price EXCEPT ![side] = price] ELSE best_by_price

RemoveOrdersAtPrice(side, price) ==
    LET level == GetOrdersAtPrice(price)
        prev == orders_at_price_pool_[level].prev_entry_
        next == orders_at_price_pool_[level].next_entry_
    IN  /\ IF next = level
           THEN /\ best_by_price' = [best_by_price EXCEPT ![side] = Null]
                /\ orders_at_price_pool_' =
                      [orders_at_price_pool_ EXCEPT ![level] = FreeLevel]
           ELSE /\ best_by_price' = [best_by_price EXCEPT
                                        ![side] = IF @ = level THEN next ELSE @]
                /\ orders_at_price_pool_' =
                      [orders_at_price_pool_ EXCEPT
                           ![prev].next_entry_ = next,
                           ![next].prev_entry_ = prev,
                           ![level] = FreeLevel]
        /\ price_orders_at_price_' =
              [price_orders_at_price_ EXCEPT ![PriceToIndex(price)] = Null]
----------------------------------------------------------------------------
(* The orders of a level: circular, first come first.                      *)

GetNextPriority(price) ==
    LET level == GetOrdersAtPrice(price)
        first == orders_at_price_pool_[level].first_me_order_
        last == order_pool_[first].prev_order_
    IN  IF level = Null THEN 1 ELSE order_pool_[last].priority_ + 1

\* addOrder, for the order allocated for request r.
AddOrder(r, id) ==
    LET level == GetOrdersAtPrice(r.price_)
        first == orders_at_price_pool_[level].first_me_order_
        last == order_pool_[first].prev_order_
        order(p, n) == [client_id_ |-> r.client_id_,
                        client_order_id_ |-> r.client_order_id_,
                        side_ |-> r.side_, price_ |-> r.price_,
                        qty_ |-> r.leaves_qty,
                        priority_ |-> GetNextPriority(r.price_),
                        prev_order_ |-> p, next_order_ |-> n]
    IN  /\ IF level = Null
           THEN /\ order_pool_' = [order_pool_ EXCEPT ![id] = order(id, id)]
                /\ AddOrdersAtPrice(r.side_, r.price_, id)
           ELSE /\ order_pool_' = [order_pool_ EXCEPT
                                      ![id] = order(last, first),
                                      ![last].next_order_ = id,
                                      ![first].prev_order_ = id]
                /\ UNCHANGED <<orders_at_price_pool_, price_orders_at_price_,
                               best_by_price>>
        /\ cid_oid_to_order_' = [cid_oid_to_order_ EXCEPT
                                    ![r.client_id_][r.client_order_id_] = id]

\* Defects: the removed order still first of its level, or still in the map.
StillFirst(first, id, next) == first
StillMapped(order) == UNCHANGED cid_oid_to_order_

\* removeOrder's hold on the first order of a level, and its last assignment.
FirstWithout(first, id, next) == IF first = id THEN next ELSE first
Unmap(order) ==
    cid_oid_to_order_' = [cid_oid_to_order_ EXCEPT
                             ![order.client_id_][order.client_order_id_] = Null]

RemoveOrder(id) ==
    LET order == order_pool_[id]
        level == GetOrdersAtPrice(order.price_)
        prev == order.prev_order_
        next == order.next_order_
    IN  /\ IF prev = id
           THEN /\ RemoveOrdersAtPrice(order.side_, order.price_)
                /\ order_pool_' = [order_pool_ EXCEPT ![id] = FreeOrder]
           ELSE /\ order_pool_' = [order_pool_ EXCEPT
                                      ![prev].next_order_ = next,
                                      ![next].prev_order_ = prev,
                                      ![id] = FreeOrder]
                /\ orders_at_price_pool_' =
                      [orders_at_price_pool_ EXCEPT ![level].first_me_order_ =
                          FirstWithout(@, id, next)]
                /\ UNCHANGED <<price_orders_at_price_, best_by_price>>
        /\ Unmap(order)
----------------------------------------------------------------------------
(* The requests.                                                           *)

\* add(), up to checkForMatch.
Accept(c, o, side, price, qty) ==
    /\ ~exited
    /\ ~Matching
    /\ next_market_order_id_ <= MaxOrderId
    /\ incoming' = [client_id_ |-> c, client_order_id_ |-> o, side_ |-> side,
                    price_ |-> price, leaves_qty |-> qty,
                    market_order_id_ |-> next_market_order_id_]
    /\ next_market_order_id_' = next_market_order_id_ + 1
    /\ responses' = <<Response("ACCEPTED", c, o, next_market_order_id_, side,
                               price, 0, qty)>>
    /\ updates' = <<>>
    /\ UNCHANGED <<book, exited>>

\* Clients do not reuse the id of a live order (OrderManager counts its ids up);
\* add() itself does not look.
Add(c, o, side, price, qty) ==
    cid_oid_to_order_[c][o] = Null /\ Accept(c, o, side, price, qty)

\* Defect: the last order of the level.
BestOppositeLast ==
    order_pool_[orders_at_price_pool_[best_by_price[Opposite(incoming.side_)]]
                    .first_me_order_].prev_order_

\* The order checkForMatch looks at: the first one of the other side's best level.
BestOpposite ==
    orders_at_price_pool_[best_by_price[Opposite(incoming.side_)]].first_me_order_

\* Defects: a break at equal prices, and a loop that does not test leaves_qty.
CanMatchStrictly ==
    /\ incoming.leaves_qty > 0
    /\ best_by_price[Opposite(incoming.side_)] # Null
    /\ Better(incoming.side_, incoming.price_, order_pool_[BestOpposite].price_)
CanMatchAfterFill ==
    /\ best_by_price[Opposite(incoming.side_)] # Null
    /\ ~Better(Opposite(incoming.side_), incoming.price_,
               order_pool_[BestOpposite].price_)

\* The condition of checkForMatch's loops, and of the "break" in them.
CanMatch ==
    /\ incoming.leaves_qty > 0
    /\ best_by_price[Opposite(incoming.side_)] # Null
    /\ ~Better(Opposite(incoming.side_), incoming.price_,
               order_pool_[BestOpposite].price_)

\* Defects: a fill for all the incoming order wants; the same quantity left
\* reported to both parties.
FillAll(leaves_qty, qty) == leaves_qty
SameLeaves(r, order, fill_qty) ==
    <<Response("FILLED", r.client_id_, r.client_order_id_, r.market_order_id_,
               r.side_, order.price_, fill_qty, r.leaves_qty - fill_qty),
      Response("FILLED", order.client_id_, order.client_order_id_, r.market_order_id_,
               order.side_, order.price_, fill_qty, r.leaves_qty - fill_qty)>>

FillQty(leaves_qty, qty) == IF leaves_qty < qty THEN leaves_qty ELSE qty

\* Both parties hear of the fill, the resting one under the id of the new order.
Fills(r, order, fill_qty) ==
    <<Response("FILLED", r.client_id_, r.client_order_id_, r.market_order_id_,
               r.side_, order.price_, fill_qty, r.leaves_qty - fill_qty),
      Response("FILLED", order.client_id_, order.client_order_id_, r.market_order_id_,
               order.side_, order.price_, fill_qty, order.qty_ - fill_qty)>>

\* One iteration of the loop: match().
Match ==
    LET id == BestOpposite
        order == order_pool_[id]
        fill_qty == FillQty(incoming.leaves_qty, order.qty_)
        left == order.qty_ - fill_qty
    IN  /\ ~exited
        /\ Matching
        /\ CanMatch
        /\ incoming' = [incoming EXCEPT !.leaves_qty = @ - fill_qty]
        /\ responses' = Fills(incoming, order, fill_qty)
        /\ updates' =
              <<Update("TRADE", Null, incoming.side_, order.price_, fill_qty, 0),
                IF left = 0
                THEN Update("CANCEL", id, order.side_, order.price_, order.qty_, 0)
                ELSE Update("MODIFY", id, order.side_, order.price_, left,
                            order.priority_)>>
        /\ IF left = 0
           THEN RemoveOrder(id)
           ELSE /\ order_pool_' = [order_pool_ EXCEPT ![id].qty_ = left]
                /\ UNCHANGED <<orders_at_price_pool_, price_orders_at_price_,
                               best_by_price, cid_oid_to_order_>>
        /\ UNCHANGED <<next_market_order_id_, exited>>

\* The allocations of add() and addOrder use up a pool (see MemPool).
PoolsRunOut ==
    \/ Cardinality(LiveOrders) + 1 = ME_MAX_ORDER_IDS
    \/ /\ GetOrdersAtPrice(incoming.price_) = Null
       /\ Cardinality(LiveLevels) + 1 = ME_MAX_PRICE_LEVELS

\* The rest of add(): what is left of the order is put into the book.
Rest ==
    /\ ~exited
    /\ Matching
    /\ ~CanMatch
    /\ incoming.leaves_qty > 0
    /\ ~PoolsRunOut
    /\ AddOrder(incoming, incoming.market_order_id_)
    /\ updates' = <<Update("ADD", incoming.market_order_id_, incoming.side_,
                           incoming.price_, incoming.leaves_qty,
                           GetNextPriority(incoming.price_))>>
    /\ incoming' = NoRequest
    /\ responses' = <<>>
    /\ UNCHANGED <<next_market_order_id_, exited>>

\* "Memory Pool out of space", after the order has been accepted.
RunOutOfSpace ==
    /\ ~exited
    /\ Matching
    /\ ~CanMatch
    /\ incoming.leaves_qty > 0
    /\ PoolsRunOut
    /\ exited' = TRUE
    /\ responses' = <<>>
    /\ updates' = <<>>
    /\ UNCHANGED <<book, next_market_order_id_, incoming>>

\* The rest of add() when nothing is left.
Done ==
    /\ ~exited
    /\ Matching
    /\ ~CanMatch
    /\ incoming.leaves_qty = 0
    /\ incoming' = NoRequest
    /\ responses' = <<>>
    /\ updates' = <<>>
    /\ UNCHANGED <<book, next_market_order_id_, exited>>

\* cancel().
CancelLive(c, o) ==
    LET id == cid_oid_to_order_[c][o]
        order == order_pool_[id]
    IN  /\ ~exited
        /\ ~Matching
        /\ id # Null
        /\ RemoveOrder(id)
        /\ updates' = <<Update("CANCEL", id, order.side_, order.price_, 0,
                               order.priority_)>>
        /\ responses' = <<Response("CANCELED", c, o, id, order.side_, order.price_,
                                   Null, order.qty_)>>
        /\ UNCHANGED <<next_market_order_id_, incoming, exited>>

\* cancel() of an order that has been filled or cancelled or never was.
CancelUnknown(c, o) ==
    /\ ~exited
    /\ ~Matching
    /\ cid_oid_to_order_[c][o] = Null
    /\ responses' = <<Response("CANCEL_REJECTED", c, o, Null, "INVALID",
                               Null, Null, Null)>>
    /\ updates' = <<>>
    /\ UNCHANGED <<book, next_market_order_id_, incoming, exited>>

\* checkForMatch and what follows it: the engine's thread runs it to its end.
Proceed == Match \/ Rest \/ RunOutOfSpace \/ Done

Cancel == \E c \in Clients, o \in Oids : CancelLive(c, o) \/ CancelUnknown(c, o)

\* The type of a request is NEW or CANCEL; what comes of any other is in OrderSession.
Next ==
    \/ \E c \in Clients, o \in Oids, side \in Sides, p \in Prices, q \in Qtys :
          Add(c, o, side, p, q)
    \/ Proceed
    \/ Cancel

Spec == Init /\ [][Next]_vars /\ WF_vars(Proceed)

\* Clients that use an id again while its order rests.
NextReusing ==
    \/ \E c \in Clients, o \in Oids, side \in Sides, p \in Prices, q \in Qtys :
          Accept(c, o, side, p, q)
    \/ Proceed
    \/ Cancel

SpecReusing == Init /\ [][NextReusing]_vars /\ WF_vars(Proceed)
----------------------------------------------------------------------------
Order == [client_id_ : Clients, client_order_id_ : Oids, side_ : Sides,
          price_ : Prices, qty_ : Nat \ {0}, priority_ : Nat,
          prev_order_ : OrderIds, next_order_ : OrderIds]
Level == [side_ : Sides, first_me_order_ : OrderIds,
          prev_entry_ : Prices, next_entry_ : Prices]
Request == [client_id_ : Clients, client_order_id_ : Oids, side_ : Sides,
            price_ : Prices, leaves_qty : Nat, market_order_id_ : OrderIds]

\* No order in the book is empty, and no pointer of an object in use is null.
TypeOK ==
    /\ order_pool_ \in [OrderIds -> Order \cup {FreeOrder}]
    /\ orders_at_price_pool_ \in [Prices -> Level \cup {FreeLevel}]
    /\ price_orders_at_price_ \in [LevelIndices -> Prices \cup {Null}]
    /\ best_by_price \in [Sides -> Prices \cup {Null}]
    /\ cid_oid_to_order_ \in [Clients -> [Oids -> OrderIds \cup {Null}]]
    /\ next_market_order_id_ \in 1 .. MaxOrderId + 1
    /\ incoming \in Request \cup {NoRequest}
    /\ exited \in BOOLEAN

\* Every live order is found under its client's id for it, and every live level
\* under its price; nothing else is: no pool block leaks, no pointer dangles.
\* (cancel() and getOrdersAtPrice dereference what they find there.)
IndicesExact ==
    /\ \A c \in Clients, o \in Oids : LET id == cid_oid_to_order_[c][o] IN
          id # Null => /\ id \in LiveOrders
                       /\ order_pool_[id].client_id_ = c
                       /\ order_pool_[id].client_order_id_ = o
    /\ \A id \in LiveOrders :
          cid_oid_to_order_[order_pool_[id].client_id_]
                           [order_pool_[id].client_order_id_] = id
    /\ \A i \in LevelIndices : LET l == price_orders_at_price_[i] IN
          l # Null => l \in LiveLevels /\ PriceToIndex(l) = i
    /\ \A l \in LiveLevels : GetOrdersAtPrice(l) = l

\* A level is live exactly while orders rest at its price, all on its side.
LevelsMatchOrders ==
    /\ \A id \in LiveOrders : LET order == order_pool_[id] IN
          orders_at_price_pool_[order.price_].side_ = order.side_
    /\ \A l \in LiveLevels : \E id \in LiveOrders : order_pool_[id].price_ = l

\* The levels of each side form one circular list in strict price order from
\* the best: what toString's "Bids/Asks not sorted" check (FATAL) looks for, and
\* more: the walk from the best level meets every level.
LevelsOf(side) == {l \in Prices : orders_at_price_pool_[l].side_ = side}
Rank(side) == [l \in Prices |-> IF side = "BUY" THEN 0 - l ELSE l]
NextEntry == [l \in Prices |-> orders_at_price_pool_[l].next_entry_]
PrevEntry == [l \in Prices |-> orders_at_price_pool_[l].prev_entry_]
LevelsSorted ==
    \A side \in Sides :
        IF LevelsOf(side) = {} THEN best_by_price[side] = Null
        ELSE IsSortedRing(LevelsOf(side), Rank(side), NextEntry, PrevEntry,
                          best_by_price[side])

\* The orders of a level form one circular list in order of arrival from the
\* first, and priority_ says so: earlier orders have the smaller one.
OrdersAt(l) == {o \in LiveOrders : order_pool_[o].price_ = l}
Arrival == [o \in OrderIds |-> o]
NextOrder == [o \in OrderIds |-> order_pool_[o].next_order_]
PrevOrder == [o \in OrderIds |-> order_pool_[o].prev_order_]
OrdersInTimeOrder ==
    \A l \in LiveLevels :
        /\ IsSortedRing(OrdersAt(l), Arrival, NextOrder, PrevOrder,
                        orders_at_price_pool_[l].first_me_order_)
        /\ \A o, p \in OrdersAt(l) :
              o < p => order_pool_[o].priority_ < order_pool_[p].priority_

\* No resting bid is at or above a resting ask.  (Were it not so, orders of both
\* sides would be linked into one level.)
NotCrossed ==
    \A b, s \in LiveOrders :
        order_pool_[b].side_ = "BUY" /\ order_pool_[s].side_ = "SELL" =>
            order_pool_[b].price_ < order_pool_[s].price_

\* An id used again while its order rests takes the order's entry with it: the
\* order can no longer be cancelled, nor the newer one once the older is filled.
\* Nothing dangles all the same: what cancel() finds under an id is a live order
\* of that client and id, and the lists of orders and levels are as they were.
SoundWithReuse ==
    /\ \A c \in Clients, o \in Oids : LET id == cid_oid_to_order_[c][o] IN
          id # Null => /\ id \in LiveOrders
                       /\ order_pool_[id].client_id_ = c
                       /\ order_pool_[id].client_order_id_ = o
    /\ LevelsMatchOrders
    /\ LevelsSorted
    /\ OrdersInTimeOrder
    /\ NotCrossed

\* add() returns: each iteration of the matching loop uses up a resting order or
\* the incoming one.
AddReturns == Matching ~> ~Matching \/ exited

\* The lists, maps and pools together are a price-time priority book.
resting ==
    {[id |-> o, client |-> order_pool_[o].client_id_,
      oid |-> order_pool_[o].client_order_id_, side |-> order_pool_[o].side_,
      price |-> order_pool_[o].price_, qty |-> order_pool_[o].qty_] : o \in LiveOrders}
Priority ==
    INSTANCE PriceTimeBook WITH
        incoming <- [id |-> incoming.market_order_id_, client |-> incoming.client_id_,
                     oid |-> incoming.client_order_id_,
                     side |-> IF Matching THEN incoming.side_ ELSE "NONE",
                     price |-> incoming.price_, qty |-> incoming.leaves_qty],
        nextId <- next_market_order_id_
ImplementsPriceTimeBook == Priority!Spec

\* A client's orders: those in the book and what is left of the one being matched;
\* and what the last step's responses say to it.
View(id) == [side_ |-> order_pool_[id].side_, order_id_ |-> order_pool_[id].client_order_id_,
             price_ |-> order_pool_[id].price_, qty_ |-> order_pool_[id].qty_]
OwnOrders(c) == {id \in LiveOrders : order_pool_[id].client_id_ = c}
OwnRequest(c) ==
    IF incoming.client_id_ = c /\ incoming.leaves_qty > 0
    THEN {[side_ |-> incoming.side_, order_id_ |-> incoming.client_order_id_,
           price_ |-> incoming.price_, qty_ |-> incoming.leaves_qty]}
    ELSE {}
Heard(r) == [type_ |-> r.type_, side_ |-> r.side_, order_id_ |-> r.client_order_id_,
             price_ |-> r.price_, exec_qty_ |-> r.exec_qty_, leaves_qty_ |-> r.leaves_qty_]
HeardBy(c, rs) ==
    LET heard[i \in 0 .. Len(rs)] ==
            IF i = 0 THEN <<>>
            ELSE IF rs[i].client_id_ # c THEN heard[i - 1]
            ELSE Append(heard[i - 1], Heard(rs[i]))
    IN  heard[Len(rs)]
Client(c) ==
    INSTANCE ClientExchange WITH
        BUY <- "BUY", SELL <- "SELL", INVALID_SIDE <- "INVALID", None <- Null,
        open <- {View(id) : id \in OwnOrders(c)} \cup OwnRequest(c),
        sent <- HeardBy(c, responses)

\* To each client the book is what Strategy takes the exchange to be: its orders
\* are accepted once, filled at their price or better and to the quantity said,
\* and a cancel takes the order that is open under that id, or is rejected; and
\* what becomes of other clients' orders it is told nothing of.
ImplementsClientExchange ==
    /\ \A c \in Clients : Client(c)!Init
    /\ [][\A c \in Clients : [Client(c)!Next]_(Client(c)!vars)]_vars
=============================================================================
