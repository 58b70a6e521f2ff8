------------------------- MODULE ExchangeFeedProofs -------------------------
(***************************************************************************)
(* Proofs about ExchangeFeed.  The invariant says that one history of the  *)
(* feed, the updates the engine has sent and the orders after each, is     *)
(* what all three threads work on, each up to a place of its own: the      *)
(* publisher's queue is what comes after the number it has got to, the     *)
(* synthesizer's copy what the history has at the number it has got to,    *)
(* and the book what it has at its end.                                    *)
(*                                                                         *)
(* Two assumptions: no two prices share a slot of the book's table, as in  *)
(* MEOrderBookProofs, and the publisher never falls a whole queue behind   *)
(* the engine, which overwrites what has not been read otherwise.  The     *)
(* synthesizer may.                                                        *)
(***************************************************************************)
EXTENDS ExchangeFeed, MarketUpdates, RecursionProofs

BookProofs == INSTANCE MEOrderBookProofs

(* The book's invariant and what its proofs say of a step.  BookProofs has *)
(* the definitions of Book as its own.                                     *)

LEMMA SameCardinality ==
    ASSUME NEW S
    PROVE  Book!Cardinality(S) = Cardinality(S) /\ BookProofs!Cardinality(S) = Cardinality(S)
BY DEF Cardinality, Book!Cardinality, BookProofs!Cardinality

LEMMA SameAdd ==
    ASSUME NEW c, NEW o, NEW side, NEW price, NEW qty, Book!Add(c, o, side, price, qty)
    PROVE  BookProofs!Accept(c, o, side, price, qty)
BY DEF Book!Add, BookProofs!Accept, Book!Accept, Book!Matching, BookProofs!Matching,
       Book!NoRequest, BookProofs!NoRequest, Book!Null, BookProofs!Null,
       Book!Response, BookProofs!Response, Book!book, BookProofs!book

LEMMA SameRemoveOrder ==
    ASSUME NEW id, Book!RemoveOrder(id) PROVE BookProofs!RemoveOrder(id)
BY DEF Book!RemoveOrder, BookProofs!RemoveOrder, Book!RemoveOrdersAtPrice,
       BookProofs!RemoveOrdersAtPrice, Book!GetOrdersAtPrice, BookProofs!GetOrdersAtPrice,
       Book!PriceToIndex, BookProofs!PriceToIndex, Book!FreeOrder, BookProofs!FreeOrder,
       Book!FreeLevel, BookProofs!FreeLevel, Book!Null, BookProofs!Null,
       Book!FirstWithout, BookProofs!FirstWithout, Book!Unmap, BookProofs!Unmap

LEMMA SameAddOrder ==
    ASSUME NEW r, NEW id, Book!AddOrder(r, id) PROVE BookProofs!AddOrder(r, id)
BY DEF Book!AddOrder, BookProofs!AddOrder, Book!AddOrdersAtPrice, BookProofs!AddOrdersAtPrice,
       Book!GetOrdersAtPrice, BookProofs!GetOrdersAtPrice, Book!PriceToIndex,
       BookProofs!PriceToIndex, Book!Target, BookProofs!Target, Book!LiveLevels,
       BookProofs!LiveLevels, Book!Null, BookProofs!Null, Book!Better, BookProofs!Better,
       Book!GetNextPriority, BookProofs!GetNextPriority

LEMMA SameCanMatch ==
    /\ Book!CanMatch <=> BookProofs!CanMatch
    /\ Book!BestOpposite = BookProofs!BestOpposite
BY DEF Book!CanMatch, BookProofs!CanMatch, Book!BestOpposite, BookProofs!BestOpposite,
       Book!Opposite, BookProofs!Opposite, Book!Better, BookProofs!Better,
       Book!Null, BookProofs!Null

LEMMA SameMatch == ASSUME Book!Match PROVE BookProofs!Match
<1>1. PICK order : order = order_pool_[Book!BestOpposite]
  OBVIOUS
<1>2. PICK fill_qty : fill_qty = Book!FillQty(incoming.leaves_qty, order.qty_)
  OBVIOUS
<1> QED
  BY SameCanMatch, SameRemoveOrder
     DEF Book!Match, BookProofs!Match, Book!Matching, BookProofs!Matching,
         Book!NoRequest, BookProofs!NoRequest, Book!Null, BookProofs!Null,
         Book!FillQty, BookProofs!FillQty, Book!Fills, BookProofs!Fills,
         Book!Response, BookProofs!Response, Book!Update, BookProofs!Update

LEMMA SameRest == ASSUME Book!Rest PROVE BookProofs!Rest
BY SameCanMatch, SameAddOrder, SameCardinality
   DEF Book!Rest, BookProofs!Rest, Book!Matching, BookProofs!Matching,
       Book!NoRequest, BookProofs!NoRequest, Book!Null, BookProofs!Null,
       Book!PoolsRunOut, BookProofs!PoolsRunOut, Book!LiveOrders, BookProofs!LiveOrders,
       Book!LiveLevels, BookProofs!LiveLevels, Book!OrderIds, BookProofs!OrderIds,
       Book!GetOrdersAtPrice, BookProofs!GetOrdersAtPrice,
       Book!PriceToIndex, BookProofs!PriceToIndex,
       Book!GetNextPriority, BookProofs!GetNextPriority,
       Book!Update, BookProofs!Update

LEMMA SameEnd == ASSUME Book!RunOutOfSpace \/ Book!Done PROVE BookProofs!RunOutOfSpace \/ BookProofs!Done
BY SameCanMatch, SameCardinality
   DEF Book!Done, BookProofs!Done, Book!RunOutOfSpace, BookProofs!RunOutOfSpace,
       Book!Matching, BookProofs!Matching,
       Book!NoRequest, BookProofs!NoRequest, Book!Null, BookProofs!Null,
       Book!PoolsRunOut, BookProofs!PoolsRunOut, Book!LiveOrders, BookProofs!LiveOrders,
       Book!LiveLevels, BookProofs!LiveLevels, Book!OrderIds, BookProofs!OrderIds,
       Book!GetOrdersAtPrice, BookProofs!GetOrdersAtPrice,
       Book!PriceToIndex, BookProofs!PriceToIndex, Book!book, BookProofs!book

LEMMA SameCancel == ASSUME Book!Cancel PROVE BookProofs!Cancel
BY SameRemoveOrder
   DEF Book!Cancel, BookProofs!Cancel, Book!CancelLive, BookProofs!CancelLive,
       Book!CancelUnknown, BookProofs!CancelUnknown, Book!Matching, BookProofs!Matching,
       Book!NoRequest, BookProofs!NoRequest, Book!Null, BookProofs!Null,
       Book!Response, BookProofs!Response, Book!Update, BookProofs!Update,
       Book!book, BookProofs!book

LEMMA BookStep == ASSUME Book!Next PROVE BookProofs!NextReusing
BY SameAdd, SameMatch, SameRest, SameEnd, SameCancel
   DEF Book!Next, BookProofs!NextReusing, Book!Proceed, BookProofs!Proceed,
       Book!Sides, BookProofs!Sides

LEMMA BookInit == ASSUME Book!Init PROVE BookProofs!Init
BY DEF Book!Init, BookProofs!Init, Book!OrderIds, BookProofs!OrderIds, Book!FreeOrder,
       BookProofs!FreeOrder, Book!FreeLevel, BookProofs!FreeLevel, Book!Null, BookProofs!Null,
       Book!LevelIndices, BookProofs!LevelIndices, Book!Sides, BookProofs!Sides,
       Book!NoRequest, BookProofs!NoRequest

LEMMA BookTyped ==
    /\ Book!TypeOK <=> BookProofs!TypeOK
    /\ Book!LiveOrders = BookProofs!LiveOrders
BY DEF Book!TypeOK, BookProofs!TypeOK, Book!LiveOrders, BookProofs!LiveOrders,
       Book!OrderIds, BookProofs!OrderIds, Book!Order, BookProofs!Order,
       Book!FreeOrder, BookProofs!FreeOrder, Book!Level, BookProofs!Level,
       Book!FreeLevel, BookProofs!FreeLevel, Book!LevelIndices, BookProofs!LevelIndices,
       Book!Sides, BookProofs!Sides, Book!Null, BookProofs!Null,
       Book!Request, BookProofs!Request, Book!NoRequest, BookProofs!NoRequest
----------------------------------------------------------------------------
(* What a market update means is written once, in MarketUpdates: the        *)
(* synthesizer and MarketDataFeed have it as their own.                     *)

LEMMA SameUpdates ==
    /\ Synthesizer!NoOrder = NoOrder /\ Feed!NoOrder = NoOrder
    /\ \A u : (Synthesizer!Changes(u) <=> Changes(u)) /\ (Feed!Changes(u) <=> Changes(u))
    /\ \A orders, u : /\ Synthesizer!Applied(orders, u) = Applied(orders, u)
                      /\ Feed!Applied(orders, u) = Applied(orders, u)
                      /\ Synthesizer!AsExpected(orders, u) <=> AsExpected(orders, u)
                      /\ Feed!AsExpected(orders, u) <=> AsExpected(orders, u)
    /\ \A ms : Synthesizer!UpdatesIn(ms) = UpdatesIn(ms) /\ Feed!UpdatesIn(ms) = UpdatesIn(ms)
<1>1. Synthesizer!NoOrder = NoOrder /\ Feed!NoOrder = NoOrder
  BY DEF NoOrder, Synthesizer!NoOrder, Feed!NoOrder
<1>2. \A u : (Synthesizer!Changes(u) <=> Changes(u)) /\ (Feed!Changes(u) <=> Changes(u))
  BY DEF Changes, Synthesizer!Changes, Feed!Changes
<1>3. ASSUME NEW orders, NEW u
      PROVE  /\ Synthesizer!Applied(orders, u) = Applied(orders, u)
             /\ Feed!Applied(orders, u) = Applied(orders, u)
  BY <1>1 DEF Applied, Synthesizer!Applied, Feed!Applied, NoOrder,
              Synthesizer!NoOrder, Feed!NoOrder
<1>4. ASSUME NEW orders, NEW u
      PROVE  /\ Synthesizer!AsExpected(orders, u) <=> AsExpected(orders, u)
             /\ Feed!AsExpected(orders, u) <=> AsExpected(orders, u)
  BY DEF AsExpected, Synthesizer!AsExpected, Feed!AsExpected, NoOrder,
              Synthesizer!NoOrder, Feed!NoOrder
<1>5. ASSUME NEW ms
      PROVE  Synthesizer!UpdatesIn(ms) = UpdatesIn(ms) /\ Feed!UpdatesIn(ms) = UpdatesIn(ms)
  BY DEF UpdatesIn, Synthesizer!UpdatesIn, Feed!UpdatesIn
<1> QED
  BY <1>1, <1>2, <1>3, <1>4, <1>5

LEMMA SameAppliedTo ==
    ASSUME NEW orders, NEW u
    PROVE  /\ Synthesizer!AppliedTo(orders, u) = AppliedTo(orders, u)
           /\ Feed!AppliedTo(orders, u) = AppliedTo(orders, u)
BY SameUpdates DEF AppliedTo, Synthesizer!AppliedTo, Feed!AppliedTo

LEMMA SameReplayed ==
    ASSUME NEW orders, NEW us
    PROVE  /\ Synthesizer!Replayed(orders, us) = Replayed(orders, us)
           /\ Feed!Replayed(orders, us) = Replayed(orders, us)
BY DEF Replayed, Synthesizer!Replayed, Feed!Replayed, AppliedTo, Synthesizer!AppliedTo,
   Feed!AppliedTo, Changes, Synthesizer!Changes, Feed!Changes, Applied, Synthesizer!Applied,
   Feed!Applied, NoOrder, Synthesizer!NoOrder, Feed!NoOrder

LEMMA SameSnapshotOf ==
    ASSUME NEW orders, NEW number
    PROVE  /\ Synthesizer!SnapshotOf(orders, number) = SnapshotOf(orders, number)
           /\ Feed!SnapshotOf(orders, number) = SnapshotOf(orders, number)
BY DEF SnapshotOf, Synthesizer!SnapshotOf, Feed!SnapshotOf, Numbered, Synthesizer!Numbered,
   Feed!Numbered, Marker, Synthesizer!Marker, Feed!Marker, Clear, Synthesizer!Clear,
   Feed!Clear, InIdOrder, Synthesizer!InIdOrder, Feed!InIdOrder, NoOrder, Synthesizer!NoOrder,
   Feed!NoOrder, Cardinality, Synthesizer!Cardinality, Feed!Cardinality
----------------------------------------------------------------------------
(* The history of the feed: the updates T the engine has sent so far and   *)
(* what the orders of its ticker are after each of them.                   *)

Kept == [type_ : {"ADD"}, order_id_ : Nat, side_ : BookProofs!Sides, price_ : Nat, qty_ : Nat,
         priority_ : Nat, ticker_id_ : {Ticker}]
Message == [type_ : {"ADD", "MODIFY", "CANCEL", "TRADE"}, order_id_ : Nat,
            side_ : BookProofs!Sides, price_ : Nat, qty_ : Nat, priority_ : Nat,
            ticker_id_ : {Ticker}]
Orders == [Nat -> Kept \cup {NoOrder}]
Live(orders) == {o \in Nat : orders[o] # NoOrder}

Fits(orders, u) ==
    /\ AsExpected(orders, u)
    /\ u.type_ = "ADD" => Cardinality(Live(orders)) + 1 # ME_MAX_ORDER_IDS

History(T, h) ==
    /\ T \in Seq(Message)
    /\ h \in [0 .. Len(T) -> Orders]
    /\ h[0] = [o \in Nat |-> NoOrder]
    /\ \A k \in 1 .. Len(T) : Fits(h[k - 1], T[k]) /\ h[k] = Applied(h[k - 1], T[k])

\* No order id is used before its turn.
IdsBelow(T, h, n) ==
    /\ \A k \in 1 .. Len(T) : Changes(T[k]) => T[k].order_id_ \in 1 .. n - 1
    /\ \A k \in 0 .. Len(T) : Live(h[k]) \subseteq 1 .. n - 1

\* The orders are those of the book.
Shows(orders) ==
    /\ Live(orders) = BookProofs!LiveOrders
    /\ \A o \in Live(orders) :
          /\ orders[o].side_ = order_pool_[o].side_
          /\ orders[o].price_ = order_pool_[o].price_
          /\ orders[o].qty_ = order_pool_[o].qty_
          /\ orders[o].priority_ = order_pool_[o].priority_

\* The orders of one ticker among those of all, as far as the table has places.
Row(orders, size, t) ==
    [o \in 0 .. size - 1 |-> IF t = Ticker THEN orders[o] ELSE NoOrder]
Table(orders, size) == [t \in 0 .. ME_MAX_TICKERS - 1 |-> Row(orders, size, t)]

\* The publisher's queue is never overrun: each update is sent once, in turn.
PublisherOK(T) ==
    /\ released \in BOOLEAN /\ (released => outgoing_md_updates_ # <<>>)
    /\ outgoing_md_updates_ \in Seq(Message)
    /\ Len(outgoing_md_updates_) <= MaxOutgoing + IF released THEN 1 ELSE 0
    /\ next_inc_seq_num_ \in Nat \ {0}
    /\ Len(T) = next_inc_seq_num_ - 1 + Len(outgoing_md_updates_)
    /\ \A i \in 1 .. Len(outgoing_md_updates_) :
          outgoing_md_updates_[i] = T[next_inc_seq_num_ - 1 + i]
    /\ incremental = [i \in 1 .. next_inc_seq_num_ - (IF released THEN 0 ELSE 1) |->
                         [seq_num_ |-> i, me_market_update_ |-> T[i]]]

\* The synthesizer's may be: then what it reads next has the wrong number.
Numbering == [seq_num_ : Nat, me_market_update_ : Message]
QueueOK(T) ==
    /\ snapshot_md_updates_ \in Seq(Numbering)
    /\ Len(snapshot_md_updates_) <= MaxToSynthesizer
    /\ last_inc_seq_num_ \in Nat
    /\ next_inc_seq_num_ = last_inc_seq_num_ + Len(snapshot_md_updates_) + 1
    /\ \A i \in 1 .. Len(snapshot_md_updates_) :
          snapshot_md_updates_[i].seq_num_ >= last_inc_seq_num_ + i
    /\ Overrun => snapshot_md_updates_[1].seq_num_ >= last_inc_seq_num_ + 2
    /\ ~Overrun =>
          \A i \in 1 .. Len(snapshot_md_updates_) :
              snapshot_md_updates_[i] = [seq_num_ |-> last_inc_seq_num_ + i,
                                         me_market_update_ |-> T[last_inc_seq_num_ + i]]

CopyOK(h) ==
    /\ ticker_orders_ = Table(h[last_inc_seq_num_], ME_MAX_ORDER_IDS)
    /\ Live(h[last_inc_seq_num_]) \subseteq 0 .. ME_MAX_ORDER_IDS - 1
    /\ snapshot # <<>> =>
          /\ snapshot[1].me_market_update_.order_id_ \in Nat
          /\ snapshot[1].me_market_update_.order_id_ <= last_inc_seq_num_

StatusOK ==
    /\ synthesizer \in {"running", "order id out of range", "order not as expected",
                        "out of space", "number not as expected"}
    /\ StopsOnlyOverrunOrOutOfIds

FeedOK(T, h) ==
    /\ History(T, h) /\ IdsBelow(T, h, next_market_order_id_) /\ Shows(h[Len(T)])
    /\ PublisherOK(T) /\ QueueOK(T) /\ CopyOK(h) /\ StatusOK

FInv == BookProofs!IInv /\ \E T, h : FeedOK(T, h)

\* The engine's queue is never overrun.
HeldBack == MaxOutgoing + 1 <= ME_MAX_MARKET_UPDATES
----------------------------------------------------------------------------
(* One update.                                                             *)

\* What an update makes of the orders, order by order.
Effect(orders, u, after) ==
    /\ after \in Orders
    /\ u.type_ = "TRADE" => after = orders
    /\ \A o \in Nat \ {u.order_id_} : after[o] = orders[o]
    /\ u.type_ = "ADD" => orders[u.order_id_] = NoOrder /\ after[u.order_id_] = u
    /\ u.type_ = "MODIFY" =>
          /\ orders[u.order_id_] \in Kept
          /\ after[u.order_id_] =
                [orders[u.order_id_] EXCEPT !.qty_ = u.qty_, !.price_ = u.price_]
    /\ u.type_ = "CANCEL" => orders[u.order_id_] \in Kept /\ after[u.order_id_] = NoOrder

LEMMA AppliedFits ==
    ASSUME NEW orders \in Orders, NEW u \in Message, AsExpected(orders, u)
    PROVE  Effect(orders, u, Applied(orders, u))
<1>1. PICK o : o = u.order_id_
  OBVIOUS
<1>2. o \in Nat /\ u.type_ \in {"ADD", "MODIFY", "CANCEL", "TRADE"} /\ u.qty_ \in Nat /\ u.price_ \in Nat
  BY <1>1 DEF Message
<1>3. CASE u.type_ = "TRADE"
  <2>1. Applied(orders, u) = orders
    BY <1>3 DEF Applied
  <2> QED
    BY <1>3, <2>1 DEF Effect
<1>4. CASE u.type_ = "ADD"
  <2>1. Applied(orders, u) = [orders EXCEPT ![o] = u] /\ orders[o] = NoOrder
    BY <1>1, <1>4 DEF Applied, AsExpected
  <2>2. u \in Kept
    BY <1>4 DEF Message, Kept
  <2>3. Applied(orders, u) \in Orders /\ Applied(orders, u)[o] = u
        /\ \A x \in Nat \ {o} : Applied(orders, u)[x] = orders[x]
    <3> HIDE DEF Kept
    <3> QED
      BY ONLY <1>2, <2>1, <2>2, orders \in Orders DEF Orders
  <2> QED
    BY <1>1, <1>4, <2>1, <2>3 DEF Effect
<1>5. CASE u.type_ = "CANCEL"
  <2>1. Applied(orders, u) = [orders EXCEPT ![o] = NoOrder] /\ orders[o] # NoOrder
    BY <1>1, <1>5 DEF Applied, AsExpected
  <2>2. Applied(orders, u) \in Orders /\ Applied(orders, u)[o] = NoOrder /\ orders[o] \in Kept
        /\ \A x \in Nat \ {o} : Applied(orders, u)[x] = orders[x]
    <3> HIDE DEF Kept
    <3> QED
      BY ONLY <1>2, <2>1, orders \in Orders DEF Orders
  <2> QED
    BY <1>1, <1>5, <2>1, <2>2 DEF Effect
<1>6. CASE u.type_ = "MODIFY"
  <2>1. PICK modified : modified = [orders[o] EXCEPT !.qty_ = u.qty_, !.price_ = u.price_]
    OBVIOUS
  <2>2. orders[o] # NoOrder
        /\ Applied(orders, u) = [orders EXCEPT ![o].qty_ = u.qty_, ![o].price_ = u.price_]
    BY <1>1, <1>6 DEF Applied, AsExpected
  <2>3. orders[o] \in Kept
    BY <1>2, <2>2 DEF Orders
  <2>4. Applied(orders, u) = [orders EXCEPT ![o] = modified]
    BY <1>2, <2>1, <2>2, <2>3 DEF Orders
  <2>5. modified \in Kept
    BY ONLY <1>2, <2>1, <2>3 DEF Kept
  <2>6. Applied(orders, u) \in Orders /\ Applied(orders, u)[o] = modified
        /\ \A x \in Nat \ {o} : Applied(orders, u)[x] = orders[x]
    <3> HIDE DEF Kept
    <3> QED
      BY ONLY <1>2, <2>4, <2>5, orders \in Orders DEF Orders
  <2> QED
    BY <1>1, <1>6, <2>1, <2>3, <2>6 DEF Effect
<1> QED
  BY <1>2, <1>3, <1>4, <1>5, <1>6

\* A table of all tickers' orders with a place for the order takes the update as
\* the orders themselves do.
LEMMA TableApplied ==
    ASSUME NEW orders \in Orders, NEW u \in Message, NEW size \in Nat,
           Changes(u) => u.order_id_ \in 0 .. size - 1
    PROVE  /\ AsExpected(Table(orders, size)[Ticker], u) <=> AsExpected(orders, u)
           /\ AsExpected(orders, u) => AppliedTo(Table(orders, size), u) = Table(Applied(orders, u), size)
<1> DEFINE Ts == 0 .. ME_MAX_TICKERS - 1
<1>1. Ticker \in Ts /\ u.ticker_id_ = Ticker /\ u.type_ \in {"ADD", "MODIFY", "CANCEL", "TRADE"}
  BY ExchangeFeedAssumption DEF Ticker, Message
<1>2. \A x : Table(x, size) = [t \in Ts |-> Row(x, size, t)]
  BY DEF Table
<1>3. Table(orders, size)[Ticker] = Row(orders, size, Ticker)
  BY <1>1, <1>2
<1>4. ASSUME Changes(u) PROVE Row(orders, size, Ticker)[u.order_id_] = orders[u.order_id_]
  BY <1>4 DEF Row
<1>5. AsExpected(Row(orders, size, Ticker), u) <=> AsExpected(orders, u)
  BY <1>1, <1>4 DEF AsExpected, Changes
<1>a. PICK after : after = Applied(orders, u)
  OBVIOUS
<1>6. ASSUME AsExpected(orders, u) PROVE AppliedTo(Table(orders, size), u) = Table(Applied(orders, u), size)
  <2>0. Effect(orders, u, after)
    BY <1>a, <1>6, AppliedFits
  <2>1. CASE ~Changes(u)
    <3>1. Applied(orders, u) = orders
      BY <1>1, <1>a, <2>0, <2>1 DEF Changes, Effect
    <3> QED
      BY <2>1, <3>1 DEF AppliedTo
  <2>2. CASE Changes(u)
    <3>1. PICK id : id = u.order_id_
      OBVIOUS
    <3>2. id \in 0 .. size - 1 /\ id \in Nat
      BY <2>2, <3>1
    <3>3. Applied(Row(orders, size, Ticker), u) = Row(after, size, Ticker)
      <4>1. \A o \in 0 .. size - 1 : o # id => after[o] = orders[o]
        BY <2>0, <3>1 DEF Effect
      <4>2. Row(after, size, Ticker) = [o \in 0 .. size - 1 |-> after[o]]
            /\ Row(orders, size, Ticker) = [o \in 0 .. size - 1 |-> orders[o]]
        BY DEF Row
      <4>3. Row(after, size, Ticker) = [Row(orders, size, Ticker) EXCEPT ![id] = after[id]]
        BY <3>2, <4>1, <4>2
      <4>4. Row(orders, size, Ticker)[id] = orders[id]
        BY <1>4, <2>2, <3>1
      <4>5. CASE u.type_ = "ADD"
        <5>1. Applied(Row(orders, size, Ticker), u) = [Row(orders, size, Ticker) EXCEPT ![id] = u]
          BY <3>1, <4>5 DEF Applied
        <5>2. after[id] = u
          BY <2>0, <3>1, <4>5 DEF Effect
        <5> QED
          BY ONLY <4>3, <5>1, <5>2
      <4>6. CASE u.type_ = "CANCEL"
        <5>1. Applied(Row(orders, size, Ticker), u) = [Row(orders, size, Ticker) EXCEPT ![id] = NoOrder]
          BY <3>1, <4>6 DEF Applied
        <5>2. after[id] = NoOrder
          BY <2>0, <3>1, <4>6 DEF Effect
        <5> QED
          BY ONLY <4>3, <5>1, <5>2
      <4>7. CASE u.type_ = "MODIFY"
        <5>1. Applied(Row(orders, size, Ticker), u)
              = [Row(orders, size, Ticker) EXCEPT ![id].qty_ = u.qty_, ![id].price_ = u.price_]
          BY <3>1, <4>7 DEF Applied
        <5>2. after[id] = [orders[id] EXCEPT !.qty_ = u.qty_, !.price_ = u.price_]
          BY <2>0, <3>1, <4>7 DEF Effect
        <5>3. id \in DOMAIN Row(orders, size, Ticker)
          BY <3>2 DEF Row
        <5>4. Applied(Row(orders, size, Ticker), u) = [Row(orders, size, Ticker) EXCEPT ![id] =
                 [Row(orders, size, Ticker)[id] EXCEPT !.qty_ = u.qty_, !.price_ = u.price_]]
          BY ONLY <5>1, <5>3
        <5> QED
          BY ONLY <4>3, <4>4, <5>2, <5>4
      <4> QED
        BY <2>2, <4>5, <4>6, <4>7 DEF Changes
    <3>4. AppliedTo(Table(orders, size), u)
          = [Table(orders, size) EXCEPT ![Ticker] = Row(after, size, Ticker)]
      <4>1. AppliedTo(Table(orders, size), u)
            = [Table(orders, size) EXCEPT ![Ticker] = Applied(@, u)]
        BY <1>1, <2>2 DEF AppliedTo
      <4>2. Applied(Table(orders, size)[Ticker], u) = Row(after, size, Ticker)
        BY <1>3, <3>3
      <4> QED
        BY ONLY <4>1, <4>2
    <3>5. \A t \in Ts : t # Ticker => Row(orders, size, t) = Row(after, size, t)
      BY DEF Row
    <3>6. Table(after, size) = [Table(orders, size) EXCEPT ![Ticker] = Row(after, size, Ticker)]
      <4>1. /\ Table(after, size) = [t \in Ts |-> Row(after, size, t)]
            /\ Table(orders, size) = [t \in Ts |-> Row(orders, size, t)]
        BY <1>2
      <4>2. Ticker \in Ts
        BY <1>1
      <4> HIDE DEF Ts
      <4> QED
        BY ONLY <3>5, <4>1, <4>2
    <3> QED
      BY ONLY <1>a, <3>4, <3>6
  <2> QED
    BY <2>1, <2>2
<1> QED
  BY <1>3, <1>5, <1>6
----------------------------------------------------------------------------
(* Sequences of updates.                                                   *)

LEMMA HistoryTypes ==
    ASSUME NEW T, NEW h, History(T, h)
    PROVE  /\ Len(T) \in Nat
           /\ \A k \in 0 .. Len(T) : h[k] \in Orders
           /\ \A k \in 1 .. Len(T) : T[k] \in Message /\ Effect(h[k - 1], T[k], h[k])
<1>1. Len(T) \in Nat /\ \A k \in 0 .. Len(T) : h[k] \in Orders
  <2>1. T \in Seq(Message) /\ h \in [0 .. Len(T) -> Orders]
    BY DEF History
  <2> QED
    BY ONLY <2>1
<1>2. ASSUME NEW k \in 1 .. Len(T) PROVE T[k] \in Message /\ Effect(h[k - 1], T[k], h[k])
  <2>1. T[k] \in Message /\ h[k - 1] \in Orders /\ AsExpected(h[k - 1], T[k])
        /\ h[k] = Applied(h[k - 1], T[k])
    BY <1>1 DEF History, Fits
  <2> QED
    BY <2>1, AppliedFits
<1> QED
  BY <1>1, <1>2

\* An order there is after an update was there before, or is the one added.
LEMMA LiveAfter ==
    ASSUME NEW orders, NEW u \in Message, NEW after, Effect(orders, u, after)
    PROVE  /\ Live(after) \subseteq Live(orders) \cup {u.order_id_}
           /\ ~Changes(u) => after = orders
<1>1. u.type_ \in {"ADD", "MODIFY", "CANCEL", "TRADE"}
  BY DEF Message
<1> QED
  BY <1>1 DEF Live, Effect, Changes

LEMMA HistoryExtended ==
    ASSUME NEW T, NEW h, History(T, h), NEW n \in Nat, IdsBelow(T, h, n), NEW n2 \in Nat, n <= n2,
           NEW m \in Message, Fits(h[Len(T)], m), Changes(m) => m.order_id_ \in 1 .. n2 - 1
    PROVE  \E g : /\ History(Append(T, m), g) /\ IdsBelow(Append(T, m), g, n2)
                  /\ \A k \in 0 .. Len(T) : g[k] = h[k]
                  /\ Effect(h[Len(T)], m, g[Len(T) + 1])
<1>1. PICK L : L = Len(T)
  OBVIOUS
<1>2. PICK U : U = Append(T, m)
  OBVIOUS
<1>3. PICK after : after = Applied(h[L], m)
  OBVIOUS
<1>4. PICK g : g = [k \in 0 .. L + 1 |-> IF k <= L THEN h[k] ELSE after]
  OBVIOUS
<1>5. L \in Nat /\ \A k \in 0 .. L : h[k] \in Orders
  BY <1>1, HistoryTypes
<1>6. /\ U \in Seq(Message) /\ Len(U) = L + 1 /\ U[L + 1] = m
      /\ \A k \in 1 .. L : U[k] = T[k]
  BY <1>1, <1>2 DEF History
<1>7. Effect(h[L], m, after)
  BY <1>1, <1>3, <1>5, AppliedFits DEF Fits
<1>8. /\ \A k \in 0 .. L : g[k] = h[k]
      /\ g[L + 1] = after
  BY <1>4, <1>5
<1>9. History(U, g)
  <2>1. g \in [0 .. Len(U) -> Orders]
    BY <1>4, <1>5, <1>6, <1>7 DEF Effect
  <2>2. g[0] = [o \in Nat |-> NoOrder]
    BY <1>5, <1>8 DEF History
  <2>3. ASSUME NEW k \in 1 .. Len(U) PROVE Fits(g[k - 1], U[k]) /\ g[k] = Applied(g[k - 1], U[k])
    <3>1. CASE k = L + 1
      <4>1. g[k - 1] = h[L] /\ U[k] = m /\ g[k] = after
        BY <1>5, <1>6, <1>8, <3>1
      <4> QED
        BY <1>1, <1>3, <4>1
    <3>2. CASE k # L + 1
      <4>1. k \in 1 .. L /\ k - 1 \in 0 .. L /\ k \in 0 .. L
        BY <1>5, <1>6, <3>2
      <4>2. g[k - 1] = h[k - 1] /\ U[k] = T[k] /\ g[k] = h[k]
        BY <1>6, <1>8, <4>1
      <4> QED
        BY <1>1, <4>1, <4>2 DEF History
    <3> QED
      BY <3>1, <3>2
  <2> QED
    BY <1>6, <2>1, <2>2, <2>3 DEF History
<1>10. IdsBelow(U, g, n2)
  <2>1. ASSUME NEW k \in 1 .. Len(U), Changes(U[k]) PROVE U[k].order_id_ \in 1 .. n2 - 1
    <3>1. CASE k = L + 1
      BY <1>6, <2>1, <3>1
    <3>2. CASE k # L + 1
      <4>1. k \in 1 .. L /\ U[k] = T[k]
        BY <1>5, <1>6, <3>2
      <4>2. T[k].order_id_ \in 1 .. n - 1
        BY <1>1, <2>1, <4>1 DEF IdsBelow
      <4> QED
        BY <4>1, <4>2
    <3> QED
      BY <3>1, <3>2
  <2>2. \A k \in 0 .. L : Live(h[k]) \subseteq 1 .. n2 - 1
    <3>1. 1 .. n - 1 \subseteq 1 .. n2 - 1
      OBVIOUS
    <3> QED
      BY <1>1, <3>1 DEF IdsBelow
  <2>3. Live(after) \subseteq 1 .. n2 - 1
    <3>1. CASE Changes(m)
      <4>1. Live(after) \subseteq Live(h[L]) \cup {m.order_id_}
        BY <1>7, LiveAfter
      <4>2. Live(h[L]) \subseteq 1 .. n2 - 1
        BY <1>5, <2>2
      <4> QED
        BY <3>1, <4>1, <4>2
    <3>2. CASE ~Changes(m)
      <4>1. after = h[L]
        BY <1>7, <3>2, LiveAfter
      <4> QED
        BY <1>5, <2>2, <4>1
    <3> QED
      BY <3>1, <3>2
  <2>4. ASSUME NEW k \in 0 .. Len(U) PROVE Live(g[k]) \subseteq 1 .. n2 - 1
    <3>1. k = L + 1 \/ k \in 0 .. L
      BY <1>5, <1>6
    <3> QED
      BY <1>8, <2>2, <2>3, <3>1
  <2> QED
    BY <2>1, <2>4 DEF IdsBelow
<1> QED
  BY <1>1, <1>2, <1>7, <1>8, <1>9, <1>10

\* The recursion of Replayed has one solution.
LEMMA ReplayedIs ==
    ASSUME NEW us, NEW n \in Nat, Len(us) = n, NEW g, NEW books, g[0] = books,
           \A i \in 1 .. n : g[i] = AppliedTo(g[i - 1], us[i])
    PROVE  Replayed(books, us) = g[n]
<1> DEFINE Is(f) == f = [i \in 0 .. Len(us) |-> IF i = 0 THEN books ELSE AppliedTo(f[i - 1], us[i])]
           after == CHOOSE f : Is(f)
           G == [i \in 0 .. n |-> g[i]]
<1>1. Is(G)
  <2>1. \A i \in 0 .. n : G[i] = IF i = 0 THEN books ELSE AppliedTo(G[i - 1], us[i])
    OBVIOUS
  <2>2. G = [i \in 0 .. n |-> G[i]]
    OBVIOUS
  <2> HIDE DEF G
  <2>3. G = [i \in 0 .. n |-> IF i = 0 THEN books ELSE AppliedTo(G[i - 1], us[i])]
    BY <2>1, <2>2
  <2> QED
    BY <2>3
<1>2. Is(after)
  <2> HIDE DEF Is, G
  <2> QED
    BY <1>1
<1>3. after[0] = books /\ \A i \in 1 .. n : after[i] = AppliedTo(after[i - 1], us[i])
  <2>1. after = [i \in 0 .. n |-> IF i = 0 THEN books ELSE AppliedTo(after[i - 1], us[i])]
    <3> HIDE DEF after
    <3> QED
      BY <1>2
  <2> HIDE DEF after
  <2> QED
    BY <2>1
<1>4. after[n] = g[n]
  <2> DEFINE S == {i \in 0 .. n : after[i] = g[i]}
  <2> HIDE DEF after
  <2>1. 0 \in S
    BY <1>3
  <2>2. ASSUME NEW i \in 1 .. n, i - 1 \in S PROVE i \in S
    BY <1>3, <2>2
  <2>3. \A i \in 0 .. n : i \in S
    <3> HIDE DEF S
    <3> QED
      BY <2>1, <2>2, InductionUpTo
  <2> QED
    BY <2>3
<1>5. Replayed(books, us) = after[n]
  BY DEF Replayed
<1> QED
  BY <1>4, <1>5

\* us is what the history has after its a-th update up to the b-th, for a table
\* of that size.
Part(T, a, b, size, us) ==
    /\ a \in Nat /\ b \in 0 .. Len(T) /\ a <= b /\ size \in Nat
    /\ \A k \in a + 1 .. b : Changes(T[k]) => T[k].order_id_ \in 0 .. size - 1
    /\ Len(us) = b - a /\ \A i \in 1 .. b - a : us[i] = T[a + i]

\* Updates of the history, applied to the table before them, give the table after.
LEMMA ReplayedTable ==
    ASSUME NEW T, NEW h, History(T, h), NEW a, NEW b, NEW size, NEW us, Part(T, a, b, size, us)
    PROVE  Replayed(Table(h[a], size), us) = Table(h[b], size)
<1>1. PICK g : g = [i \in 0 .. b - a |-> Table(h[a + i], size)]
  OBVIOUS
<1>2. /\ b - a \in Nat /\ Len(T) \in Nat /\ a \in Nat /\ b \in 0 .. Len(T) /\ size \in Nat
      /\ \A k \in a + 1 .. b : Changes(T[k]) => T[k].order_id_ \in 0 .. size - 1
      /\ Len(us) = b - a /\ \A i \in 1 .. b - a : us[i] = T[a + i]
  BY HistoryTypes DEF Part
<1>3. g[0] = Table(h[a], size) /\ g[b - a] = Table(h[b], size)
  BY <1>1, <1>2
<1>4. ASSUME NEW i \in 1 .. b - a PROVE g[i] = AppliedTo(g[i - 1], us[i])
  <2>1. PICK k : k = a + i
    OBVIOUS
  <2>2. k \in 1 .. Len(T) /\ k \in a + 1 .. b /\ k - 1 \in 0 .. Len(T) /\ k - 1 = a + (i - 1)
        /\ i - 1 \in 0 .. b - a /\ i \in 0 .. b - a
    BY <1>2, <2>1
  <2>3. g[i] = Table(h[k], size) /\ g[i - 1] = Table(h[k - 1], size)
    <3>1. g[i - 1] = Table(h[a + (i - 1)], size)
      BY ONLY <1>1, <2>2
    <3>2. g[i] = Table(h[a + i], size)
      BY ONLY <1>1, <2>2
    <3> QED
      BY <2>1, <2>2, <3>1, <3>2
  <2>4. h[k] = Applied(h[k - 1], T[k]) /\ AsExpected(h[k - 1], T[k]) /\ T[k] \in Message
        /\ h[k - 1] \in Orders
    BY <2>2, HistoryTypes DEF History, Fits
  <2>5. us[i] = T[k]
    BY <1>2, <2>1
  <2>6. Changes(T[k]) => T[k].order_id_ \in 0 .. size - 1
    BY <1>2, <2>2
  <2> QED
    BY <1>2, <2>3, <2>4, <2>5, <2>6, TableApplied
<1>5. PICK n, books : n = b - a /\ books = Table(h[a], size)
  OBVIOUS
<1>6. n \in Nat /\ Len(us) = n /\ g[0] = books /\ \A i \in 1 .. n : g[i] = AppliedTo(g[i - 1], us[i])
  BY ONLY <1>2, <1>3, <1>4, <1>5
<1>7. Replayed(books, us) = g[n]
  BY ONLY <1>6, ReplayedIs
<1> QED
  BY <1>3, <1>5, <1>7
----------------------------------------------------------------------------
(* Snapshots.                                                              *)

\* The live orders among the first i.
Longer(x, i, s) == IF x[i - 1] = NoOrder THEN s ELSE Append(s, x[i - 1])
Listing(x, N, F) ==
    /\ F \in [0 .. N -> Seq(Kept)]
    /\ F[0] = <<>>
    /\ \A i \in 1 .. N : F[i] = Longer(x, i, F[i - 1])

LEMMA ListingExists ==
    ASSUME NEW x \in Orders, NEW N \in Nat PROVE \E F : Listing(x, N, F)
<1> DEFINE V == Seq(Kept)
           step == [i \in 1 .. N |-> [s \in V |-> Longer(x, i, s)]]
<1>1. ASSUME NEW i \in 1 .. N, NEW s \in V PROVE Longer(x, i, s) \in V
  <2>1. x[i - 1] \in Kept \cup {NoOrder}
    BY DEF Orders
  <2>2. PICK y : y = x[i - 1]
    OBVIOUS
  <2>3. CASE y = NoOrder
    BY <2>2, <2>3 DEF Longer
  <2>4. CASE y # NoOrder
    <3>1. y \in Kept
      BY <2>1, <2>2, <2>4
    <3> HIDE DEF Kept
    <3>2. Append(s, y) \in V
      BY <3>1
    <3> QED
      BY <2>2, <2>4, <3>2 DEF Longer
  <2> QED
    BY <2>3, <2>4
<1>2. step \in [1 .. N -> [V -> V]] /\ <<>> \in V
  BY <1>1
<1>3. PICK F \in [0 .. N -> V] : Recursive(F, N, <<>>, step)
  <2> HIDE DEF step, V
  <2> QED
    BY <1>2, RecursionExists
<1>4. \A i \in 0 .. N : F[i] = IF i = 0 THEN <<>> ELSE step[i][F[i - 1]]
  <2> HIDE DEF step, V
  <2> QED
    BY <1>3 DEF Recursive
<1>5. F[0] = <<>>
  BY <1>4
<1>6. ASSUME NEW i \in 1 .. N PROVE F[i] = Longer(x, i, F[i - 1])
  <2>1. F[i] = step[i][F[i - 1]] /\ F[i - 1] \in V
    <3> HIDE DEF step, V
    <3> QED
      BY <1>4
  <2> HIDE DEF V
  <2> QED
    BY <2>1
<1> QED
  BY <1>5, <1>6 DEF Listing

LEMMA InIdOrderIs ==
    ASSUME NEW x \in Orders, NEW N \in Nat, NEW F, Listing(x, N, F), NEW s \in 0 .. N,
           NEW row, DOMAIN row = 0 .. s - 1, \A o \in 0 .. s - 1 : row[o] = x[o]
    PROVE  InIdOrder(row) = F[s]
<1> DEFINE n == Cardinality(DOMAIN row)
           Is(f) == f = [i \in 0 .. n |->
                           IF i = 0 THEN <<>>
                           ELSE Longer(row, i, f[i - 1])]
           live == CHOOSE f : Is(f)
           G == [i \in 0 .. s |-> F[i]]
<1>1. n = s /\ s \in Nat
  <2>1. Cardinality(0 .. s - 1) = s
    BY FS_Interval
  <2> QED
    BY <2>1
<1>2. ASSUME NEW i \in 1 .. s, NEW q PROVE Longer(row, i, q) = Longer(x, i, q)
  <2>1. row[i - 1] = x[i - 1]
    BY <1>1
  <2> QED
    BY <2>1 DEF Longer
<1>3. Is(G)
  <2>1. \A i \in 0 .. s : G[i] = IF i = 0 THEN <<>>
                                 ELSE Longer(row, i, G[i - 1])
    BY <1>2 DEF Listing
  <2>2. G = [i \in 0 .. s |-> G[i]]
    OBVIOUS
  <2> HIDE DEF G, n
  <2> QED
    BY <1>1, <2>1, <2>2
<1>4. Is(live)
  <2> HIDE DEF Is, G
  <2> QED
    BY <1>3
<1>5. /\ live[0] = <<>>
      /\ \A i \in 1 .. s : live[i] = Longer(row, i, live[i - 1])
  <2>1. live = [i \in 0 .. s |-> IF i = 0 THEN <<>>
                                 ELSE Longer(row, i, live[i - 1])]
    <3> HIDE DEF live, n
    <3> QED
      BY <1>1, <1>4
  <2> HIDE DEF live, n
  <2> QED
    BY <1>1, <2>1
<1>6. live[s] = F[s]
  <2> DEFINE S == {i \in 0 .. s : live[i] = F[i]}
  <2> HIDE DEF live, n
  <2>1. 0 \in S
    BY <1>5 DEF Listing
  <2>2. ASSUME NEW i \in 1 .. s, i - 1 \in S PROVE i \in S
    BY <1>2, <1>5, <2>2 DEF Listing
  <2>3. \A i \in 0 .. s : i \in S
    <3> HIDE DEF S
    <3> QED
      BY <1>1, <2>1, <2>2, InductionUpTo
  <2> QED
    BY <1>1, <2>3
<1>7. InIdOrder(row) = live[n]
  BY DEF InIdOrder, Longer
<1> HIDE DEF live, n
<1> QED
  BY <1>1, <1>6, <1>7

LEMMA ListingStops ==
    ASSUME NEW x \in Orders, NEW N \in Nat, NEW F, Listing(x, N, F), NEW s \in 0 .. N,
           Live(x) \subseteq 0 .. s - 1
    PROVE  F[N] = F[s]
<1> DEFINE S == {i \in 0 .. N : i >= s => F[i] = F[s]}
<1>1. 0 \in S
  OBVIOUS
<1>2. ASSUME NEW i \in 1 .. N, i - 1 \in S PROVE i \in S
  <2>1. i > s => x[i - 1] = NoOrder
    BY DEF Live
  <2>2. i > s => F[i] = F[i - 1]
    BY <2>1 DEF Listing, Longer
  <2> QED
    BY <1>2, <2>2
<1>3. \A i \in 0 .. N : i \in S
  <2> HIDE DEF S
  <2> QED
    BY <1>1, <1>2, InductionUpTo
<1> QED
  BY <1>3

LEMMA RowsListed ==
    ASSUME NEW x \in Orders, NEW s \in Nat, NEW s2 \in Nat, NEW t,
           Live(x) \subseteq 0 .. s - 1, Live(x) \subseteq 0 .. s2 - 1
    PROVE  /\ InIdOrder(Row(x, s, t)) = InIdOrder(Row(x, s2, t))
           /\ InIdOrder(Row(x, s, t)) \in Seq(Kept)
<1>1. PICK y : y = IF t = Ticker THEN x ELSE [o \in Nat |-> NoOrder]
  OBVIOUS
<1>2. y \in Orders /\ Live(y) \subseteq 0 .. s - 1 /\ Live(y) \subseteq 0 .. s2 - 1
  BY <1>1 DEF Orders, Live
<1>3. ASSUME NEW z \in Nat PROVE DOMAIN Row(x, z, t) = 0 .. z - 1 /\ \A o \in 0 .. z - 1 : Row(x, z, t)[o] = y[o]
  BY <1>1 DEF Row
<1>4. PICK N \in Nat : s <= N /\ s2 <= N
  BY s + s2 \in Nat, s <= s + s2, s2 <= s + s2
<1>5. PICK F : Listing(y, N, F)
  BY <1>2, ListingExists
<1>6. InIdOrder(Row(x, s, t)) = F[s] /\ InIdOrder(Row(x, s2, t)) = F[s2]
  BY <1>2, <1>3, <1>4, <1>5, InIdOrderIs
<1>7. F[N] = F[s] /\ F[N] = F[s2]
  BY <1>2, <1>4, <1>5, ListingStops
<1>8. F[s] \in Seq(Kept)
  BY <1>4, <1>5 DEF Listing
<1> QED
  BY <1>6, <1>7, <1>8

\* One ticker's part of a snapshot put after those before it; the body of one.
Joined(s, t, row) == s \o <<Clear(t)>> \o InIdOrder(row)
IsBody(f, tables) ==
    f = [t \in DOMAIN tables |-> Joined(IF t = 0 THEN <<>> ELSE f[t - 1], t, tables[t])]
Body(tables) == CHOOSE f : IsBody(f, tables)
Framed(body, number) ==
    Numbered(<<Marker("SNAPSHOT_START", number)>> \o body \o <<Marker("SNAPSHOT_END", number)>>)
Inner == Kept \cup {Clear(t) : t \in 0 .. ME_MAX_TICKERS - 1}

LEMMA SnapshotIsFramed ==
    ASSUME NEW tables, NEW number
    PROVE  SnapshotOf(tables, number) =
              Framed(Body(tables)[Cardinality(DOMAIN tables) - 1], number)
BY DEF SnapshotOf, Framed, Body, IsBody, Joined

\* Places for orders that are not there do not show.
LEMMA SameSnapshots ==
    ASSUME NEW x \in Orders, NEW s \in Nat, NEW s2 \in Nat, NEW number,
           Live(x) \subseteq 0 .. s - 1, Live(x) \subseteq 0 .. s2 - 1
    PROVE  SnapshotOf(Table(x, s), number) = SnapshotOf(Table(x, s2), number)
<1>1. PICK a, b : a = Table(x, s) /\ b = Table(x, s2)
  OBVIOUS
<1>2. DOMAIN a = 0 .. ME_MAX_TICKERS - 1 /\ DOMAIN b = 0 .. ME_MAX_TICKERS - 1
  BY <1>1 DEF Table
<1>3. ASSUME NEW t \in DOMAIN a PROVE InIdOrder(a[t]) = InIdOrder(b[t])
  <2>1. a[t] = Row(x, s, t) /\ b[t] = Row(x, s2, t)
    BY <1>1, <1>2 DEF Table
  <2>2. InIdOrder(Row(x, s, t)) = InIdOrder(Row(x, s2, t))
    BY RowsListed
  <2> QED
    BY ONLY <2>1, <2>2
<1>4. ASSUME NEW f PROVE IsBody(f, a) <=> IsBody(f, b)
  <2> DEFINE D == DOMAIN a
             before(t) == IF t = 0 THEN <<>> ELSE f[t - 1]
  <2>1. \A t \in D : Joined(before(t), t, a[t]) = Joined(before(t), t, b[t])
    BY <1>3 DEF Joined
  <2>2. [t \in D |-> Joined(before(t), t, a[t])] = [t \in D |-> Joined(before(t), t, b[t])]
    <3> HIDE DEF D, before
    <3> QED
      BY ONLY <2>1
  <2>3. IsBody(f, a) <=> f = [t \in D |-> Joined(before(t), t, a[t])]
    BY DEF IsBody
  <2>4. IsBody(f, b) <=> f = [t \in D |-> Joined(before(t), t, b[t])]
    BY <1>2 DEF IsBody
  <2> HIDE DEF D, before
  <2> QED
    BY ONLY <2>2, <2>3, <2>4
<1>5. Body(a) = Body(b)
  BY ONLY <1>4, Zenon DEF Body
<1>6. SnapshotOf(a, number) = SnapshotOf(b, number)
  BY ONLY <1>2, <1>5, SnapshotIsFramed
<1> QED
  BY <1>1, <1>6

\* A snapshot's first message names its number.
LEMMA SnapshotNumber ==
    ASSUME NEW x \in Orders, NEW s \in Nat, NEW number, Live(x) \subseteq 0 .. s - 1
    PROVE  SnapshotOf(Table(x, s), number)[1].me_market_update_.order_id_ = number
<1>0. PICK books : books = Table(x, s)
  OBVIOUS
<1> DEFINE n == ME_MAX_TICKERS - 1
           V == Seq(Inner)
           step == [i \in 1 .. n + 1 |-> [q \in V |-> Joined(q, i - 1, books[i - 1])]]
<1>1. n \in Nat /\ DOMAIN books = 0 .. n /\ Cardinality(DOMAIN books) - 1 = n
  <2>1. ME_MAX_TICKERS \in Nat \ {0}
    BY ExchangeFeedAssumption
  <2>2. DOMAIN books = 0 .. n
    BY <1>0 DEF Table
  <2>3. Cardinality(0 .. n) = ME_MAX_TICKERS
    BY <2>1, FS_Interval
  <2> QED
    BY <2>1, <2>2, <2>3
<1>2. ASSUME NEW t \in 0 .. n, NEW q \in V PROVE Joined(q, t, books[t]) \in V
  <2>1. Clear(t) \in Inner
    BY DEF Inner
  <2>2. InIdOrder(books[t]) \in Seq(Kept)
    <3>1. books[t] = Row(x, s, t)
      BY <1>0 DEF Table
    <3> QED
      BY <3>1, RowsListed
  <2>3. PICK listed : listed = InIdOrder(books[t])
    OBVIOUS
  <2>4. listed \in Seq(Inner)
    BY <2>2, <2>3 DEF Inner
  <2>5. PICK clear : clear = Clear(t)
    OBVIOUS
  <2>6. q \o <<clear>> \o listed \in Seq(Inner)
    BY ONLY q \in Seq(Inner), <2>1, <2>4, <2>5
  <2> QED
    BY <2>3, <2>5, <2>6 DEF Joined
<1>3. PICK F \in [0 .. n + 1 -> V] : Recursive(F, n + 1, <<>>, step)
  <2>1. \A i \in 1 .. n + 1 : i - 1 \in 0 .. n
    BY <1>1
  <2>2. step \in [1 .. n + 1 -> [V -> V]] /\ <<>> \in V
    <3>1. \A i \in 1 .. n + 1 : \A q \in V : Joined(q, i - 1, books[i - 1]) \in V
      <4> HIDE DEF n, V
      <4> QED
        BY <1>2, <2>1
    <3>2. <<>> \in V
      OBVIOUS
    <3> HIDE DEF n, V
    <3> QED
      BY ONLY <3>1, <3>2
  <2>3. n + 1 \in Nat
    BY <1>1
  <2> HIDE DEF step, V, n
  <2> QED
    BY <2>2, <2>3, RecursionExists
<1>4. /\ F[0] = <<>>
      /\ \A t \in 0 .. n : F[t] \in V /\ F[t + 1] \in V /\ F[t + 1] = Joined(F[t], t, books[t])
  <2>1. \A i \in 0 .. n + 1 : F[i] = IF i = 0 THEN <<>> ELSE step[i][F[i - 1]]
    <3> HIDE DEF step, V, n
    <3> QED
      BY <1>3 DEF Recursive
  <2>2. F[0] = <<>>
    <3>1. 0 \in 0 .. n + 1
      BY <1>1
    <3> HIDE DEF step, n
    <3> QED
      BY <2>1, <3>1
  <2>3. ASSUME NEW t \in 0 .. n
        PROVE  F[t] \in V /\ F[t + 1] \in V /\ F[t + 1] = Joined(F[t], t, books[t])
    <3>1. t \in 0 .. n + 1 /\ t + 1 \in 1 .. n + 1 /\ t + 1 \in 0 .. n + 1 /\ t + 1 # 0 /\ (t + 1) - 1 = t
      BY <1>1
    <3>2. F[t] \in V /\ F[t + 1] \in V
      BY <3>1
    <3>3. F[t + 1] = step[t + 1][F[t]]
      <4> HIDE DEF step, V, n
      <4> QED
        BY <2>1, <3>1
    <3>4. step[t + 1][F[t]] = Joined(F[t], t, books[t])
      <4> HIDE DEF V, n
      <4> QED
        BY <3>1, <3>2
    <3> QED
      BY <3>2, <3>3, <3>4
  <2> QED
    BY <2>2, <2>3
<1>5. PICK G : G = [t \in 0 .. n |-> F[t + 1]]
  OBVIOUS
<1>6. IsBody(G, books)
  <2>1. ASSUME NEW t \in 0 .. n
        PROVE  F[t + 1] = Joined(IF t = 0 THEN <<>> ELSE G[t - 1], t, books[t])
    <3>1. F[t] = IF t = 0 THEN <<>> ELSE G[t - 1]
      <4>1. t # 0 => t - 1 \in 0 .. n /\ (t - 1) + 1 = t
        BY <1>1
      <4> HIDE DEF V, n
      <4> QED
        BY <1>4, <1>5, <4>1
    <3>2. F[t + 1] = Joined(F[t], t, books[t])
      BY <1>4
    <3> QED
      BY ONLY <3>1, <3>2
  <2>2. G = [t \in 0 .. n |-> Joined(IF t = 0 THEN <<>> ELSE G[t - 1], t, books[t])]
    <3> HIDE DEF n
    <3> QED
      BY ONLY <1>5, <2>1
  <2> HIDE DEF n
  <2> QED
    BY ONLY <1>1, <2>2 DEF IsBody
<1>7. PICK body : body = Body(books)
  OBVIOUS
<1>8. IsBody(body, books)
  BY <1>6, <1>7 DEF Body
<1>9. \A t \in 0 .. n : body[t] = Joined(IF t = 0 THEN <<>> ELSE body[t - 1], t, books[t])
  <2> HIDE DEF n
  <2> QED
    BY <1>1, <1>8 DEF IsBody
<1>10. body[n] \in V
  <2> DEFINE S == {t \in 0 .. n : body[t] = F[t + 1]}
  <2>1. 0 \in S
    <3>1. 0 \in 0 .. n /\ 0 + 1 = 1
      BY <1>1
    <3>2. body[0] = Joined(<<>>, 0, books[0]) /\ F[1] = Joined(F[0], 0, books[0])
      <4> HIDE DEF n, V
      <4> QED
        BY <1>4, <1>9, <3>1
    <3>3. body[0] = F[0 + 1]
      BY ONLY <1>4, <3>1, <3>2
    <3> QED
      BY <3>1, <3>3
  <2>2. ASSUME NEW t \in 1 .. n, t - 1 \in S PROVE t \in S
    <3>1. t \in 0 .. n /\ t # 0 /\ (t - 1) + 1 = t
      BY <1>1
    <3>2. body[t - 1] = F[t]
      BY <2>2, <3>1
    <3>3. body[t] = Joined(body[t - 1], t, books[t]) /\ F[t + 1] = Joined(F[t], t, books[t])
      <4> HIDE DEF n, V
      <4> QED
        BY <1>4, <1>9, <3>1
    <3> QED
      BY <3>1, <3>2, <3>3
  <2>3. \A t \in 0 .. n : t \in S
    <3> HIDE DEF S, n
    <3> QED
      BY <1>1, <2>1, <2>2, InductionUpTo
  <2>4. n \in 0 .. n
    BY <1>1
  <2>5. body[n] = F[n + 1]
    BY <2>3, <2>4
  <2> HIDE DEF n, V
  <2> QED
    BY <1>4, <2>4, <2>5
<1>11. PICK inner, first, end : /\ inner = body[n] /\ first = Marker("SNAPSHOT_START", number)
                                /\ end = Marker("SNAPSHOT_END", number)
  OBVIOUS
<1>12. PICK all : all = <<first>> \o inner \o <<end>>
  OBVIOUS
<1>13. Len(all) \in Nat /\ 1 <= Len(all) /\ all[1] = first
  <2>1. inner \in Seq(Inner)
    BY <1>10, <1>11
  <2>2. PICK W : W = Inner \cup {first, end}
    OBVIOUS
  <2>3. inner \in Seq(W) /\ first \in W /\ end \in W
    BY <2>1, <2>2
  <2> QED
    BY ONLY <2>3, <1>12
<1>14. SnapshotOf(books, number) = Numbered(all)
  <2> HIDE DEF n
  <2> QED
    BY <1>1, <1>7, <1>11, <1>12, SnapshotIsFramed DEF Framed
<1>15. Numbered(all)[1].me_market_update_ = first
  BY ONLY <1>13 DEF Numbered
<1> QED
  BY <1>0, <1>11, <1>14, <1>15 DEF Marker
----------------------------------------------------------------------------
(* Queues.                                                                 *)

LEMMA Quotient ==
    ASSUME NEW a \in Nat, NEW c \in Nat \ {0}
    PROVE  /\ c * (a \div c) \in 0 .. a
           /\ a < c => c * (a \div c) = 0
           /\ a >= c => c * (a \div c) >= c
<1>1. PICK q : q = a \div c
  OBVIOUS
<1>2. q \in Nat /\ c * q <= a /\ (a < c => q = 0) /\ (a >= c => q >= 1)
  BY <1>1
<1>3. c * q \in Nat /\ (q >= 1 => c * q >= c) /\ (q = 0 => c * q = 0)
  BY <1>2
<1> QED
  BY ONLY <1>1, <1>2, <1>3

\* The queue q after ms: with room for them the messages queue up; without, a place
\* has a message that came later, the first one certainly.
Enqueued(S, queue, ms, capacity, q) ==
    /\ q \in Seq(S)
    /\ Len(q) = Len(queue) + Len(ms)
    /\ Len(queue) + Len(ms) <= capacity => q = queue \o ms
    /\ \A i \in 1 .. Len(queue) + Len(ms) : \E j \in i .. Len(queue) + Len(ms) :
          /\ q[i] = (queue \o ms)[j]
          /\ Len(queue) + Len(ms) >= i + capacity => j >= i + capacity

LEMMA EnqueueIs ==
    ASSUME NEW S, NEW queue \in Seq(S), NEW ms \in Seq(S), NEW capacity \in Nat \ {0}
    PROVE  Enqueued(S, queue, ms, capacity, Publisher!Enqueue(queue, capacity, ms))
<1>1. PICK all, L : all = queue \o ms /\ L = Len(queue) + Len(ms)
  OBVIOUS
<1>2. all \in Seq(S) /\ Len(all) = L /\ L \in Nat /\ DOMAIN all = 1 .. L
  BY <1>1
<1> DEFINE place(i) == i + capacity * ((L - i) \div capacity)
<1>3. ASSUME NEW i \in 1 .. L
      PROVE  /\ place(i) \in i .. L
             /\ L < i + capacity => place(i) = i
             /\ L >= i + capacity => place(i) >= i + capacity
  <2>1. PICK a : a = L - i
    OBVIOUS
  <2>2. a \in Nat
    BY <1>2, <2>1
  <2>3. PICK b : b = capacity * (a \div capacity)
    OBVIOUS
  <2>4. b \in 0 .. a /\ (a < capacity => b = 0) /\ (a >= capacity => b >= capacity)
    BY <2>2, <2>3, Quotient
  <2>5. place(i) = i + b
    BY <2>1, <2>3
  <2> HIDE DEF place
  <2> QED
    BY <1>2, <2>1, <2>2, <2>4, <2>5
<1>4. PICK q : q = Publisher!Enqueue(queue, capacity, ms)
  OBVIOUS
<1>5. q = [i \in 1 .. L |-> all[place(i)]]
  BY <1>1, <1>2, <1>4 DEF Publisher!Enqueue
<1> HIDE DEF place
<1>6. q \in Seq(S) /\ Len(q) = L /\ \A i \in 1 .. L : q[i] = all[place(i)]
  <2>1. \A i \in 1 .. L : all[place(i)] \in S
    <3>1. \A i \in 1 .. L : place(i) \in 1 .. L
      BY <1>2, <1>3
    <3> QED
      BY <1>2, <3>1
  <2>2. q \in [1 .. L -> S]
    BY <1>5, <2>1
  <2> QED
    BY <1>2, <1>5, <2>2
<1>7. L <= capacity => q = all
  <2>1. ASSUME L <= capacity, NEW i \in 1 .. L PROVE q[i] = all[i]
    <3>1. place(i) = i
      BY <1>2, <1>3, <2>1
    <3> QED
      BY <1>6, <3>1
  <2>2. q = [i \in 1 .. L |-> q[i]] /\ all = [i \in 1 .. L |-> all[i]]
    BY <1>2, <1>5
  <2> QED
    BY <2>1, <2>2
<1>8. ASSUME NEW i \in 1 .. L
      PROVE  \E j \in i .. L : q[i] = all[j] /\ (L >= i + capacity => j >= i + capacity)
  BY <1>3, <1>6
<1> QED
  BY <1>1, <1>4, <1>6, <1>7, <1>8 DEF Enqueued

\* The message an update leaves the engine as.
AsMessage(u) ==
    [type_ |-> u.type_, order_id_ |-> u.order_id_, side_ |-> u.side_, price_ |-> u.price_,
     qty_ |-> u.qty_, priority_ |-> u.priority_, ticker_id_ |-> Ticker]
----------------------------------------------------------------------------
(* The engine's updates fit the orders they find.                          *)

\* Updates ms, sent in a step, take the feed from the orders of the book before the
\* step to those after it.
Continued(T, h, ms, n2) ==
    \E g : /\ History(T \o ms, g) /\ IdsBelow(T \o ms, g, n2)
           /\ \A k \in 0 .. Len(T) : g[k] = h[k]
           /\ Shows(g[Len(T) + Len(ms)])'

TermsTyped ==
    \A id \in BookProofs!LiveOrders :
        /\ id \in Nat /\ order_pool_[id].side_ \in BookProofs!Sides /\ order_pool_[id].price_ \in Nat
        /\ order_pool_[id].qty_ \in Nat /\ order_pool_[id].priority_ \in Nat

LEMMA LiveOrderTerms == BookProofs!IInv => TermsTyped
<1> SUFFICES ASSUME BookProofs!IInv, NEW id \in BookProofs!LiveOrders
    PROVE  /\ id \in Nat /\ order_pool_[id].side_ \in BookProofs!Sides /\ order_pool_[id].price_ \in Nat
           /\ order_pool_[id].qty_ \in Nat /\ order_pool_[id].priority_ \in Nat
  BY DEF TermsTyped
<1>1. order_pool_[id] \in BookProofs!Order \cup {BookProofs!FreeOrder} /\ id \in BookProofs!OrderIds
  BY DEF BookProofs!IInv, BookProofs!TypeOK, BookProofs!LiveOrders
<1>2. order_pool_[id] \in BookProofs!Order
  BY <1>1 DEF BookProofs!LiveOrders, BookProofs!FreeOrder
<1>3. id \in Nat
  BY <1>1 DEF BookProofs!OrderIds
<1>4. Prices \subseteq Nat
  BY ExchangeFeedAssumption
<1> HIDE DEF BookProofs!LiveOrders
<1> QED
  BY <1>2, <1>3, <1>4 DEF BookProofs!Order

LEMMA TermsTypedAfter == (BookProofs!IInv => TermsTyped)'
BY LiveOrderTerms, PTL

LEMMA RemovalFits ==
    ASSUME BookProofs!IInv, NEW x \in Orders, Shows(x), NEW id, NEW u, BookProofs!RemovalTold(id, u)
    PROVE  /\ AsMessage(u) \in Message /\ AsMessage(u).order_id_ = id /\ Fits(x, AsMessage(u))
           /\ \A after : Effect(x, AsMessage(u), after) => Shows(after)'
<1>1. PICK qty \in Nat, priority \in Nat :
        u = BookProofs!Update("CANCEL", id, order_pool_[id].side_, order_pool_[id].price_, qty, priority)
  BY DEF BookProofs!RemovalTold
<1>2. PICK m : m = AsMessage(u)
  OBVIOUS
<1>3. /\ m.type_ = "CANCEL" /\ m.order_id_ = id /\ m.side_ = order_pool_[id].side_
      /\ m.price_ = order_pool_[id].price_ /\ m.qty_ = qty /\ m.priority_ = priority
      /\ m.ticker_id_ = Ticker
  BY ONLY <1>1, <1>2 DEF BookProofs!Update, AsMessage
<1>4. id \in BookProofs!LiveOrders /\ id \in Nat /\ id \in Live(x)
  BY LiveOrderTerms DEF TermsTyped, BookProofs!RemovalTold, Shows
<1>5. m \in Message
  <2>1. order_pool_[id].side_ \in BookProofs!Sides /\ order_pool_[id].price_ \in Nat
    BY <1>4, LiveOrderTerms DEF TermsTyped
  <2> QED
    BY <1>2, <1>3, <1>4, <2>1 DEF Message, AsMessage
<1>6. Fits(x, m)
  BY <1>3, <1>4 DEF Fits, AsExpected, Live, Shows
<1>7. ASSUME NEW after, Effect(x, m, after) PROVE Shows(after)'
  <2>1. after \in Orders /\ after[id] = NoOrder /\ \A o \in Nat \ {id} : after[o] = x[o]
    BY <1>3, <1>7 DEF Effect
  <2>2. Live(after) = Live(x) \ {id}
    BY <1>4, <2>1 DEF Live
  <2>3. /\ BookProofs!LiveOrders' = BookProofs!LiveOrders \ {id}
        /\ BookProofs!Untouched(BookProofs!LiveOrders \ {id})
    BY DEF BookProofs!RemovalTold
  <2>4. Live(x) = BookProofs!LiveOrders
    BY DEF Shows
  <2>5. Live(after) = BookProofs!LiveOrders'
    BY <2>2, <2>3, <2>4
  <2>6. ASSUME NEW o \in Live(after)
        PROVE  /\ after[o].side_ = order_pool_'[o].side_
               /\ after[o].price_ = order_pool_'[o].price_
               /\ after[o].qty_ = order_pool_'[o].qty_
               /\ after[o].priority_ = order_pool_'[o].priority_
    <3>1. o \in Live(x) \ {id} /\ o \in Nat
      BY <2>2 DEF Live
    <3>2. after[o] = x[o]
      BY <2>1, <3>1
    <3> QED
      BY <2>3, <2>4, <3>1, <3>2 DEF BookProofs!Untouched, Shows
  <2> QED
    BY <2>5, <2>6 DEF Shows
<1> QED
  BY <1>2, <1>3, <1>5, <1>6, <1>7

LEMMA ReductionFits ==
    ASSUME BookProofs!IInv, BookProofs!IInv', NEW x \in Orders, Shows(x), NEW id, NEW u,
           BookProofs!ReductionTold(id, u)
    PROVE  /\ AsMessage(u) \in Message /\ AsMessage(u).order_id_ = id /\ Fits(x, AsMessage(u))
           /\ \A after : Effect(x, AsMessage(u), after) => Shows(after)'
<1>1. u = BookProofs!Update("MODIFY", id, order_pool_[id].side_, order_pool_[id].price_,
                            order_pool_'[id].qty_, order_pool_[id].priority_)
  BY DEF BookProofs!ReductionTold
<1>2. PICK m : m = AsMessage(u)
  OBVIOUS
<1>3. /\ m.type_ = "MODIFY" /\ m.order_id_ = id /\ m.side_ = order_pool_[id].side_
      /\ m.price_ = order_pool_[id].price_ /\ m.qty_ = order_pool_'[id].qty_
      /\ m.priority_ = order_pool_[id].priority_ /\ m.ticker_id_ = Ticker
  BY ONLY <1>1, <1>2 DEF BookProofs!Update, AsMessage
<1>4. id \in BookProofs!LiveOrders /\ id \in Nat /\ id \in Live(x)
      /\ BookProofs!LiveOrders' = BookProofs!LiveOrders
  BY LiveOrderTerms DEF TermsTyped, BookProofs!ReductionTold, Shows
<1>5. m \in Message
  <2>1. order_pool_[id].side_ \in BookProofs!Sides /\ order_pool_[id].price_ \in Nat
        /\ order_pool_[id].priority_ \in Nat
    BY <1>4, LiveOrderTerms DEF TermsTyped
  <2>2. order_pool_'[id].qty_ \in Nat
    BY <1>4, TermsTypedAfter DEF TermsTyped, BookProofs!Sides
  <2> QED
    BY <1>2, <1>3, <1>4, <2>1, <2>2 DEF Message, AsMessage
<1>6. Fits(x, m)
  BY <1>3, <1>4 DEF Fits, AsExpected, Live, Shows
<1>7. ASSUME NEW after, Effect(x, m, after) PROVE Shows(after)'
  <2>1. after \in Orders /\ \A o \in Nat \ {id} : after[o] = x[o]
    BY <1>3, <1>7 DEF Effect
  <2>2. x[id] \in Kept /\ after[id] = [x[id] EXCEPT !.qty_ = m.qty_, !.price_ = m.price_]
    BY <1>3, <1>7 DEF Effect
  <2>3. /\ after[id].type_ = "ADD" /\ after[id].side_ = x[id].side_ /\ after[id].price_ = m.price_
        /\ after[id].qty_ = m.qty_ /\ after[id].priority_ = x[id].priority_
    BY ONLY <2>2 DEF Kept
  <2>4. after[id] # NoOrder
    BY <2>3 DEF NoOrder
  <2>5. Live(after) = Live(x)
    BY <1>4, <2>1, <2>4 DEF Live
  <2>6. Live(after) = BookProofs!LiveOrders'
    BY <1>4, <2>5 DEF Shows
  <2>7. ASSUME NEW o \in Live(after)
        PROVE  /\ after[o].side_ = order_pool_'[o].side_
               /\ after[o].price_ = order_pool_'[o].price_
               /\ after[o].qty_ = order_pool_'[o].qty_
               /\ after[o].priority_ = order_pool_'[o].priority_
    <3>1. CASE o = id
      <4>1. x[id].side_ = order_pool_[id].side_ /\ x[id].priority_ = order_pool_[id].priority_
        BY <1>4 DEF Shows
      <4>2. /\ order_pool_'[id].side_ = order_pool_[id].side_
            /\ order_pool_'[id].price_ = order_pool_[id].price_
            /\ order_pool_'[id].priority_ = order_pool_[id].priority_
        BY DEF BookProofs!ReductionTold
      <4> QED
        BY <1>3, <2>3, <3>1, <4>1, <4>2
    <3>2. CASE o # id
      <4>1. o \in Live(x) /\ o \in Nat \ {id} /\ o \in BookProofs!LiveOrders \ {id}
        BY <2>5, <3>2 DEF Live, Shows
      <4>2. after[o] = x[o]
        BY <2>1, <4>1
      <4>3. BookProofs!Untouched(BookProofs!LiveOrders \ {id})
        BY DEF BookProofs!ReductionTold
      <4> QED
        BY <4>1, <4>2, <4>3 DEF BookProofs!Untouched, Shows
    <3> QED
      BY <3>1, <3>2
  <2> QED
    BY <2>6, <2>7 DEF Shows
<1> QED
  BY <1>2, <1>3, <1>5, <1>6, <1>7

LEMMA AdditionFits ==
    ASSUME BookProofs!IInv, BookProofs!IInv', NEW x \in Orders, Shows(x), NEW id, NEW u,
           BookProofs!AdditionTold(id, u)
    PROVE  /\ AsMessage(u) \in Message /\ AsMessage(u).order_id_ = id /\ Fits(x, AsMessage(u))
           /\ \A after : Effect(x, AsMessage(u), after) => Shows(after)'
<1>1. u = BookProofs!Update("ADD", id, order_pool_'[id].side_, order_pool_'[id].price_,
                            order_pool_'[id].qty_, order_pool_'[id].priority_)
  BY DEF BookProofs!AdditionTold
<1>2. PICK m : m = AsMessage(u)
  OBVIOUS
<1>3. /\ m.type_ = "ADD" /\ m.order_id_ = id /\ m.side_ = order_pool_'[id].side_
      /\ m.price_ = order_pool_'[id].price_ /\ m.qty_ = order_pool_'[id].qty_
      /\ m.priority_ = order_pool_'[id].priority_ /\ m.ticker_id_ = Ticker
  BY ONLY <1>1, <1>2 DEF BookProofs!Update, AsMessage
<1>4. /\ id \notin BookProofs!LiveOrders /\ Live(x) = BookProofs!LiveOrders
      /\ BookProofs!LiveOrders' = BookProofs!LiveOrders \cup {id}
      /\ BookProofs!Untouched(BookProofs!LiveOrders)
      /\ Cardinality(Live(x)) + 1 # ME_MAX_ORDER_IDS
  BY SameCardinality DEF BookProofs!AdditionTold, Shows
<1>5. /\ id \in Nat /\ order_pool_'[id].side_ \in BookProofs!Sides /\ order_pool_'[id].price_ \in Nat
      /\ order_pool_'[id].qty_ \in Nat /\ order_pool_'[id].priority_ \in Nat
  BY <1>4, TermsTypedAfter DEF TermsTyped, BookProofs!Sides
<1>6. m \in Message
  BY <1>2, <1>3, <1>5 DEF Message, AsMessage
<1>7. Fits(x, m)
  <2>1. x[id] = NoOrder
    BY <1>4, <1>5 DEF Live
  <2> QED
    BY <1>3, <1>4, <2>1 DEF Fits, AsExpected
<1>8. ASSUME NEW after, Effect(x, m, after) PROVE Shows(after)'
  <2>1. after \in Orders /\ after[id] = m /\ \A o \in Nat \ {id} : after[o] = x[o]
    BY <1>3, <1>8 DEF Effect
  <2>2. m # NoOrder
    BY <1>3 DEF NoOrder
  <2>3. Live(after) = Live(x) \cup {id}
    BY <1>5, <2>1, <2>2 DEF Live
  <2>4. Live(after) = BookProofs!LiveOrders'
    BY <1>4, <2>3
  <2>5. ASSUME NEW o \in Live(after)
        PROVE  /\ after[o].side_ = order_pool_'[o].side_
               /\ after[o].price_ = order_pool_'[o].price_
               /\ after[o].qty_ = order_pool_'[o].qty_
               /\ after[o].priority_ = order_pool_'[o].priority_
    <3>1. CASE o = id
      BY <1>3, <2>1, <3>1
    <3>2. CASE o # id
      <4>1. o \in Live(x) /\ o \in Nat \ {id}
        BY <2>3, <3>2 DEF Live
      <4>2. after[o] = x[o]
        BY <2>1, <4>1
      <4> QED
        BY <1>4, <4>1, <4>2 DEF BookProofs!Untouched, Shows
    <3> QED
      BY <3>1, <3>2
  <2> QED
    BY <2>4, <2>5 DEF Shows
<1> QED
  BY <1>2, <1>3, <1>6, <1>7, <1>8

LEMMA ContinuedByNone ==
    ASSUME NEW T, NEW h, History(T, h), NEW n \in Nat, IdsBelow(T, h, n), NEW n2 \in Nat, n <= n2,
           Shows(h[Len(T)])'
    PROVE  Continued(T, h, <<>>, n2)
<1>1. Len(T) \in Nat /\ T \in Seq(Message)
  BY HistoryTypes DEF History
<1>2. T \o <<>> = T /\ Len(T) + Len(<<>>) = Len(T)
  BY ONLY <1>1
<1>3. IdsBelow(T, h, n2)
  <2>1. 1 .. n - 1 \subseteq 1 .. n2 - 1
    OBVIOUS
  <2> QED
    BY <2>1 DEF IdsBelow
<1>4. Shows(h[Len(T) + Len(<<>>)])'
  BY <1>2
<1> QED
  BY <1>2, <1>3, <1>4 DEF Continued

LEMMA ContinuedByOne ==
    ASSUME NEW T, NEW h, History(T, h), NEW n \in Nat, IdsBelow(T, h, n), NEW n2 \in Nat, n <= n2,
           NEW m \in Message, Fits(h[Len(T)], m), Changes(m) => m.order_id_ \in 1 .. n2 - 1,
           \A after : Effect(h[Len(T)], m, after) => Shows(after)'
    PROVE  Continued(T, h, <<m>>, n2)
<1>1. PICK g : /\ History(Append(T, m), g) /\ IdsBelow(Append(T, m), g, n2)
               /\ \A k \in 0 .. Len(T) : g[k] = h[k]
               /\ Effect(h[Len(T)], m, g[Len(T) + 1])
  BY HistoryExtended
<1>2. T \in Seq(Message)
  BY DEF History
<1>3. T \o <<m>> = Append(T, m) /\ Len(<<m>>) = 1
  BY ONLY <1>2, m \in Message
<1>4. Shows(g[Len(T) + Len(<<m>>)])'
  <2>1. PICK after : after = g[Len(T) + 1]
    OBVIOUS
  <2>2. Shows(after)'
    BY <1>1, <2>1
  <2> QED
    BY <1>3, <2>1, <2>2
<1> QED
  BY <1>1, <1>3, <1>4 DEF Continued

\* A TRADE before it changes nothing.
LEMMA ContinuedByTwo ==
    ASSUME NEW T, NEW h, History(T, h), NEW n \in Nat, IdsBelow(T, h, n), NEW n2 \in Nat, n <= n2,
           NEW m0 \in Message, m0.type_ = "TRADE",
           NEW m \in Message, Fits(h[Len(T)], m), Changes(m) => m.order_id_ \in 1 .. n2 - 1,
           \A after : Effect(h[Len(T)], m, after) => Shows(after)'
    PROVE  Continued(T, h, <<m0, m>>, n2)
<1>1. Fits(h[Len(T)], m0) /\ ~Changes(m0)
  BY DEF Fits, AsExpected, Changes
<1>2. PICK g : /\ History(Append(T, m0), g) /\ IdsBelow(Append(T, m0), g, n)
               /\ \A k \in 0 .. Len(T) : g[k] = h[k]
               /\ Effect(h[Len(T)], m0, g[Len(T) + 1])
  BY <1>1, HistoryExtended
<1>3. T \in Seq(Message) /\ Len(T) \in Nat
  BY HistoryTypes DEF History
<1>4. Append(T, m0) \o <<m>> = T \o <<m0, m>> /\ Len(Append(T, m0)) = Len(T) + 1
      /\ Len(<<m>>) = 1 /\ Len(<<m0, m>>) = 2
  BY ONLY <1>3, m \in Message, m0 \in Message
<1>5. g[Len(T) + 1] = h[Len(T)]
  BY <1>2 DEF Effect
<1>6. PICK U, x : U = Append(T, m0) /\ x = h[Len(T)]
  OBVIOUS
<1>7. g[Len(U)] = x /\ Fits(x, m) /\ \A after : Effect(x, m, after) => Shows(after)'
  BY <1>4, <1>5, <1>6
<1>8. Continued(U, g, <<m>>, n2)
  <2>1. Fits(g[Len(U)], m) /\ \A after : Effect(g[Len(U)], m, after) => Shows(after)'
    BY <1>7
  <2> QED
    BY <1>2, <1>6, <2>1, ContinuedByOne
<1>9. PICK f : /\ History(U \o <<m>>, f) /\ IdsBelow(U \o <<m>>, f, n2)
               /\ \A k \in 0 .. Len(U) : f[k] = g[k]
               /\ Shows(f[Len(U) + Len(<<m>>)])'
  BY <1>8 DEF Continued
<1>10. \A k \in 0 .. Len(T) : f[k] = h[k]
  BY <1>2, <1>3, <1>4, <1>6, <1>9
<1>11. Len(U) + Len(<<m>>) = Len(T) + Len(<<m0, m>>)
  BY <1>3, <1>4, <1>6
<1>12. U \o <<m>> = T \o <<m0, m>>
  BY <1>4, <1>6
<1> QED
  BY <1>9, <1>10, <1>11, <1>12 DEF Continued

LEMMA SentOne ==
    ASSUME NEW u, updates' = <<u>>, NEW type, NEW id, NEW side, NEW price, NEW qty, NEW priority,
           u = BookProofs!Update(type, id, side, price, qty, priority)
    PROVE  Sent' = <<AsMessage(u)>>
<1>1. PICK m : m = [f \in DOMAIN u \cup {"ticker_id_"} |-> IF f = "ticker_id_" THEN Ticker ELSE u[f]]
  OBVIOUS
<1>2. m = AsMessage(u)
  BY ONLY <1>1, u = BookProofs!Update(type, id, side, price, qty, priority)
     DEF BookProofs!Update, AsMessage
<1>3. Sent' = [i \in DOMAIN updates' |->
                  [f \in DOMAIN updates'[i] \cup {"ticker_id_"} |->
                      IF f = "ticker_id_" THEN Ticker ELSE updates'[i][f]]]
  BY DEF Sent, Ticker
<1>4. DOMAIN updates' = 1 .. 1 /\ updates'[1] = u
  OBVIOUS
<1>5. Sent' = [i \in 1 .. 1 |-> m]
  BY <1>1, <1>3, <1>4
<1> QED
  BY <1>2, <1>5

LEMMA SentTwo ==
    ASSUME NEW t, NEW u, updates' = <<t, u>>, NEW type, NEW id, NEW side, NEW price, NEW qty,
           NEW priority, u = BookProofs!Update(type, id, side, price, qty, priority),
           BookProofs!TradeTold(t)
    PROVE  /\ Sent' = <<AsMessage(t), AsMessage(u)>>
           /\ AsMessage(t) \in Message /\ AsMessage(t).type_ = "TRADE"
<1>1. PICK side2 \in BookProofs!Sides, price2 \in Nat, qty2 \in Nat :
        t = BookProofs!Update("TRADE", BookProofs!Null, side2, price2, qty2, 0)
  BY DEF BookProofs!TradeTold
<1>2. PICK m0 : m0 = [f \in DOMAIN t \cup {"ticker_id_"} |-> IF f = "ticker_id_" THEN Ticker ELSE t[f]]
  OBVIOUS
<1>3. PICK m : m = [f \in DOMAIN u \cup {"ticker_id_"} |-> IF f = "ticker_id_" THEN Ticker ELSE u[f]]
  OBVIOUS
<1>4. m = AsMessage(u)
  BY ONLY <1>3, u = BookProofs!Update(type, id, side, price, qty, priority)
     DEF BookProofs!Update, AsMessage
<1>5. m0 = AsMessage(t)
  BY ONLY <1>1, <1>2 DEF BookProofs!Update, AsMessage
<1>6. Sent' = [i \in DOMAIN updates' |->
                  [f \in DOMAIN updates'[i] \cup {"ticker_id_"} |->
                      IF f = "ticker_id_" THEN Ticker ELSE updates'[i][f]]]
  BY DEF Sent, Ticker
<1>7. DOMAIN updates' = 1 .. 2 /\ updates'[1] = t /\ updates'[2] = u
  OBVIOUS
<1>8. Sent' = [i \in 1 .. 2 |-> IF i = 1 THEN m0 ELSE m]
  BY <1>2, <1>3, <1>6, <1>7
<1>9. Sent' = <<m0, m>>
  BY <1>8
<1>10. m0 \in Message /\ m0.type_ = "TRADE"
  <2>1. /\ m0.type_ = "TRADE" /\ m0.order_id_ = 0 /\ m0.side_ = side2 /\ m0.price_ = price2
        /\ m0.qty_ = qty2 /\ m0.priority_ = 0 /\ m0.ticker_id_ = Ticker
    BY ONLY <1>1, <1>5 DEF BookProofs!Update, AsMessage, BookProofs!Null
  <2> QED
    BY <1>5, <2>1 DEF Message, AsMessage
<1> QED
  BY <1>4, <1>5, <1>9, <1>10

LEMMA IdsGrow ==
    ASSUME BookProofs!IInv, Book!Next
    PROVE  /\ next_market_order_id_ \in Nat /\ next_market_order_id_' \in Nat
           /\ next_market_order_id_ <= next_market_order_id_'
<1>1. next_market_order_id_ \in Nat
  <2>1. next_market_order_id_ \in 1 .. MaxOrderId + 1
    BY DEF BookProofs!IInv, BookProofs!TypeOK
  <2> QED
    BY <2>1, ExchangeFeedAssumption
<1>2. next_market_order_id_' = next_market_order_id_ \/ next_market_order_id_' = next_market_order_id_ + 1
  BY DEF Book!Next, Book!Add, Book!Accept, Book!Proceed, Book!Match, Book!Rest, Book!RunOutOfSpace,
         Book!Done, Book!Cancel, Book!CancelLive, Book!CancelUnknown
<1> QED
  BY <1>1, <1>2

LEMMA EngineContinues ==
    ASSUME BookProofs!NoAliasing, BookProofs!IInv, BookProofs!IInv', Book!Next,
           NEW T, NEW h, History(T, h), IdsBelow(T, h, next_market_order_id_), Shows(h[Len(T)])
    PROVE  \E ms \in Seq(Message) : /\ Sent' = ms /\ Len(ms) = Len(updates')
                                    /\ Continued(T, h, ms, next_market_order_id_')
<1>1. PICK n, n2 : n = next_market_order_id_ /\ n2 = next_market_order_id_'
  OBVIOUS
<1>2. n \in Nat /\ n2 \in Nat /\ n <= n2
  BY <1>1, IdsGrow
<1>3. PICK x : x = h[Len(T)]
  OBVIOUS
<1>4. x \in Orders /\ Shows(x) /\ Live(x) \subseteq 1 .. n - 1 /\ Live(x) = BookProofs!LiveOrders
  <2>1. Len(T) \in 0 .. Len(T)
    BY HistoryTypes
  <2> QED
    BY <1>1, <1>3, <2>1, HistoryTypes DEF IdsBelow, Shows
<1>5. BookProofs!UpdatesTell
  BY BookStep, BookProofs!StepTells, ExchangeFeedAssumption
<1>6. CASE updates' = <<>> /\ BookProofs!LiveOrders' = BookProofs!LiveOrders
           /\ BookProofs!Untouched(BookProofs!LiveOrders)
  <2>1. Shows(x)'
    BY <1>4, <1>6 DEF Shows, BookProofs!Untouched
  <2>2. Continued(T, h, <<>>, n2)
    <3>1. Shows(h[Len(T)])'
      BY <1>3, <2>1
    <3> QED
      BY <1>1, <1>2, <3>1, ContinuedByNone
  <2>3. Sent' = <<>>
    BY <1>6 DEF Sent
  <2>4. <<>> \in Seq(Message) /\ Len(<<>>) = Len(updates')
    BY <1>6
  <2> QED
    BY <1>1, <2>2, <2>3, <2>4
<1>7. ASSUME NEW id, NEW u, updates' = <<u>>,
             BookProofs!RemovalTold(id, u) \/ BookProofs!AdditionTold(id, u)
      PROVE  \E ms \in Seq(Message) : Sent' = ms /\ Len(ms) = Len(updates') /\ Continued(T, h, ms, n2)
  <2>1. PICK m : m = AsMessage(u)
    OBVIOUS
  <2>2. /\ m \in Message /\ m.order_id_ = id /\ Fits(x, m)
        /\ \A after : Effect(x, m, after) => Shows(after)'
    BY <1>4, <1>7, <2>1, RemovalFits, AdditionFits
  <2>3. id \in 1 .. n2 - 1
    <3>1. CASE BookProofs!RemovalTold(id, u)
      <4>1. id \in 1 .. n - 1
        BY <1>4, <3>1 DEF BookProofs!RemovalTold
      <4> QED
        BY <1>2, <4>1
    <3>2. CASE BookProofs!AdditionTold(id, u)
      <4>1. id < n /\ id \in BookProofs!LiveOrders'
        BY <1>1, <3>2 DEF BookProofs!AdditionTold
      <4>2. id \in BookProofs!OrderIds
        BY <4>1 DEF BookProofs!LiveOrders, BookProofs!OrderIds
      <4>3. id \in 1 .. MaxOrderId
        BY <4>2 DEF BookProofs!OrderIds
      <4> QED
        BY <1>2, <4>1, <4>3, ExchangeFeedAssumption
    <3> QED
      BY <1>7, <3>1, <3>2
  <2>4. Continued(T, h, <<m>>, n2)
    <3>1. Fits(h[Len(T)], m) /\ \A after : Effect(h[Len(T)], m, after) => Shows(after)'
      BY <1>3, <2>2
    <3> QED
      BY <1>1, <1>2, <2>2, <2>3, <3>1, ContinuedByOne
  <2>5. Sent' = <<m>>
    BY <1>7, <2>1, SentOne DEF BookProofs!RemovalTold, BookProofs!AdditionTold
  <2>6. <<m>> \in Seq(Message) /\ Len(<<m>>) = Len(updates')
    BY <1>7, <2>2
  <2> QED
    BY <2>4, <2>5, <2>6
<1>8. ASSUME NEW id, NEW t, NEW u, updates' = <<t, u>>, BookProofs!TradeTold(t),
             BookProofs!RemovalTold(id, u) \/ BookProofs!ReductionTold(id, u)
      PROVE  \E ms \in Seq(Message) : Sent' = ms /\ Len(ms) = Len(updates') /\ Continued(T, h, ms, n2)
  <2>1. PICK m, m0 : m = AsMessage(u) /\ m0 = AsMessage(t)
    OBVIOUS
  <2>2. /\ m \in Message /\ m.order_id_ = id /\ Fits(x, m)
        /\ \A after : Effect(x, m, after) => Shows(after)'
    BY <1>4, <1>8, <2>1, RemovalFits, ReductionFits
  <2>3. id \in 1 .. n2 - 1
    <3>1. id \in 1 .. n - 1
      BY <1>4, <1>8 DEF BookProofs!RemovalTold, BookProofs!ReductionTold
    <3> QED
      BY <1>2, <3>1
  <2>4. Sent' = <<m0, m>> /\ m0 \in Message /\ m0.type_ = "TRADE"
    BY <1>8, <2>1, SentTwo DEF BookProofs!RemovalTold, BookProofs!ReductionTold
  <2>5. Continued(T, h, <<m0, m>>, n2)
    <3>1. Fits(h[Len(T)], m) /\ \A after : Effect(h[Len(T)], m, after) => Shows(after)'
      BY <1>3, <2>2
    <3> QED
      BY <1>1, <1>2, <2>2, <2>3, <2>4, <3>1, ContinuedByTwo
  <2>6. <<m0, m>> \in Seq(Message) /\ Len(<<m0, m>>) = Len(updates')
    BY <1>8, <2>2, <2>4
  <2> QED
    BY <2>4, <2>5, <2>6
<1> QED
  BY <1>1, <1>5, <1>6, <1>7, <1>8 DEF BookProofs!UpdatesTell
----------------------------------------------------------------------------
(* The invariant.                                                          *)

LEMMA InitFInv == Init => FInv
<1> SUFFICES ASSUME Init PROVE FInv
  OBVIOUS
<1>1. BookProofs!IInv
  BY BookInit, BookProofs!InitIInv, ExchangeFeedAssumption DEF Init
<1>2. PICK x : x = [o \in Nat |-> NoOrder]
  OBVIOUS
<1>3. x \in Orders /\ Live(x) = {}
  BY <1>2 DEF Orders, Live
<1>4. PICK T, h : T = <<>> /\ h = [k \in 0 .. 0 |-> x]
  OBVIOUS
<1>5. T \in Seq(Message) /\ Len(T) = 0 /\ h[0] = x
  BY <1>4
<1>6. History(T, h)
  <2>1. h \in [0 .. Len(T) -> Orders]
    BY <1>3, <1>4, <1>5
  <2> QED
    BY <1>2, <1>5, <2>1 DEF History
<1>7. IdsBelow(T, h, next_market_order_id_)
  BY <1>3, <1>5 DEF IdsBelow
<1>8. Shows(h[Len(T)])
  <2>1. BookProofs!LiveOrders = {}
    BY DEF Init, Book!Init, BookProofs!LiveOrders, Book!FreeOrder, BookProofs!OrderIds, Book!OrderIds
  <2> QED
    BY <1>3, <1>5, <2>1 DEF Shows
<1>9. PublisherOK(T)
  <2>1. /\ outgoing_md_updates_ = <<>> /\ released = FALSE /\ next_inc_seq_num_ = 1
        /\ incremental = <<>>
    BY DEF Init, Publisher!Init
  <2>2. incremental = [i \in 1 .. 0 |-> [seq_num_ |-> i, me_market_update_ |-> T[i]]]
    BY <2>1
  <2>3. next_inc_seq_num_ - (IF released THEN 0 ELSE 1) = 0
    BY <2>1
  <2>4. /\ outgoing_md_updates_ \in Seq(Message) /\ Len(outgoing_md_updates_) = 0
        /\ Len(outgoing_md_updates_) <= MaxOutgoing + (IF released THEN 1 ELSE 0)
    BY <2>1, ExchangeFeedAssumption
  <2>5. Len(T) = next_inc_seq_num_ - 1 + Len(outgoing_md_updates_)
    BY <1>5, <2>1
  <2>6. incremental = [i \in 1 .. next_inc_seq_num_ - (IF released THEN 0 ELSE 1) |->
                         [seq_num_ |-> i, me_market_update_ |-> T[i]]]
    BY ONLY <2>2, <2>3
  <2>7. \A i \in 1 .. Len(outgoing_md_updates_) : FALSE
    BY <2>4
  <2>8. released \in BOOLEAN /\ ~released
    BY <2>1, Zenon
  <2>9. next_inc_seq_num_ \in Nat \ {0}
    BY <2>1
  <2> QED
    BY ONLY <2>4, <2>5, <2>6, <2>7, <2>8, <2>9, Zenon DEF PublisherOK
<1>10. QueueOK(T)
  <2>1. snapshot_md_updates_ = <<>> /\ next_inc_seq_num_ = 1 /\ last_inc_seq_num_ = 0
    BY DEF Init, Publisher!Init, Synthesizer!Init
  <2>2. ~Overrun
    BY <2>1, ExchangeFeedAssumption DEF Overrun
  <2> QED
    BY <2>1, <2>2, ExchangeFeedAssumption DEF QueueOK
<1>11. CopyOK(h)
  <2>1. /\ last_inc_seq_num_ = 0 /\ snapshot = <<>>
        /\ ticker_orders_ = [t \in 0 .. ME_MAX_TICKERS - 1 |->
                               [o \in 0 .. ME_MAX_ORDER_IDS - 1 |-> NoOrder]]
    BY SameUpdates DEF Init, Synthesizer!Init, Synthesizer!Tickers, Synthesizer!OrderSlots
  <2>2. \A t : Row(x, ME_MAX_ORDER_IDS, t) = [o \in 0 .. ME_MAX_ORDER_IDS - 1 |-> NoOrder]
    BY <1>2, ExchangeFeedAssumption DEF Row
  <2>3. ticker_orders_ = Table(x, ME_MAX_ORDER_IDS)
    BY <2>1, <2>2 DEF Table
  <2> QED
    BY <1>3, <1>5, <2>1, <2>3 DEF CopyOK
<1>12. StatusOK
  BY DEF Init, Synthesizer!Init, StatusOK, StopsOnlyOverrunOrOutOfIds
<1>13. FeedOK(T, h)
  BY <1>6, <1>7, <1>8, <1>9, <1>10, <1>11, <1>12 DEF FeedOK
<1> QED
  BY <1>1, <1>13 DEF FInv

LEMMA Places ==
    ASSUME NEW T, NEW h, FeedOK(T, h)
    PROVE  /\ Len(T) \in Nat /\ next_inc_seq_num_ \in Nat /\ last_inc_seq_num_ \in Nat
           /\ 1 <= next_inc_seq_num_ /\ next_inc_seq_num_ - 1 <= Len(T)
           /\ last_inc_seq_num_ <= next_inc_seq_num_ - 1
           /\ Len(outgoing_md_updates_) \in Nat /\ Len(snapshot_md_updates_) \in Nat
           /\ Len(T) = next_inc_seq_num_ - 1 + Len(outgoing_md_updates_)
           /\ next_inc_seq_num_ = last_inc_seq_num_ + Len(snapshot_md_updates_) + 1
<1>1. Len(T) \in Nat
  BY HistoryTypes DEF FeedOK
<1>2. /\ next_inc_seq_num_ \in Nat \ {0} /\ Len(outgoing_md_updates_) \in Nat
      /\ Len(T) = next_inc_seq_num_ - 1 + Len(outgoing_md_updates_)
  BY DEF FeedOK, PublisherOK
<1>3. /\ last_inc_seq_num_ \in Nat /\ Len(snapshot_md_updates_) \in Nat
      /\ next_inc_seq_num_ = last_inc_seq_num_ + Len(snapshot_md_updates_) + 1
  BY DEF FeedOK, QueueOK
<1> QED
  BY <1>1, <1>2, <1>3

LEMMA EngineFInv ==
    ASSUME BookProofs!NoAliasing, HeldBack, FInv, EngineStep PROVE FInv'
<1>1. BookProofs!IInv /\ Book!Next
  BY DEF FInv, EngineStep
<1>2. BookProofs!IInv'
  BY <1>1, BookStep, BookProofs!NextIInv, ExchangeFeedAssumption
<1>3. PICK T, h : FeedOK(T, h)
  BY DEF FInv
<1>4. PICK ms \in Seq(Message) : /\ Sent' = ms /\ Len(ms) = Len(updates')
                                 /\ Continued(T, h, ms, next_market_order_id_')
  BY <1>1, <1>2, <1>3, EngineContinues DEF FeedOK
<1>5. PICK g : /\ History(T \o ms, g) /\ IdsBelow(T \o ms, g, next_market_order_id_')
               /\ \A k \in 0 .. Len(T) : g[k] = h[k]
               /\ Shows(g[Len(T) + Len(ms)])'
  BY <1>4 DEF Continued
<1>6. PICK U : U = T \o ms
  OBVIOUS
<1>7. /\ T \in Seq(Message) /\ Len(T) \in Nat /\ Len(ms) \in Nat
      /\ U \in Seq(Message) /\ Len(U) = Len(T) + Len(ms)
      /\ \A k \in 1 .. Len(T) : U[k] = T[k]
      /\ \A k \in 1 .. Len(ms) : U[Len(T) + k] = ms[k]
  <2>1. T \in Seq(Message)
    BY <1>3 DEF FeedOK, History
  <2> QED
    BY ONLY <1>6, <2>1, ms \in Seq(Message)
<1>8. PICK old, new : old = outgoing_md_updates_ /\ new = outgoing_md_updates_'
  OBVIOUS
<1>9. /\ new = Publisher!Enqueue(old, ME_MAX_MARKET_UPDATES, ms)
      /\ Len(old) - (IF released THEN 1 ELSE 0) + Len(ms) <= MaxOutgoing
      /\ UNCHANGED <<released, next_inc_seq_num_, incremental, snapshot_md_updates_>>
      /\ UNCHANGED synthesizerVars
  BY <1>4, <1>8 DEF EngineStep, Publisher!Receive, Publisher!Waiting
<1>10. old \in Seq(Message) /\ Len(old) \in Nat /\ released \in BOOLEAN /\ next_inc_seq_num_ \in Nat \ {0}
       /\ Len(T) = next_inc_seq_num_ - 1 + Len(old)
       /\ \A i \in 1 .. Len(old) : old[i] = T[next_inc_seq_num_ - 1 + i]
  BY <1>3, <1>8 DEF FeedOK, PublisherOK
<1>11. new = old \o ms
  <2>1. Len(old) + Len(ms) <= ME_MAX_MARKET_UPDATES
    <3>1. PICK r \in 0 .. 1 : r = IF released THEN 1 ELSE 0
      OBVIOUS
    <3> QED
      BY <1>7, <1>9, <1>10, <3>1, ExchangeFeedAssumption DEF HeldBack
  <2> QED
    BY <1>9, <1>10, <2>1, EnqueueIs, ExchangeFeedAssumption DEF Enqueued
<1>12. /\ new \in Seq(Message) /\ Len(new) = Len(old) + Len(ms)
       /\ \A i \in 1 .. Len(old) : new[i] = old[i]
       /\ \A i \in 1 .. Len(ms) : new[Len(old) + i] = ms[i]
  BY ONLY <1>10, <1>11, ms \in Seq(Message)
<1>13. PublisherOK(U)'
  <2>1. \A i \in 1 .. Len(new) : new[i] = U[next_inc_seq_num_ - 1 + i]
    <3> SUFFICES ASSUME NEW i \in 1 .. Len(new) PROVE new[i] = U[next_inc_seq_num_ - 1 + i]
      OBVIOUS
    <3>1. CASE i <= Len(old)
      <4>1. i \in 1 .. Len(old) /\ next_inc_seq_num_ - 1 + i \in 1 .. Len(T)
        BY <1>7, <1>10, <1>12, <3>1
      <4> QED
        BY <1>7, <1>10, <1>12, <4>1
    <3>2. CASE i > Len(old)
      <4>1. PICK k : k = i - Len(old)
        OBVIOUS
      <4>2. k \in 1 .. Len(ms) /\ i = Len(old) + k /\ next_inc_seq_num_ - 1 + i = Len(T) + k
        BY <1>7, <1>10, <1>12, <3>2, <4>1
      <4>3. new[Len(old) + k] = ms[k]
        BY <1>12, <4>2
      <4>4. U[Len(T) + k] = ms[k]
        BY <1>7, <4>2
      <4> QED
        BY ONLY <4>2, <4>3, <4>4
    <3> QED
      BY <1>10, <1>12, <3>1, <3>2
  <2>2. Len(new) <= MaxOutgoing + IF released THEN 1 ELSE 0
    BY <1>7, <1>9, <1>10, <1>12, ExchangeFeedAssumption
  <2>3. released => new # <<>>
    <3>1. released => Len(old) > 0
      BY <1>3, <1>8, <1>10 DEF FeedOK, PublisherOK
    <3> QED
      BY <1>7, <1>12, <3>1
  <2>4. incremental = [i \in 1 .. next_inc_seq_num_ - (IF released THEN 0 ELSE 1) |->
                         [seq_num_ |-> i, me_market_update_ |-> U[i]]]
    <3>1. PICK m : m = next_inc_seq_num_ - (IF released THEN 0 ELSE 1)
      OBVIOUS
    <3>2. incremental = [i \in 1 .. m |-> [seq_num_ |-> i, me_market_update_ |-> T[i]]]
      BY <1>3, <3>1 DEF FeedOK, PublisherOK
    <3>3. m \in Nat /\ m <= Len(T)
      <4>1. released => Len(old) > 0
        BY <1>3, <1>8, <1>10 DEF FeedOK, PublisherOK
      <4> QED
        BY <1>7, <1>10, <3>1, <4>1
    <3>4. \A i \in 1 .. m : U[i] = T[i]
      BY <1>7, <3>3
    <3> QED
      BY ONLY <3>1, <3>2, <3>4
  <2>5. Len(U) = next_inc_seq_num_ - 1 + Len(new)
    BY <1>7, <1>10, <1>12
  <2> QED
    BY <1>8, <1>9, <1>10, <1>12, <2>1, <2>2, <2>3, <2>4, <2>5 DEF PublisherOK
<1>14. last_inc_seq_num_ \in 0 .. Len(T)
       /\ \A i \in 1 .. Len(snapshot_md_updates_) : last_inc_seq_num_ + i \in 1 .. Len(T)
  BY <1>3, Places
<1>15. QueueOK(U)'
  <2>1. \A i \in 1 .. Len(snapshot_md_updates_) : U[last_inc_seq_num_ + i] = T[last_inc_seq_num_ + i]
    BY <1>7, <1>14
  <2>2. QueueOK(U)
    BY <1>3, <2>1 DEF FeedOK, QueueOK
  <2> QED
    BY <1>9, <2>2 DEF QueueOK, Overrun, synthesizerVars
<1>16. CopyOK(g)'
  <2>1. g[last_inc_seq_num_] = h[last_inc_seq_num_]
    BY <1>5, <1>14
  <2>2. CopyOK(g)
    BY <1>3, <2>1 DEF FeedOK, CopyOK
  <2> QED
    BY <1>9, <2>2 DEF CopyOK, synthesizerVars
<1>17. StatusOK'
  BY <1>9 DEF StatusOK, StopsOnlyOverrunOrOutOfIds, EngineStep, Running, synthesizerVars
<1>18. FeedOK(U, g)'
  BY <1>5, <1>6, <1>7, <1>13, <1>15, <1>16, <1>17 DEF FeedOK
<1> QED
  BY <1>2, <1>18 DEF FInv

LEMMA BookKept ==
    ASSUME BookProofs!NoAliasing, BookProofs!IInv, UNCHANGED bookVars
    PROVE  /\ BookProofs!IInv'
           /\ next_market_order_id_' = next_market_order_id_
           /\ \A x : Shows(x) => Shows(x)'
<1>1. UNCHANGED BookProofs!vars
  BY DEF bookVars, BookProofs!vars, BookProofs!book
<1>2. BookProofs!IInv'
  BY <1>1, BookProofs!NextIInv, ExchangeFeedAssumption
<1>3. BookProofs!LiveOrders' = BookProofs!LiveOrders /\ order_pool_' = order_pool_
  BY DEF bookVars, BookProofs!LiveOrders
<1> QED
  BY <1>2, <1>3 DEF Shows, bookVars

\* A step of another thread than the engine's.
LEMMA FeedKept ==
    ASSUME BookProofs!NoAliasing, FInv, UNCHANGED bookVars,
           \A T, h : FeedOK(T, h) => PublisherOK(T)' /\ QueueOK(T)' /\ CopyOK(h)' /\ StatusOK'
    PROVE  FInv'
<1>1. PICK T, h : FeedOK(T, h)
  BY DEF FInv
<1>2. /\ BookProofs!IInv' /\ next_market_order_id_' = next_market_order_id_
      /\ Shows(h[Len(T)])'
  <2>1. PICK x : x = h[Len(T)]
    OBVIOUS
  <2>2. Shows(x)
    BY <1>1, <2>1 DEF FeedOK
  <2>3. Shows(x)'
    BY <2>2, BookKept DEF FInv
  <2> QED
    BY <2>1, <2>3, BookKept DEF FInv
<1>3. FeedOK(T, h)'
  BY <1>1, <1>2 DEF FeedOK
<1> QED
  BY <1>2, <1>3 DEF FInv

LEMMA SendFInv ==
    ASSUME BookProofs!NoAliasing, FInv, Publisher!Send, UNCHANGED <<bookVars, synthesizerVars>>
    PROVE  FInv'
<1> SUFFICES ASSUME NEW T, NEW h, FeedOK(T, h)
             PROVE  PublisherOK(T)' /\ QueueOK(T)' /\ CopyOK(h)' /\ StatusOK'
  BY FeedKept
<1>1. PICK q, n : q = outgoing_md_updates_ /\ n = next_inc_seq_num_
  OBVIOUS
<1>2. /\ q # <<>> /\ ~released /\ released' = TRUE
      /\ incremental' = Append(incremental, [seq_num_ |-> n, me_market_update_ |-> Head(q)])
      /\ outgoing_md_updates_' = q /\ next_inc_seq_num_' = n
      /\ snapshot_md_updates_' = snapshot_md_updates_
  BY <1>1 DEF Publisher!Send
<1>3. /\ q \in Seq(Message) /\ n \in Nat \ {0}
      /\ Len(T) = n - 1 + Len(q)
      /\ Len(q) <= MaxOutgoing
      /\ \A i \in 1 .. Len(q) : q[i] = T[n - 1 + i]
      /\ incremental = [i \in 1 .. n - 1 |-> [seq_num_ |-> i, me_market_update_ |-> T[i]]]
  <2>1. Len(q) <= MaxOutgoing + 0
    BY <1>1, <1>2 DEF FeedOK, PublisherOK
  <2>2. q \in Seq(Message)
    BY <1>1 DEF FeedOK, PublisherOK
  <2>3. Len(q) <= MaxOutgoing
    BY <2>1, <2>2, ExchangeFeedAssumption
  <2> QED
    BY <1>1, <1>2, <2>3 DEF FeedOK, PublisherOK
<1>4. Head(q) = T[n] /\ Len(q) <= MaxOutgoing + 1
  <2>1. 1 \in 1 .. Len(q) /\ Head(q) = q[1]
    BY ONLY <1>2, <1>3
  <2>2. n - 1 + 1 = n
    BY <1>3
  <2> QED
    BY <1>3, <2>1, <2>2, ExchangeFeedAssumption
<1>5. incremental' = [i \in 1 .. n |-> [seq_num_ |-> i, me_market_update_ |-> T[i]]]
  <2> DEFINE Numbered2(i) == [seq_num_ |-> i, me_market_update_ |-> T[i]]
  <2>1. incremental = [i \in 1 .. n - 1 |-> Numbered2(i)]
    BY <1>3
  <2>2. incremental' = Append(incremental, Numbered2(n))
    BY <1>2, <1>4
  <2> HIDE DEF Numbered2
  <2>3. Append(incremental, Numbered2(n)) = [i \in 1 .. n |-> Numbered2(i)]
    <3>1. n - 1 \in Nat /\ n - 1 + 1 = n
      BY <1>3
    <3> QED
      BY ONLY <2>1, <3>1, n \in Nat
  <2> QED
    BY <2>2, <2>3 DEF Numbered2
<1>6. PublisherOK(T)'
  <2>1. n - (IF released' THEN 0 ELSE 1) = n
    BY <1>2, <1>3
  <2>2. Len(q) <= MaxOutgoing + IF released' THEN 1 ELSE 0
    BY <1>2, <1>4
  <2> QED
    BY <1>2, <1>3, <1>5, <2>1, <2>2 DEF PublisherOK
<1>7. QueueOK(T)' /\ CopyOK(h)' /\ StatusOK'
  BY <1>1, <1>2 DEF FeedOK, QueueOK, CopyOK, StatusOK, StopsOnlyOverrunOrOutOfIds, Overrun,
                    synthesizerVars, bookVars
<1> QED
  BY <1>6, <1>7

LEMMA ForwardFInv ==
    ASSUME BookProofs!NoAliasing, FInv, Running, Publisher!Forward,
           Len(snapshot_md_updates_) < MaxToSynthesizer, UNCHANGED <<bookVars, synthesizerVars>>
    PROVE  FInv'
<1> SUFFICES ASSUME NEW T, NEW h, FeedOK(T, h)
             PROVE  PublisherOK(T)' /\ QueueOK(T)' /\ CopyOK(h)' /\ StatusOK'
  BY FeedKept
<1>1. PICK q, n : q = outgoing_md_updates_ /\ n = next_inc_seq_num_
  OBVIOUS
<1>2. PICK s, s2, last : /\ s = snapshot_md_updates_ /\ s2 = snapshot_md_updates_'
                         /\ last = last_inc_seq_num_
  OBVIOUS
<1>3. PICK m : m = [seq_num_ |-> n, me_market_update_ |-> Head(q)]
  OBVIOUS
<1>4. /\ released /\ released' = FALSE /\ outgoing_md_updates_' = Tail(q)
      /\ next_inc_seq_num_' = n + 1 /\ incremental' = incremental
      /\ s2 = Publisher!Enqueue(s, ME_MAX_MARKET_UPDATES, <<m>>)
      /\ Len(s) < MaxToSynthesizer /\ last_inc_seq_num_' = last
  BY <1>1, <1>2, <1>3 DEF Publisher!Forward, synthesizerVars
<1>5. /\ q \in Seq(Message) /\ q # <<>> /\ n \in Nat \ {0}
      /\ Len(T) = n - 1 + Len(q)
      /\ Len(q) <= MaxOutgoing + 1
      /\ \A i \in 1 .. Len(q) : q[i] = T[n - 1 + i]
      /\ incremental = [i \in 1 .. n |-> [seq_num_ |-> i, me_market_update_ |-> T[i]]]
  <2>1. n \in Nat \ {0} /\ n - (IF released THEN 0 ELSE 1) = n
    <3>1. n \in Nat \ {0}
      BY <1>1 DEF FeedOK, PublisherOK
    <3> QED
      BY <1>4, <3>1
  <2> QED
    BY <1>1, <1>4, <2>1 DEF FeedOK, PublisherOK
<1>6. Len(q) \in Nat \ {0} /\ Head(q) = T[n] /\ Head(q) \in Message
  <2>1. 1 \in 1 .. Len(q) /\ Head(q) = q[1] /\ Len(q) \in Nat \ {0} /\ q[1] \in Message
    BY ONLY <1>5
  <2>2. n - 1 + 1 = n
    BY <1>5
  <2> QED
    BY <1>5, <2>1, <2>2
<1>7. PICK r : r = Tail(q)
  OBVIOUS
<1>8. /\ r \in Seq(Message) /\ Len(r) = Len(q) - 1
      /\ \A i \in 1 .. Len(r) : r[i] = q[i + 1]
  BY ONLY <1>5, <1>6, <1>7
<1>9. PublisherOK(T)'
  <2>1. \A i \in 1 .. Len(r) : r[i] = T[(n + 1) - 1 + i]
    <3> SUFFICES ASSUME NEW i \in 1 .. Len(r) PROVE r[i] = T[(n + 1) - 1 + i]
      OBVIOUS
    <3>1. i + 1 \in 1 .. Len(q) /\ (n + 1) - 1 + i = n - 1 + (i + 1)
      BY <1>5, <1>6, <1>8
    <3>2. q[i + 1] = T[n - 1 + (i + 1)] /\ r[i] = q[i + 1]
      BY <1>5, <1>8, <3>1
    <3> QED
      BY <3>1, <3>2
  <2>2. Len(r) <= MaxOutgoing + 0 /\ Len(T) = (n + 1) - 1 + Len(r) /\ n + 1 \in Nat \ {0}
    BY <1>5, <1>6, <1>8, ExchangeFeedAssumption
  <2>3. (n + 1) - (IF released' THEN 0 ELSE 1) = n
    BY <1>4, <1>5
  <2>4. Len(r) <= MaxOutgoing + IF released' THEN 1 ELSE 0
    BY <1>4, <2>2
  <2>5. outgoing_md_updates_' = r /\ released' \in BOOLEAN /\ ~released'
    BY <1>4, <1>7, Zenon
  <2> QED
    BY <1>4, <1>5, <1>8, <2>1, <2>2, <2>3, <2>4, <2>5 DEF PublisherOK
<1>10. /\ s \in Seq(Numbering) /\ last \in Nat /\ n = last + Len(s) + 1
       /\ \A i \in 1 .. Len(s) : s[i].seq_num_ >= last + i
       /\ Len(s) > ME_MAX_MARKET_UPDATES => s[1].seq_num_ >= last + 2
       /\ ~(Len(s) > ME_MAX_MARKET_UPDATES) =>
             \A i \in 1 .. Len(s) : s[i] = [seq_num_ |-> last + i, me_market_update_ |-> T[last + i]]
  BY <1>1, <1>2 DEF FeedOK, QueueOK, Overrun
<1>11. PICK L : L = Len(s)
  OBVIOUS
<1>12. PICK all : all = s \o <<m>>
  OBVIOUS
<1>13. m \in Numbering /\ <<m>> \in Seq(Numbering) /\ Len(<<m>>) = 1
  <2>1. m \in Numbering
    BY <1>3, <1>5, <1>6 DEF Numbering
  <2> QED
    BY <2>1
<1>14. /\ L \in Nat /\ all \in Seq(Numbering) /\ Len(all) = L + 1 /\ all[L + 1] = m
       /\ \A i \in 1 .. L : all[i] = s[i]
  BY ONLY <1>10, <1>11, <1>12, <1>13
<1>15. m.seq_num_ = last + (L + 1) /\ m = [seq_num_ |-> last + (L + 1), me_market_update_ |-> T[last + (L + 1)]]
  <2>1. n = last + (L + 1)
    BY <1>10, <1>11, <1>14
  <2> QED
    BY <1>3, <1>6, <2>1
<1>16. /\ s2 \in Seq(Numbering) /\ Len(s2) = L + 1
       /\ L + 1 <= ME_MAX_MARKET_UPDATES => s2 = all
       /\ \A i \in 1 .. L + 1 : \E j \in i .. L + 1 :
             s2[i] = all[j] /\ (L + 1 >= i + ME_MAX_MARKET_UPDATES => j >= i + ME_MAX_MARKET_UPDATES)
  <2>1. s2 = Publisher!Enqueue(s, ME_MAX_MARKET_UPDATES, <<m>>)
    BY <1>4, Zenon
  <2>2. s \in Seq(Numbering) /\ <<m>> \in Seq(Numbering) /\ ME_MAX_MARKET_UPDATES \in Nat \ {0}
    BY <1>10, <1>13, ExchangeFeedAssumption
  <2>3. PICK r2 : r2 = <<m>>
    OBVIOUS
  <2>4. Len(s) + Len(r2) = L + 1
    BY <1>11, <1>13, <2>3
  <2>5. Enqueued(Numbering, s, r2, ME_MAX_MARKET_UPDATES, s2)
    BY ONLY <2>1, <2>2, <2>3, EnqueueIs
  <2>6. s \o r2 = all
    BY <1>12, <2>3
  <2> QED
    BY ONLY <2>4, <2>5, <2>6 DEF Enqueued
<1>17. \A j \in 1 .. L + 1 : all[j].seq_num_ \in Nat /\ all[j].seq_num_ >= last + j
  <2> SUFFICES ASSUME NEW j \in 1 .. L + 1 PROVE all[j].seq_num_ \in Nat /\ all[j].seq_num_ >= last + j
    OBVIOUS
  <2>1. all[j].seq_num_ \in Nat
    <3>1. all[j] \in Numbering
      BY <1>14
    <3> QED
      BY <3>1 DEF Numbering
  <2>2. CASE j = L + 1
    BY <1>10, <1>14, <1>15, <2>1, <2>2
  <2>3. CASE j # L + 1
    <3>1. j \in 1 .. L
      BY <1>14, <2>3
    <3> QED
      BY <1>10, <1>11, <1>14, <2>1, <3>1
  <2> QED
    BY <2>2, <2>3
<1>18. QueueOK(T)'
  <2>1. \A i \in 1 .. L + 1 : s2[i].seq_num_ >= last + i
    <3> SUFFICES ASSUME NEW i \in 1 .. L + 1 PROVE s2[i].seq_num_ >= last + i
      OBVIOUS
    <3>1. PICK j \in i .. L + 1 : s2[i] = all[j]
      BY <1>16
    <3>2. j \in 1 .. L + 1 /\ j >= i
      BY <1>14, <3>1
    <3> QED
      BY <1>10, <1>17, <3>1, <3>2
  <2>2. ASSUME L + 1 > ME_MAX_MARKET_UPDATES PROVE s2[1].seq_num_ >= last + 2
    <3>1. 1 \in 1 .. L + 1 /\ L + 1 >= 1 + ME_MAX_MARKET_UPDATES
      BY <1>14, <2>2, ExchangeFeedAssumption
    <3>2. PICK j \in 1 .. L + 1 : s2[1] = all[j] /\ j >= 1 + ME_MAX_MARKET_UPDATES
      BY <1>16, <3>1
    <3>3. j >= 2
      BY <1>14, <3>2, ExchangeFeedAssumption
    <3> QED
      BY <1>10, <1>14, <1>17, <3>2, <3>3
  <2>3. ASSUME ~(L + 1 > ME_MAX_MARKET_UPDATES), NEW i \in 1 .. L + 1
        PROVE  s2[i] = [seq_num_ |-> last + i, me_market_update_ |-> T[last + i]]
    <3>1. s2 = all /\ ~(L > ME_MAX_MARKET_UPDATES)
      BY <1>14, <1>16, <2>3, ExchangeFeedAssumption
    <3>2. CASE i = L + 1
      <4>1. all[i] = m
        BY <1>14, <3>2
      <4> QED
        BY <1>15, <3>1, <3>2, <4>1
    <3>3. CASE i # L + 1
      <4>1. i \in 1 .. L
        BY <1>14, <3>3
      <4>2. all[i] = s[i]
        BY <1>14, <4>1
      <4>3. s[i] = [seq_num_ |-> last + i, me_market_update_ |-> T[last + i]]
        BY <1>10, <1>11, <3>1, <4>1
      <4> QED
        BY <3>1, <4>2, <4>3
    <3> QED
      BY <3>2, <3>3
  <2>4. n + 1 = last + (L + 1) + 1 /\ L + 1 <= MaxToSynthesizer
    BY <1>4, <1>10, <1>11, <1>14, ExchangeFeedAssumption
  <2>5. /\ snapshot_md_updates_' = s2 /\ last_inc_seq_num_' = last /\ next_inc_seq_num_' = n + 1
        /\ Len(s2) = L + 1 /\ s2 \in Seq(Numbering) /\ last \in Nat
    BY <1>2, <1>4, <1>10, <1>16
  <2>6. Overrun' <=> L + 1 > ME_MAX_MARKET_UPDATES
    BY <2>5 DEF Overrun
  <2> QED
    BY ONLY <2>1, <2>2, <2>3, <2>4, <2>5, <2>6 DEF QueueOK
<1>19. CopyOK(h)'
  BY <1>2, <1>4 DEF FeedOK, CopyOK, synthesizerVars
<1>20. StatusOK'
  BY DEF Running, StatusOK, StopsOnlyOverrunOrOutOfIds, synthesizerVars
<1> QED
  BY <1>9, <1>18, <1>19, <1>20

LEMMA AddToSnapshotFInv ==
    ASSUME BookProofs!NoAliasing, FInv, Synthesizer!AddToSnapshot,
           UNCHANGED <<bookVars, publisherVars>>
    PROVE  FInv'
<1> SUFFICES ASSUME NEW T, NEW h, FeedOK(T, h)
             PROVE  PublisherOK(T)' /\ QueueOK(T)' /\ CopyOK(h)' /\ StatusOK'
  BY FeedKept
<1>1. PICK s, last, m, u : /\ s = snapshot_md_updates_ /\ last = last_inc_seq_num_
                           /\ m = Head(s) /\ u = m.me_market_update_
  OBVIOUS
<1>2. /\ s # <<>> /\ Synthesizer!Obstacle(m) = "running" /\ synthesizer' = "running"
      /\ ticker_orders_' = AppliedTo(ticker_orders_, u)
      /\ last_inc_seq_num_' = m.seq_num_ /\ snapshot_md_updates_' = Tail(s)
      /\ snapshot' = snapshot
  BY <1>1, SameAppliedTo DEF Synthesizer!AddToSnapshot
<1>3. /\ m.seq_num_ = last + 1
      /\ Changes(u) => u.order_id_ \in 0 .. ME_MAX_ORDER_IDS - 1
  BY <1>1, <1>2, SameUpdates
     DEF Synthesizer!Obstacle, Synthesizer!OrderSlots, Synthesizer!IsNextNumber
<1>4. /\ s \in Seq(Numbering) /\ last \in Nat /\ Len(s) <= MaxToSynthesizer
      /\ next_inc_seq_num_ = last + Len(s) + 1
      /\ \A i \in 1 .. Len(s) : s[i].seq_num_ >= last + i
      /\ Overrun => s[1].seq_num_ >= last + 2
      /\ ~Overrun =>
            \A i \in 1 .. Len(s) : s[i] = [seq_num_ |-> last + i, me_market_update_ |-> T[last + i]]
  BY <1>1 DEF FeedOK, QueueOK
<1>5. 1 \in 1 .. Len(s) /\ m = s[1]
  BY ONLY <1>1, <1>2, <1>4
<1>6. ~Overrun
  BY <1>3, <1>4, <1>5
<1>7. u = T[last + 1] /\ last + 1 \in 1 .. Len(T) /\ last \in 0 .. Len(T)
  <2>1. m = [seq_num_ |-> last + 1, me_market_update_ |-> T[last + 1]]
    BY <1>4, <1>5, <1>6
  <2>2. last + 1 \in 1 .. Len(T) /\ last \in 0 .. Len(T)
    BY <1>1, <1>4, <1>5, Places
  <2> QED
    BY <1>1, <2>1, <2>2
<1>8. PICK k : k = last + 1
  OBVIOUS
<1>9. PICK x, y : x = h[last] /\ y = h[k]
  OBVIOUS
<1>10. /\ x \in Orders /\ u \in Message /\ Effect(x, u, y) /\ AsExpected(x, u) /\ y = Applied(x, u)
  <2>1. History(T, h) /\ k - 1 = last /\ k \in 1 .. Len(T)
    BY <1>4, <1>7, <1>8 DEF FeedOK
  <2> QED
    BY <1>7, <1>8, <1>9, <2>1, HistoryTypes DEF History, Fits
<1>11. ticker_orders_ = Table(x, ME_MAX_ORDER_IDS) /\ Live(x) \subseteq 0 .. ME_MAX_ORDER_IDS - 1
       /\ (snapshot # <<>> => /\ snapshot[1].me_market_update_.order_id_ \in Nat
                              /\ snapshot[1].me_market_update_.order_id_ <= last)
  BY <1>1, <1>9 DEF FeedOK, CopyOK
<1>12. ticker_orders_' = Table(y, ME_MAX_ORDER_IDS)
  BY <1>2, <1>3, <1>10, <1>11, TableApplied, ExchangeFeedAssumption
<1>13. Live(y) \subseteq 0 .. ME_MAX_ORDER_IDS - 1
  <2>1. Live(y) \subseteq Live(x) \cup {u.order_id_} /\ (~Changes(u) => y = x)
    BY <1>10, LiveAfter
  <2> QED
    BY <1>3, <1>11, <2>1
<1>14. CopyOK(h)'
  <2>1. last_inc_seq_num_' = k /\ h[last_inc_seq_num_'] = y
    BY <1>2, <1>3, <1>8, <1>9
  <2>2. snapshot' # <<>> => /\ snapshot'[1].me_market_update_.order_id_ \in Nat
                            /\ snapshot'[1].me_market_update_.order_id_ <= k
    BY <1>2, <1>4, <1>8, <1>11
  <2> QED
    BY ONLY <1>12, <1>13, <2>1, <2>2 DEF CopyOK
<1>15. PICK r : r = Tail(s)
  OBVIOUS
<1>16. /\ r \in Seq(Numbering) /\ Len(r) = Len(s) - 1 /\ Len(s) \in Nat
       /\ \A i \in 1 .. Len(r) : r[i] = s[i + 1] /\ i + 1 \in 1 .. Len(s)
  BY ONLY <1>2, <1>4, <1>15
<1>17. \A i \in 1 .. Len(r) : r[i] = [seq_num_ |-> k + i, me_market_update_ |-> T[k + i]]
  <2> SUFFICES ASSUME NEW i \in 1 .. Len(r)
               PROVE  r[i] = [seq_num_ |-> k + i, me_market_update_ |-> T[k + i]]
    OBVIOUS
  <2>1. last + (i + 1) = k + i
    BY <1>4, <1>8
  <2> QED
    BY <1>4, <1>6, <1>16, <2>1
<1>18. QueueOK(T)'
  <2>1. /\ snapshot_md_updates_' = r /\ last_inc_seq_num_' = k /\ k \in Nat
        /\ next_inc_seq_num_' = k + Len(r) + 1 /\ Len(r) <= MaxToSynthesizer
    BY <1>2, <1>3, <1>4, <1>8, <1>15, <1>16, ExchangeFeedAssumption DEF publisherVars
  <2>2. ~Overrun'
    BY <1>1, <1>6, <1>16, <2>1, ExchangeFeedAssumption DEF Overrun
  <2>3. ASSUME NEW i \in 1 .. Len(r) PROVE r[i].seq_num_ >= k + i
    <3>1. PICK j, w : j = k + i /\ w = T[k + i]
      OBVIOUS
    <3>2. r[i] = [seq_num_ |-> j, me_market_update_ |-> w]
      BY <1>17, <3>1
    <3>3. j \in Nat
      BY <1>16, <2>1, <3>1
    <3>4. r[i].seq_num_ = j
      BY ONLY <3>2
    <3> QED
      BY ONLY <3>1, <3>3, <3>4
  <2> QED
    BY ONLY <1>16, <1>17, <2>1, <2>2, <2>3 DEF QueueOK
<1>19. PublisherOK(T)'
  BY DEF FeedOK, PublisherOK, publisherVars
<1>20. StatusOK'
  BY <1>2 DEF StatusOK, StopsOnlyOverrunOrOutOfIds
<1> QED
  BY <1>14, <1>18, <1>19, <1>20

\* The orders of one ticker are the only ones there are.
LEMMA PlacesUsed ==
    ASSUME NEW x \in Orders, Live(x) \subseteq 0 .. ME_MAX_ORDER_IDS - 1
    PROVE  Synthesizer!Cardinality(
               {s \in Synthesizer!Tickers \X Synthesizer!OrderSlots :
                   Table(x, ME_MAX_ORDER_IDS)[s[1]][s[2]] # Synthesizer!NoOrder})
           = Cardinality(Live(x))
<1> DEFINE Used == {s \in Synthesizer!Tickers \X Synthesizer!OrderSlots :
                       Table(x, ME_MAX_ORDER_IDS)[s[1]][s[2]] # Synthesizer!NoOrder}
           f == [o \in Live(x) |-> <<Ticker, o>>]
<1>1. Used = {<<Ticker, o>> : o \in Live(x)}
  <2>1. Ticker \in 0 .. ME_MAX_TICKERS - 1
    BY ExchangeFeedAssumption DEF Ticker
  <2>2. ASSUME NEW t \in 0 .. ME_MAX_TICKERS - 1, NEW o \in 0 .. ME_MAX_ORDER_IDS - 1
        PROVE  Table(x, ME_MAX_ORDER_IDS)[t][o] # NoOrder <=> t = Ticker /\ o \in Live(x)
    <3>1. Table(x, ME_MAX_ORDER_IDS)[t][o] = IF t = Ticker THEN x[o] ELSE NoOrder
      BY DEF Table, Row
    <3>2. o \in Nat
      BY ExchangeFeedAssumption
    <3> QED
      BY <3>1, <3>2 DEF Live
  <2>3. \A s : s \in Used => s \in {<<Ticker, o>> : o \in Live(x)}
    <3> SUFFICES ASSUME NEW s \in Used PROVE s \in {<<Ticker, o>> : o \in Live(x)}
      OBVIOUS
    <3>1. PICK t \in 0 .. ME_MAX_TICKERS - 1, o \in 0 .. ME_MAX_ORDER_IDS - 1 : s = <<t, o>>
      BY DEF Synthesizer!Tickers, Synthesizer!OrderSlots
    <3>2. Table(x, ME_MAX_ORDER_IDS)[t][o] # NoOrder
      BY <3>1, SameUpdates
    <3> QED
      BY <2>2, <3>1, <3>2
  <2>4. ASSUME NEW o \in Live(x) PROVE <<Ticker, o>> \in Used
    <3>1. o \in 0 .. ME_MAX_ORDER_IDS - 1
      OBVIOUS
    <3>2. Table(x, ME_MAX_ORDER_IDS)[Ticker][o] # Synthesizer!NoOrder
      BY <2>1, <2>2, <3>1, SameUpdates
    <3> QED
      BY <2>1, <3>1, <3>2 DEF Synthesizer!Tickers, Synthesizer!OrderSlots
  <2> HIDE DEF Used
  <2> QED
    BY <2>3, <2>4
<1> HIDE DEF Used
<1>2. IsFiniteSet(Live(x))
  <2>1. IsFiniteSet(0 .. ME_MAX_ORDER_IDS - 1)
    BY FS_Interval, ExchangeFeedAssumption
  <2> QED
    BY <2>1, FS_Subset
<1>3. f \in Bijection(Live(x), Used)
  BY <1>1 DEF Bijection, Injection, Surjection, IsInjective
<1>4. Cardinality(Used) = Cardinality(Live(x))
  BY <1>2, <1>3, FS_Bijection DEF ExistsBijection
<1>5. Synthesizer!Cardinality(Used) = Cardinality(Used)
  BY DEF Synthesizer!Cardinality, Cardinality
<1> QED
  BY <1>4, <1>5 DEF Used

LEMMA StopFInv ==
    ASSUME BookProofs!NoAliasing, FInv, Synthesizer!Stop, UNCHANGED <<bookVars, publisherVars>>
    PROVE  FInv'
<1> SUFFICES ASSUME NEW T, NEW h, FeedOK(T, h)
             PROVE  PublisherOK(T)' /\ QueueOK(T)' /\ CopyOK(h)' /\ StatusOK'
  BY FeedKept
<1>1. PICK s, last, m, u : /\ s = snapshot_md_updates_ /\ last = last_inc_seq_num_
                           /\ m = Head(s) /\ u = m.me_market_update_
  OBVIOUS
<1>2. /\ s # <<>> /\ synthesizer' = Synthesizer!Obstacle(m) /\ synthesizer' # "running"
      /\ UNCHANGED <<snapshot_md_updates_, ticker_orders_, last_inc_seq_num_, snapshot>>
  BY <1>1 DEF Synthesizer!Stop, Synthesizer!replica
<1>3. PublisherOK(T)' /\ QueueOK(T)' /\ CopyOK(h)'
  BY <1>2 DEF FeedOK, PublisherOK, QueueOK, CopyOK, Overrun, publisherVars
<1>4. synthesizer' \in {"running", "order id out of range", "order not as expected",
                        "out of space", "number not as expected"}
  BY <1>2 DEF Synthesizer!Obstacle
<1>5. ASSUME ~Overrun
      PROVE  /\ synthesizer' = "order id out of range"
             /\ next_market_order_id_' > ME_MAX_ORDER_IDS
  <2>1. /\ s \in Seq(Numbering) /\ last \in Nat
        /\ \A i \in 1 .. Len(s) : s[i] = [seq_num_ |-> last + i, me_market_update_ |-> T[last + i]]
    BY <1>1, <1>5 DEF FeedOK, QueueOK
  <2>2. 1 \in 1 .. Len(s) /\ m = s[1]
    BY ONLY <1>1, <1>2, <2>1
  <2>3. m = [seq_num_ |-> last + 1, me_market_update_ |-> T[last + 1]]
    BY <2>1, <2>2
  <2>4. last + 1 \in 1 .. Len(T) /\ last \in 0 .. Len(T) /\ (last + 1) - 1 = last
    BY <1>1, <2>1, <2>2, Places
  <2>5. PICK x : x = h[last]
    OBVIOUS
  <2>6. /\ x \in Orders /\ u \in Message /\ Fits(x, u)
        /\ Changes(u) => u.order_id_ \in 1 .. next_market_order_id_ - 1
    <3>1. History(T, h) /\ IdsBelow(T, h, next_market_order_id_) /\ u = T[last + 1]
      BY <1>1, <2>3 DEF FeedOK
    <3> QED
      BY <2>4, <2>5, <3>1, HistoryTypes DEF History, IdsBelow
  <2>7. ticker_orders_ = Table(x, ME_MAX_ORDER_IDS) /\ Live(x) \subseteq 0 .. ME_MAX_ORDER_IDS - 1
    BY <1>1, <2>5 DEF FeedOK, CopyOK
  <2>8. next_market_order_id_' = next_market_order_id_ /\ next_market_order_id_ \in Nat
    <3>1. next_market_order_id_ \in 1 .. MaxOrderId + 1
      BY DEF FInv, BookProofs!IInv, BookProofs!TypeOK
    <3> QED
      BY <3>1, ExchangeFeedAssumption DEF bookVars
  <2>9. CASE Changes(u) /\ u.order_id_ \notin 0 .. ME_MAX_ORDER_IDS - 1
    <3>1. synthesizer' = "order id out of range"
      BY <1>1, <1>2, <2>9, SameUpdates DEF Synthesizer!Obstacle, Synthesizer!OrderSlots
    <3>2. next_market_order_id_ > ME_MAX_ORDER_IDS
      BY <2>6, <2>8, <2>9, ExchangeFeedAssumption
    <3> QED
      BY <2>8, <3>1, <3>2
  <2>10. CASE ~(Changes(u) /\ u.order_id_ \notin 0 .. ME_MAX_ORDER_IDS - 1)
    <3>1. AsExpected(ticker_orders_[Ticker], u) /\ u.ticker_id_ = Ticker
      BY <2>6, <2>7, <2>10, TableApplied, ExchangeFeedAssumption DEF Fits, Message
    <3>2. u.type_ = "ADD" =>
            Synthesizer!Cardinality({p \in Synthesizer!Tickers \X Synthesizer!OrderSlots :
                ticker_orders_[p[1]][p[2]] # Synthesizer!NoOrder}) + 1 # ME_MAX_ORDER_IDS
      BY <2>6, <2>7, PlacesUsed DEF Fits
    <3>3. Synthesizer!IsNextNumber(m)
      BY <1>1, <2>3 DEF Synthesizer!IsNextNumber
    <3>4. Synthesizer!Obstacle(m) = "running"
      BY <1>1, <2>10, <3>1, <3>2, <3>3, SameUpdates
         DEF Synthesizer!Obstacle, Synthesizer!OrderSlots
    <3> QED
      BY <1>2, <3>4
  <2> QED
    BY <2>9, <2>10
<1>6. Overrun' <=> Overrun
  BY <1>2 DEF Overrun
<1>7. StatusOK'
  BY <1>4, <1>5, <1>6 DEF StatusOK, StopsOnlyOverrunOrOutOfIds
<1> QED
  BY <1>3, <1>7

LEMMA PublishSnapshotFInv ==
    ASSUME BookProofs!NoAliasing, FInv, Synthesizer!PublishSnapshot,
           UNCHANGED <<bookVars, publisherVars>>
    PROVE  FInv'
<1> SUFFICES ASSUME NEW T, NEW h, FeedOK(T, h)
             PROVE  PublisherOK(T)' /\ QueueOK(T)' /\ CopyOK(h)' /\ StatusOK'
  BY FeedKept
<1>1. /\ snapshot' = SnapshotOf(ticker_orders_, last_inc_seq_num_) /\ synthesizer = "running"
      /\ UNCHANGED <<snapshot_md_updates_, ticker_orders_, last_inc_seq_num_, synthesizer>>
  BY SameSnapshotOf DEF Synthesizer!PublishSnapshot, Synthesizer!replica
<1>2. PublisherOK(T)' /\ QueueOK(T)' /\ StatusOK'
  BY <1>1 DEF FeedOK, PublisherOK, QueueOK, Overrun, StatusOK, StopsOnlyOverrunOrOutOfIds,
              publisherVars, bookVars
<1>3. PICK last, x : last = last_inc_seq_num_ /\ x = h[last]
  OBVIOUS
<1>4. /\ x \in Orders /\ last \in Nat
      /\ ticker_orders_ = Table(x, ME_MAX_ORDER_IDS) /\ Live(x) \subseteq 0 .. ME_MAX_ORDER_IDS - 1
  <2>1. last \in 0 .. Len(T)
    BY <1>3, Places
  <2> QED
    BY <1>3, <2>1, HistoryTypes DEF FeedOK, CopyOK
<1>5. snapshot'[1].me_market_update_.order_id_ = last
  BY <1>1, <1>3, <1>4, SnapshotNumber, ExchangeFeedAssumption
<1>6. CopyOK(h)'
  BY <1>1, <1>3, <1>4, <1>5 DEF CopyOK
<1> QED
  BY <1>2, <1>6

\* Every step preserves the invariant.
LEMMA NextFInv == ASSUME BookProofs!NoAliasing, HeldBack, FInv, [Next]_vars PROVE FInv'
<1>1. CASE EngineStep
  BY <1>1, EngineFInv
<1>2. CASE PublisherStep
  BY <1>2, SendFInv, ForwardFInv DEF PublisherStep, Publisher!Next
<1>3. CASE SynthesizerStep
  BY <1>3, AddToSnapshotFInv, StopFInv, PublishSnapshotFInv DEF SynthesizerStep, Synthesizer!Next
<1>4. CASE UNCHANGED vars
  <2> SUFFICES ASSUME NEW T, NEW h, FeedOK(T, h)
               PROVE  PublisherOK(T)' /\ QueueOK(T)' /\ CopyOK(h)' /\ StatusOK'
    BY <1>4, FeedKept DEF vars
  <2> QED
    BY <1>4 DEF vars, bookVars, publisherVars, synthesizerVars, FeedOK, PublisherOK, QueueOK,
                Overrun, CopyOK, StatusOK, StopsOnlyOverrunOrOutOfIds
<1> QED
  BY <1>1, <1>2, <1>3, <1>4 DEF Next

\* In every state of every behaviour there is a history that the three threads
\* have come to different points of: what the engine has sent, the publisher has
\* numbered in turn up to next_inc_seq_num_, and the synthesizer has applied up
\* to last_inc_seq_num_.
THEOREM FInvAlways == ASSUME BookProofs!NoAliasing, HeldBack PROVE Spec => []FInv
<1>1. Init => FInv
  BY InitFInv
<1>2. FInv /\ [Next]_vars => FInv'
  BY NextFInv
<1> QED
  BY <1>1, <1>2, PTL DEF Spec
----------------------------------------------------------------------------
(* What follows from the invariant.                                        *)

LEMMA FInvTypeOK == FInv => TypeOK
<1> SUFFICES ASSUME FInv, NEW T, NEW h, FeedOK(T, h) PROVE TypeOK
  BY DEF FInv
<1>1. Book!TypeOK
  BY BookTyped DEF FInv, BookProofs!IInv
<1>2. released \in BOOLEAN /\ (released => outgoing_md_updates_ # <<>>)
  BY DEF FeedOK, PublisherOK
<1>3. Len(outgoing_md_updates_) <= MaxOutgoing + 1
  <2>1. PICK w \in 0 .. 1 : w = IF released THEN 1 ELSE 0
    OBVIOUS
  <2>2. Len(outgoing_md_updates_) <= MaxOutgoing + w /\ outgoing_md_updates_ \in Seq(Message)
    BY <2>1 DEF FeedOK, PublisherOK
  <2> QED
    BY <2>2, ExchangeFeedAssumption
<1>4. next_inc_seq_num_ \in Nat \ {0} /\ last_inc_seq_num_ \in Nat
  BY DEF FeedOK, PublisherOK, QueueOK
<1>5. Len(snapshot_md_updates_) <= MaxToSynthesizer
  BY DEF FeedOK, QueueOK
<1>6. synthesizer \in {"running", "order id out of range", "order not as expected",
                       "out of space", "number not as expected"}
  BY DEF FeedOK, StatusOK
<1> QED
  BY <1>1, <1>2, <1>3, <1>4, <1>5, <1>6 DEF TypeOK

\* The ids in the history are below the engine's next.
LEMMA IdsInRange ==
    ASSUME FInv, NEW T, NEW h, FeedOK(T, h), NEW size \in Nat, next_market_order_id_ <= size
    PROVE  /\ \A k \in 1 .. Len(T) : Changes(T[k]) => T[k].order_id_ \in 0 .. size - 1
           /\ \A k \in 0 .. Len(T) : Live(h[k]) \subseteq 0 .. size - 1
<1>1. next_market_order_id_ \in 1 .. MaxOrderId + 1
  BY DEF FInv, BookProofs!IInv, BookProofs!TypeOK
<1>2. 1 .. next_market_order_id_ - 1 \subseteq 0 .. size - 1
  BY <1>1, ExchangeFeedAssumption
<1> QED
  BY <1>2 DEF FeedOK, IdsBelow

LEMMA FInvNothingLost == FInv => NothingLostOnTheWay
<1> SUFFICES ASSUME FInv, ~Overrun, next_market_order_id_ <= ME_MAX_ORDER_IDS,
                    NEW T, NEW h, FeedOK(T, h)
             PROVE  Described(Synthesizer!Replayed(ticker_orders_,
                        Synthesizer!UpdatesIn(snapshot_md_updates_) \o outgoing_md_updates_)[Ticker])
                    = BookOrders
  BY DEF FInv, NothingLostOnTheWay
<1>1. PICK s, q, n, last, N :
         /\ s = snapshot_md_updates_ /\ q = outgoing_md_updates_ /\ N = Len(T)
         /\ n = next_inc_seq_num_ /\ last = last_inc_seq_num_
  OBVIOUS
<1>2. /\ s \in Seq(Numbering) /\ last \in Nat /\ n = last + Len(s) + 1
      /\ \A i \in 1 .. Len(s) : s[i] = [seq_num_ |-> last + i, me_market_update_ |-> T[last + i]]
  BY <1>1 DEF FeedOK, QueueOK
<1>3. /\ q \in Seq(Message) /\ N = n - 1 + Len(q)
      /\ \A i \in 1 .. Len(q) : q[i] = T[n - 1 + i]
  BY <1>1 DEF FeedOK, PublisherOK
<1>4. PICK ss : ss = UpdatesIn(s)
  OBVIOUS
<1>5. Len(ss) = Len(s) /\ ss \in Seq(Message) /\ \A i \in 1 .. Len(s) : ss[i] = T[last + i]
  <2>1. ss = [i \in 1 .. Len(s) |-> s[i].me_market_update_]
    BY <1>2, <1>4 DEF UpdatesIn
  <2>2. ASSUME NEW i \in 1 .. Len(s) PROVE s[i].me_market_update_ \in Message
    <3>1. s[i] \in Numbering
      BY <1>2
    <3> QED
      BY <3>1 DEF Numbering
  <2>3. ASSUME NEW i \in 1 .. Len(s) PROVE ss[i] = T[last + i]
    <3>1. PICK j, w : j = last + i /\ w = T[j]
      OBVIOUS
    <3>2. s[i] = [seq_num_ |-> j, me_market_update_ |-> w]
      BY <1>2, <3>1
    <3>3. s[i].me_market_update_ = w
      BY ONLY <3>2
    <3> QED
      BY <2>1, <3>1, <3>3
  <2>4. ss \in [1 .. Len(s) -> Message]
    BY <2>1, <2>2
  <2>5. Len(s) \in Nat
    BY <1>2
  <2> QED
    BY ONLY <2>1, <2>3, <2>4, <2>5
<1>6. PICK us : us = ss \o q
  OBVIOUS
<1>7. Len(us) = N - last /\ \A i \in 1 .. N - last : us[i] = T[last + i]
  <2>1. /\ Len(us) = Len(s) + Len(q)
        /\ \A i \in 1 .. Len(s) + Len(q) :
              us[i] = IF i <= Len(s) THEN ss[i] ELSE q[i - Len(s)]
    <3>1. ss \in Seq(Message) /\ q \in Seq(Message)
      BY <1>3, <1>5
    <3>2. /\ Len(us) = Len(ss) + Len(q)
          /\ \A i \in 1 .. Len(ss) + Len(q) :
                us[i] = IF i <= Len(ss) THEN ss[i] ELSE q[i - Len(ss)]
      BY ONLY <1>6, <3>1
    <3> QED
      BY <1>5, <3>2
  <2>2. Len(s) + Len(q) = N - last /\ Len(s) \in Nat /\ Len(q) \in Nat
    BY <1>2, <1>3
  <2>3. ASSUME NEW i \in 1 .. N - last PROVE us[i] = T[last + i]
    <3>1. CASE i <= Len(s)
      BY <1>5, <2>1, <2>2, <3>1
    <3>2. CASE ~(i <= Len(s))
      <4>1. i - Len(s) \in 1 .. Len(q) /\ n - 1 + (i - Len(s)) = last + i
        BY <1>2, <2>2, <3>2
      <4> QED
        BY <1>3, <2>1, <2>2, <3>2, <4>1
    <3> QED
      BY <3>1, <3>2
  <2> QED
    BY <2>1, <2>2, <2>3
<1>8. last \in 0 .. N /\ N \in 0 .. Len(T)
  BY <1>1, <1>2, <1>3
<1>9. PICK y : y = h[N]
  OBVIOUS
<1>10. Replayed(ticker_orders_, us) = Table(y, ME_MAX_ORDER_IDS)
  <2>1. History(T, h) /\ ticker_orders_ = Table(h[last], ME_MAX_ORDER_IDS)
    BY <1>1 DEF FeedOK, CopyOK
  <2>2. \A k \in last + 1 .. N : Changes(T[k]) => T[k].order_id_ \in 0 .. ME_MAX_ORDER_IDS - 1
    <3>1. \A k \in last + 1 .. N : k \in 1 .. Len(T)
      BY <1>1, <1>8
    <3> QED
      BY <3>1, IdsInRange, ExchangeFeedAssumption
  <2>3. last \in Nat /\ last <= N /\ ME_MAX_ORDER_IDS \in Nat
    BY <1>2, <1>8, ExchangeFeedAssumption
  <2>4. Part(T, last, N, ME_MAX_ORDER_IDS, us)
    BY ONLY <1>7, <1>8, <2>2, <2>3 DEF Part
  <2>5. Replayed(Table(h[last], ME_MAX_ORDER_IDS), us) = Table(h[N], ME_MAX_ORDER_IDS)
    BY ONLY <2>1, <2>4, ReplayedTable
  <2> QED
    BY <1>9, <2>1, <2>5
<1>11. Synthesizer!Replayed(ticker_orders_,
           Synthesizer!UpdatesIn(snapshot_md_updates_) \o outgoing_md_updates_)
       = Table(y, ME_MAX_ORDER_IDS)
  <2>1. Synthesizer!UpdatesIn(snapshot_md_updates_) \o outgoing_md_updates_ = us
    BY <1>1, <1>4, <1>6, SameUpdates
  <2> QED
    BY <1>10, <2>1, SameReplayed
<1>12. PICK row : row = Table(y, ME_MAX_ORDER_IDS)[Ticker]
  OBVIOUS
<1>13. row = [o \in 0 .. ME_MAX_ORDER_IDS - 1 |-> y[o]]
  <2>1. Ticker \in 0 .. ME_MAX_TICKERS - 1
    BY ExchangeFeedAssumption DEF Ticker
  <2> QED
    BY <1>12, <2>1 DEF Table, Row
<1>14. Live(y) \subseteq 0 .. ME_MAX_ORDER_IDS - 1
  BY <1>1, <1>8, <1>9, IdsInRange, ExchangeFeedAssumption
<1>15. {o \in DOMAIN row : row[o] # Synthesizer!NoOrder} = Live(y) /\ \A o \in Live(y) : row[o] = y[o]
  BY <1>13, <1>14, SameUpdates DEF Live
<1>16. Shows(y) /\ BookProofs!LiveOrders = Book!LiveOrders
  BY <1>1, <1>9, BookTyped DEF FeedOK
<1>17. Described(row) = BookOrders
  BY <1>15, <1>16 DEF Described, BookOrders, Shows
<1> QED
  BY <1>11, <1>12, <1>17

\* As many messages of the incremental stream as have been sent are the first of
\* the history, so what they amount to is what the history says.
LEMMA OrdersAsOfIs ==
    ASSUME FInv, NEW T, NEW h, FeedOK(T, h), NEW N \in 0 .. Len(T),
           incremental = [i \in 1 .. N |-> [seq_num_ |-> i, me_market_update_ |-> T[i]]],
           NEW n \in 0 .. N
    PROVE  Feed!OrdersAsOf(n) = Table(h[n], MaxOrderId + 1)
<1>1. PICK us : us = UpdatesIn(SubSeq(incremental, 1, n))
  OBVIOUS
<1>2. History(T, h) /\ Len(T) \in Nat
  BY HistoryTypes DEF FeedOK
<1>3. Len(us) = n - 0 /\ \A i \in 1 .. n - 0 : us[i] = T[0 + i]
  <2> DEFINE e(i) == [seq_num_ |-> i, me_market_update_ |-> T[i]]
  <2>1. \A i \in 1 .. n : e(i).me_market_update_ = T[i]
    OBVIOUS
  <2>2. incremental = [i \in 1 .. N |-> e(i)]
    OBVIOUS
  <2> HIDE DEF e
  <2>3. SubSeq(incremental, 1, n) = [i \in 1 .. n |-> incremental[i]]
    BY <1>2, <2>2
  <2>4. us = [i \in 1 .. n |-> e(i).me_market_update_]
    <3>1. PICK sub : sub = SubSeq(incremental, 1, n)
      OBVIOUS
    <3>2. DOMAIN sub = 1 .. n /\ \A i \in 1 .. n : sub[i] = e(i)
      BY <1>2, <2>2, <2>3, <3>1
    <3> QED
      BY <1>1, <3>1, <3>2 DEF UpdatesIn
  <2>5. n \in Nat /\ \A i \in 1 .. n : 0 + i = i
    BY <1>2
  <2> QED
    BY <2>1, <2>4, <2>5
<1>4. Feed!NoOrders = Table(h[0], MaxOrderId + 1)
  <2>1. h[0] = [o \in Nat |-> NoOrder]
    BY <1>2 DEF History
  <2>2. \A t \in 0 .. ME_MAX_TICKERS - 1 :
          Row(h[0], MaxOrderId + 1, t) = [o \in 0 .. (MaxOrderId + 1) - 1 |-> NoOrder]
    <3>1. \A o \in 0 .. (MaxOrderId + 1) - 1 : h[0][o] = NoOrder
      BY <2>1, ExchangeFeedAssumption
    <3> QED
      BY <3>1 DEF Row
  <2> QED
    BY <2>2, SameUpdates DEF Feed!NoOrders, Table
<1>5. \A k \in 0 + 1 .. n : Changes(T[k]) => T[k].order_id_ \in 0 .. (MaxOrderId + 1) - 1
  <2>1. next_market_order_id_ <= MaxOrderId + 1 /\ MaxOrderId + 1 \in Nat
    BY ExchangeFeedAssumption DEF FInv, BookProofs!IInv, BookProofs!TypeOK
  <2>2. \A k \in 0 + 1 .. n : k \in 1 .. Len(T)
    BY <1>2
  <2> QED
    BY <2>1, <2>2, IdsInRange
<1>6. Replayed(Table(h[0], MaxOrderId + 1), us) = Table(h[n], MaxOrderId + 1)
  <2>1. PICK a, size : a = 0 /\ size = MaxOrderId + 1
    OBVIOUS
  <2>2. size \in Nat /\ a \in Nat /\ n \in 0 .. Len(T) /\ a <= n
    BY <1>2, <2>1, ExchangeFeedAssumption
  <2>3. /\ Len(us) = n - a /\ \A i \in 1 .. n - a : us[i] = T[a + i]
        /\ \A k \in a + 1 .. n : Changes(T[k]) => T[k].order_id_ \in 0 .. size - 1
    <3>1. Len(us) = n - a /\ \A i \in 1 .. n - a : us[i] = T[a + i]
      BY ONLY <1>3, <2>1
    <3>2. \A k \in a + 1 .. n : Changes(T[k]) => T[k].order_id_ \in 0 .. size - 1
      BY ONLY <1>5, <2>1
    <3> QED
      BY ONLY <3>1, <3>2
  <2>4. Part(T, a, n, size, us)
    BY ONLY <2>2, <2>3 DEF Part
  <2>5. Replayed(Table(h[a], size), us) = Table(h[n], size)
    BY ONLY <1>2, <2>4, ReplayedTable
  <2> QED
    BY <2>1, <2>5
<1> QED
  BY <1>1, <1>4, <1>6, SameReplayed, SameUpdates DEF Feed!OrdersAsOf

LEMMA SendPublishes ==
    ASSUME FInv, Publisher!Send, UNCHANGED snapshot PROVE Feed!Next
<1> SUFFICES ASSUME NEW T, NEW h, FeedOK(T, h) PROVE Feed!Next
  BY DEF FInv
<1>1. PICK q, n : q = outgoing_md_updates_ /\ n = next_inc_seq_num_
  OBVIOUS
<1>2. /\ q # <<>> /\ ~released
      /\ incremental' = Append(incremental, [seq_num_ |-> n, me_market_update_ |-> Head(q)])
  BY <1>1 DEF Publisher!Send
<1>3. /\ q \in Seq(Message) /\ n \in Nat \ {0}
      /\ Len(T) = n - 1 + Len(q)
      /\ \A i \in 1 .. Len(q) : q[i] = T[n - 1 + i]
      /\ incremental = [i \in 1 .. n - 1 |-> [seq_num_ |-> i, me_market_update_ |-> T[i]]]
  BY <1>1, <1>2 DEF FeedOK, PublisherOK
<1>4. PICK u : u = T[n]
  OBVIOUS
<1>5. Head(q) = u /\ n \in 1 .. Len(T) /\ n - 1 \in 0 .. Len(T) /\ n - 1 \in Nat
  <2>1. 1 \in 1 .. Len(q) /\ Head(q) = q[1] /\ Len(q) \in Nat
    BY ONLY <1>2, <1>3
  <2>2. n - 1 + 1 = n
    BY <1>3
  <2> QED
    BY <1>3, <1>4, <2>1, <2>2
<1>6. Feed!OrdersAsOf(n - 1) = Table(h[n - 1], MaxOrderId + 1)
  <2>1. n - 1 \in 0 .. n - 1
    BY <1>5
  <2> QED
    BY ONLY <1>3, <1>5, <2>1, FInv, FeedOK(T, h), OrdersAsOfIs
<1>7. PICK x : x = h[n - 1]
  OBVIOUS
<1>8. x \in Orders /\ u \in Message /\ AsExpected(x, u)
  <2>1. History(T, h)
    BY DEF FeedOK
  <2> QED
    BY <1>4, <1>5, <1>7, <2>1, HistoryTypes DEF History, Fits
<1>9. Changes(u) => u.order_id_ \in 0 .. (MaxOrderId + 1) - 1
  <2>1. next_market_order_id_ <= MaxOrderId + 1 /\ MaxOrderId + 1 \in Nat
    BY ExchangeFeedAssumption DEF FInv, BookProofs!IInv, BookProofs!TypeOK
  <2> QED
    BY <1>4, <1>5, <2>1, IdsInRange
<1>10. AsExpected(Table(x, MaxOrderId + 1)[Ticker], u) /\ u.ticker_id_ = Ticker
  BY <1>8, <1>9, TableApplied, ExchangeFeedAssumption DEF Message
<1>11. Len(incremental) = n - 1 /\ n - 1 + 1 = n
  <2> DEFINE e(i) == [seq_num_ |-> i, me_market_update_ |-> T[i]]
  <2>1. incremental = [i \in 1 .. n - 1 |-> e(i)]
    BY <1>3
  <2> HIDE DEF e
  <2> QED
    BY <1>3, <1>5, <2>1
<1>12. incremental \in Seq(Numbering \cup {incremental[i] : i \in 1 .. n - 1})
  <2> DEFINE e(i) == [seq_num_ |-> i, me_market_update_ |-> T[i]]
  <2>1. incremental = [i \in 1 .. n - 1 |-> e(i)]
    BY <1>3
  <2> HIDE DEF e
  <2> QED
    BY <1>5, <2>1
<1>13. PICK w : w = [seq_num_ |-> n, me_market_update_ |-> u]
  OBVIOUS
<1>14. w.me_market_update_ = u
  BY <1>13
<1>15. incremental' = Append(incremental, w) /\ w = [seq_num_ |-> n, me_market_update_ |-> u]
  BY <1>2, <1>5, <1>13
<1>16. Len(incremental') = n /\ incremental'[n] = w
  BY ONLY <1>5, <1>11, <1>12, <1>15, n \in Nat
<1>17. Len(incremental') > Len(incremental) /\ incremental'[Len(incremental')].me_market_update_ = u
  BY <1>5, <1>11, <1>14, <1>16
<1>18. Feed!Publish(u)
  <2>1. AsExpected(Feed!OrdersAsOf(Len(incremental))[u.ticker_id_], u)
    BY <1>6, <1>7, <1>10, <1>11
  <2>2. incremental' = Append(incremental, [seq_num_ |-> Len(incremental) + 1, me_market_update_ |-> u])
    BY <1>11, <1>15
  <2> QED
    BY <1>9, <2>1, <2>2, SameUpdates DEF Feed!Publish
<1> QED
  BY <1>17, <1>18 DEF Feed!Next

LEMMA SnapshotsPublish ==
    ASSUME FInv, Synthesizer!PublishSnapshot, UNCHANGED incremental PROVE Feed!Next
<1> SUFFICES ASSUME NEW T, NEW h, FeedOK(T, h) PROVE Feed!Next
  BY DEF FInv
<1>1. PICK last, x : last = last_inc_seq_num_ /\ x = h[last]
  OBVIOUS
<1>2. PICK N : N = next_inc_seq_num_ - (IF released THEN 0 ELSE 1)
  OBVIOUS
<1>3. incremental = [i \in 1 .. N |-> [seq_num_ |-> i, me_market_update_ |-> T[i]]]
  BY <1>2 DEF FeedOK, PublisherOK
<1>4. N \in 0 .. Len(T) /\ last \in 0 .. N /\ last \in 0 .. Len(T) /\ last \in Nat /\ N \in Nat
  <2>1. released => Len(outgoing_md_updates_) >= 1
    <3>1. outgoing_md_updates_ \in Seq(Message) /\ (released => outgoing_md_updates_ # <<>>)
      BY DEF FeedOK, PublisherOK
    <3>2. outgoing_md_updates_ # <<>> => Len(outgoing_md_updates_) >= 1
      BY ONLY <3>1
    <3> QED
      BY <3>1, <3>2
  <2>2. CASE released
    BY <1>1, <1>2, <2>1, <2>2, Places
  <2>3. CASE ~released
    BY <1>1, <1>2, <2>3, Places
  <2> QED
    BY <2>2, <2>3
<1>5. /\ x \in Orders /\ Live(x) \subseteq 0 .. ME_MAX_ORDER_IDS - 1
      /\ ticker_orders_ = Table(x, ME_MAX_ORDER_IDS)
      /\ snapshot # <<>> => last >= snapshot[1].me_market_update_.order_id_
  <2>1. History(T, h)
    BY DEF FeedOK
  <2>2. CopyOK(h)
    BY DEF FeedOK
  <2> QED
    BY <1>1, <1>4, <2>1, <2>2, HistoryTypes DEF CopyOK
<1>6. Live(x) \subseteq 0 .. (MaxOrderId + 1) - 1
  <2>1. next_market_order_id_ <= MaxOrderId + 1 /\ MaxOrderId + 1 \in Nat
    BY ExchangeFeedAssumption DEF FInv, BookProofs!IInv, BookProofs!TypeOK
  <2> QED
    BY <1>1, <1>4, <2>1, IdsInRange
<1>7. snapshot' = SnapshotOf(Table(x, ME_MAX_ORDER_IDS), last)
  BY <1>1, <1>5, SameSnapshotOf DEF Synthesizer!PublishSnapshot
<1>8. SnapshotOf(Table(x, ME_MAX_ORDER_IDS), last) = SnapshotOf(Table(x, MaxOrderId + 1), last)
  <2>1. ME_MAX_ORDER_IDS \in Nat /\ MaxOrderId + 1 \in Nat
    BY ExchangeFeedAssumption
  <2> QED
    BY ONLY <1>5, <1>6, <2>1, SameSnapshots
<1>9. Feed!OrdersAsOf(last) = Table(x, MaxOrderId + 1)
  <2>1. Feed!OrdersAsOf(last) = Table(h[last], MaxOrderId + 1)
    BY ONLY <1>3, <1>4, FInv, FeedOK(T, h), OrdersAsOfIs
  <2> QED
    BY <1>1, <2>1
<1>10. Len(incremental) = N
  <2> DEFINE e(i) == [seq_num_ |-> i, me_market_update_ |-> T[i]]
  <2>1. incremental = [i \in 1 .. N |-> e(i)]
    BY <1>3
  <2> HIDE DEF e
  <2> QED
    BY <1>4, <2>1
<1>11. Feed!PublishSnapshot(last)
  BY <1>5, <1>7, <1>8, <1>9, SameSnapshotOf DEF Feed!PublishSnapshot
<1> QED
  BY <1>4, <1>10, <1>11 DEF Feed!Next

LEMMA StepsOfTheFeed ==
    ASSUME FInv, [Next]_vars PROVE [Feed!Next]_(Feed!vars)
<1>1. CASE EngineStep
  BY <1>1 DEF EngineStep, Publisher!Receive, synthesizerVars, Feed!vars
<1>2. CASE PublisherStep
  <2>1. CASE Publisher!Send
    BY <1>2, <2>1, SendPublishes DEF PublisherStep, synthesizerVars
  <2>2. CASE Publisher!Forward
    BY <1>2, <2>2 DEF PublisherStep, Publisher!Forward, synthesizerVars, Feed!vars
  <2> QED
    BY <1>2, <2>1, <2>2 DEF PublisherStep, Publisher!Next
<1>3. CASE SynthesizerStep
  <2>1. CASE Synthesizer!PublishSnapshot
    BY <1>3, <2>1, SnapshotsPublish DEF SynthesizerStep, publisherVars
  <2>2. CASE Synthesizer!AddToSnapshot
    BY <1>3, <2>2 DEF SynthesizerStep, Synthesizer!AddToSnapshot, publisherVars, Feed!vars
  <2>3. CASE Synthesizer!Stop
    BY <1>3, <2>3 DEF SynthesizerStep, Synthesizer!Stop, publisherVars, Feed!vars
  <2> QED
    BY <1>3, <2>1, <2>2, <2>3 DEF SynthesizerStep, Synthesizer!Next
<1>4. CASE UNCHANGED vars
  BY <1>4 DEF vars, publisherVars, synthesizerVars, Feed!vars
<1> QED
  BY <1>1, <1>2, <1>3, <1>4 DEF Next
----------------------------------------------------------------------------
\* The exchange's market data threads keep their state well typed, and the
\* queue to the publisher, and what is released of it, consistent.
THEOREM TypeOKAlways == ASSUME BookProofs!NoAliasing, HeldBack PROVE Spec => []TypeOK
<1>1. FInv => TypeOK
  BY FInvTypeOK
<1> QED
  BY <1>1, FInvAlways, PTL

\* None of addToSnapshot's ASSERTs fails, unless the engine has run out of the
\* order ids that fit or the publisher has overrun the synthesizer's queue.
THEOREM StopsOnlyOverrunOrOutOfIdsAlways ==
    ASSUME BookProofs!NoAliasing, HeldBack PROVE Spec => []StopsOnlyOverrunOrOutOfIds
<1>1. FInv => StopsOnlyOverrunOrOutOfIds
  BY DEF FInv, FeedOK, StatusOK
<1> QED
  BY <1>1, FInvAlways, PTL

\* What the synthesizer has, and the updates still in the two queues applied to
\* it, are at all times the orders of the book: quantities, prices, priorities.
THEOREM NothingLostOnTheWayAlways ==
    ASSUME BookProofs!NoAliasing, HeldBack PROVE Spec => []NothingLostOnTheWay
<1>1. FInv => NothingLostOnTheWay
  BY FInvNothingLost
<1> QED
  BY <1>1, FInvAlways, PTL

\* What engine, publisher and synthesizer send together is what MarketDataFeed
\* promises: updates numbered without gaps, each of which fits what those before
\* it leave, and snapshots that are what the updates up to their number leave.
THEOREM ImplementsFeed ==
    ASSUME BookProofs!NoAliasing, HeldBack PROVE Spec => ImplementsMarketDataFeed
<1>1. Init => Feed!Init
  BY DEF Init, Publisher!Init, Synthesizer!Init, Feed!Init
<1>2. FInv /\ [Next]_vars => [Feed!Next]_(Feed!vars)
  BY StepsOfTheFeed
<1> QED
  BY <1>1, <1>2, FInvAlways, PTL DEF Spec, ImplementsMarketDataFeed, Feed!Spec
=============================================================================
