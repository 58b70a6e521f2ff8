---------------------------- MODULE MarketUpdates ----------------------------
(***************************************************************************)
(* exchange/market_data/market_update.hpp: what the messages of the two    *)
(* market data streams mean.  Orders are kept, as the synthesizer keeps    *)
(* them, as the ADD message they came with.                                *)
(***************************************************************************)
EXTENDS Integers, Sequences, FiniteSets

NoOrder == [type_ |-> "INVALID"]

Changes(u) == u.type_ \in {"ADD", "MODIFY", "CANCEL"}

\* Defect for the mutation runs: MODIFY falls through to CANCEL.
AppliedFallingThrough(orders, u) ==
    CASE u.type_ = "ADD" -> [orders EXCEPT ![u.order_id_] = u]
      [] u.type_ \in {"MODIFY", "CANCEL"} -> [orders EXCEPT ![u.order_id_] = NoOrder]
      [] OTHER -> orders

\* What the switch of addToSnapshot makes of the orders of a ticker.  (ADD falls
\* through to MODIFY, which sets what is set already.)
Applied(orders, u) ==
    CASE u.type_ = "ADD" -> [orders EXCEPT ![u.order_id_] = u]
      [] u.type_ = "MODIFY" -> [orders EXCEPT ![u.order_id_].qty_ = u.qty_,
                                              ![u.order_id_].price_ = u.price_]
      [] u.type_ = "CANCEL" -> [orders EXCEPT ![u.order_id_] = NoOrder]
      [] OTHER -> orders

\* The conditions of its ASSERTs on the order.
AsExpected(orders, u) ==
    CASE u.type_ = "ADD" -> orders[u.order_id_] = NoOrder
      [] u.type_ \in {"MODIFY", "CANCEL"} ->
            /\ orders[u.order_id_] # NoOrder
            /\ orders[u.order_id_].side_ = u.side_
      [] OTHER -> TRUE

\* The orders of all tickers after one update, and after a sequence of them.
AppliedTo(ticker_orders, u) ==
    IF Changes(u)
    THEN [ticker_orders EXCEPT ![u.ticker_id_] = Applied(@, u)]
    ELSE ticker_orders
Replayed(ticker_orders, us) ==
    LET after[n \in 0 .. Len(us)] ==
            IF n = 0 THEN ticker_orders ELSE AppliedTo(after[n - 1], us[n])
    IN  after[Len(us)]

UpdatesIn(ms) == [i \in DOMAIN ms |-> ms[i].me_market_update_]
----------------------------------------------------------------------------
(* The messages of a snapshot, as publishSnapshot sends them.              *)

Marker(type, number) == [type_ |-> type, order_id_ |-> number]
Clear(t) == [type_ |-> "CLEAR", ticker_id_ |-> t]

\* The live orders among those of a ticker, in the order of their ids.
InIdOrder(orders) ==
    LET live[n \in 0 .. Cardinality(DOMAIN orders)] ==
            IF n = 0 THEN <<>>
            ELSE IF orders[n - 1] = NoOrder THEN live[n - 1]
            ELSE Append(live[n - 1], orders[n - 1])
    IN  live[Cardinality(DOMAIN orders)]

\* Messages numbered from 0, as the snapshot stream numbers them.
Numbered(us) ==
    [i \in 1 .. Len(us) |-> [seq_num_ |-> i - 1, me_market_update_ |-> us[i]]]

\* A CLEAR and the orders of each ticker, between markers naming the number of
\* the last update included.
SnapshotOf(ticker_orders, number) ==
    LET body[t \in DOMAIN ticker_orders] ==
            (IF t = 0 THEN <<>> ELSE body[t - 1])
            \o <<Clear(t)>> \o InIdOrder(ticker_orders[t])
    IN  Numbered(<<Marker("SNAPSHOT_START", number)>>
                 \o body[Cardinality(DOMAIN ticker_orders) - 1]
                 \o <<Marker("SNAPSHOT_END", number)>>)
=============================================================================
