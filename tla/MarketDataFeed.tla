--------------------------- MODULE MarketDataFeed ---------------------------
(***************************************************************************)
(* What clients count on from the exchange's market data: the incremental  *)
(* stream is numbered without gaps from 1 and each update in it fits the   *)
(* orders those before it leave; a snapshot is what all updates up to the  *)
(* number it names amount to.                                              *)
(***************************************************************************)
EXTENDS Integers, Sequences, MarketUpdates

CONSTANTS ME_MAX_TICKERS, ME_MAX_ORDER_IDS

VARIABLES
    incremental,    \* all messages of the incremental stream
    snapshot        \* the last snapshot published

vars == <<incremental, snapshot>>

NoOrders == [t \in 0 .. ME_MAX_TICKERS - 1 |->
                [o \in 0 .. ME_MAX_ORDER_IDS - 1 |-> NoOrder]]
OrdersAsOf(n) == Replayed(NoOrders, UpdatesIn(SubSeq(incremental, 1, n)))

Init == incremental = <<>> /\ snapshot = <<>>

Publish(u) ==
    /\ Changes(u) => /\ u.order_id_ \in 0 .. ME_MAX_ORDER_IDS - 1
                     /\ AsExpected(OrdersAsOf(Len(incremental))[u.ticker_id_], u)
    /\ incremental' = Append(incremental, [seq_num_ |-> Len(incremental) + 1,
                                           me_market_update_ |-> u])
    /\ UNCHANGED snapshot

\* The snapshot may lag behind the stream, but not behind an earlier one.
PublishSnapshot(n) ==
    /\ snapshot # <<>> => n >= snapshot[1].me_market_update_.order_id_
    /\ snapshot' = SnapshotOf(OrdersAsOf(n), n)
    /\ UNCHANGED incremental

\* Any update at all: the one the step has appended.
Next ==
    \/ /\ Len(incremental') > Len(incremental)
       /\ Publish(incremental'[Len(incremental')].me_market_update_)
    \/ \E n \in 0 .. Len(incremental) : PublishSnapshot(n)

Spec == Init /\ [][Next]_vars
=============================================================================
