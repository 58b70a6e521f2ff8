------------------------ MODULE MCMarketDataRecovery ------------------------
(* Instances of MarketDataRecovery for TLC.                                *)
EXTENDS MarketDataRecovery

\* Two orders enter the book of ticker 0, the first is modified or leaves again.
MCUpdate(type, id, qty) ==
    [type_ |-> type, ticker_id_ |-> 0, order_id_ |-> id, side_ |-> "BUY",
     price_ |-> 1, qty_ |-> qty, priority_ |-> id]
MCUpdates == {MCUpdate("ADD", 1, 2), MCUpdate("ADD", 2, 2), MCUpdate("MODIFY", 1, 1),
              MCUpdate("CANCEL", 1, 0)}
=============================================================================
