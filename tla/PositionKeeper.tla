--------------------------- MODULE PositionKeeper ---------------------------
(***************************************************************************)
(* trading/strategy/position_keeper.hpp: the position in one ticker and    *)
(* the profit made with it.                                                *)
(*                                                                         *)
(* Its doubles are integers here: the prices are multiples of a power of   *)
(* two large enough for the averages to be exact.  bbo_ is only printed.   *)
(* open_vwap_ has no initializer: it starts with what the memory holds.    *)
(***************************************************************************)
EXTENDS Integers, FiniteSetsExt

CONSTANTS
    Uninitialized   \* what open_vwap_ may hold before it is written

VARIABLES
    position_, real_pnl_, unreal_pnl_, total_pnl_, open_vwap_, volume_

BUY == 1
SELL == -1

Init ==
    /\ position_ = 0 /\ volume_ = 0
    /\ real_pnl_ = 0 /\ unreal_pnl_ = 0 /\ total_pnl_ = 0
    /\ open_vwap_ \in [{BUY, SELL} -> Uninitialized]
----------------------------------------------------------------------------
Abs(i) == IF i < 0 THEN -i ELSE i

\* The side of the position is that of the fill, or there is no position.
Opens(side) == position_ * side >= 0

\* What the open position has cost or brought per unit.
Average == open_vwap_[IF position_ > 0 THEN BUY ELSE SELL] \div Abs(position_)

\* Defect for the mutation runs: a position that turns around keeps its cost.
OpenVwapWithoutTurn(side, price, qty) ==
    IF position_ + side * qty = 0 THEN [s \in {BUY, SELL} |-> 0]
    ELSE IF Opens(side) THEN [open_vwap_ EXCEPT ![side] = @ + price * qty]
    ELSE [open_vwap_ EXCEPT ![-side] = Average * Abs(position_ + side * qty)]

OpenVwap(side, price, qty) ==
    LET position == position_ + side * qty
    IN  IF position = 0 THEN [s \in {BUY, SELL} |-> 0]
        ELSE IF Opens(side) THEN [open_vwap_ EXCEPT ![side] = @ + price * qty]
        ELSE IF position * position_ < 0
        THEN [open_vwap_ EXCEPT ![side] = price * Abs(position), ![-side] = 0]
        ELSE [open_vwap_ EXCEPT ![-side] = Average * Abs(position)]

\* The profit of closing the position at a price.
Unrealized(position, open_vwap, price) ==
    IF position = 0 THEN 0
    ELSE IF position > 0 THEN price * position - open_vwap[BUY]
    ELSE open_vwap[SELL] - price * Abs(position)

AddFill(side, price, qty) ==
    /\ position_' = position_ + side * qty
    /\ volume_' = volume_ + qty
    /\ open_vwap_' = OpenVwap(side, price, qty)
    /\ real_pnl_' = IF Opens(side) THEN real_pnl_
                    ELSE real_pnl_ + Min({qty, Abs(position_)}) * (Average - price) * side
    /\ unreal_pnl_' = Unrealized(position_', open_vwap_', price)
    /\ total_pnl_' = real_pnl_' + unreal_pnl_'

\* updateBBO, with a price on both sides (without, or with no position, it only
\* stores the BBO).
UpdateBBO(bid_price_, ask_price_) ==
    /\ position_ # 0
    /\ unreal_pnl_' = Unrealized(position_, open_vwap_, (bid_price_ + ask_price_) \div 2)
    /\ total_pnl_' = real_pnl_ + unreal_pnl_'
    /\ UNCHANGED <<position_, real_pnl_, open_vwap_, volume_>>
=============================================================================
