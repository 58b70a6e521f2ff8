------------------------ MODULE SnapshotSynthesizer ------------------------
(***************************************************************************)
(* exchange/market_data/snapshot_synthesizer.cpp: keeps a copy of every    *)
(* live order of every instrument by applying the numbered updates, and    *)
(* publishes it from time to time.  One thread does both, so each is one   *)
(* step; when the clock calls for a snapshot is left open.                 *)
(***************************************************************************)
EXTENDS Integers, Sequences, FiniteSets, MarketUpdates

CONSTANTS
    ME_MAX_TICKERS,
    ME_MAX_ORDER_IDS    \* market order ids that fit, and size of order_pool_

VARIABLES
    snapshot_md_updates_,   \* from the publisher
    ticker_orders_,         \* ticker -> market order id -> order
    last_inc_seq_num_,
    snapshot,               \* the last snapshot published
    synthesizer             \* "running", or what has ended the process

replica == <<ticker_orders_, last_inc_seq_num_>>

Tickers == 0 .. ME_MAX_TICKERS - 1
OrderSlots == 0 .. ME_MAX_ORDER_IDS - 1

Init ==
    /\ ticker_orders_ = [t \in Tickers |-> [o \in OrderSlots |-> NoOrder]]
    /\ last_inc_seq_num_ = 0
    /\ snapshot = <<>>
    /\ synthesizer = "running"

\* The condition of addToSnapshot's ASSERT on the number.
IsNextNumber(m) == m.seq_num_ = last_inc_seq_num_ + 1

\* What ends the process instead: orders->at() throws, an ASSERT, the pool.
Obstacle(m) ==
    LET u == m.me_market_update_
        orders == ticker_orders_[u.ticker_id_]
        used == {s \in Tickers \X OrderSlots : ticker_orders_[s[1]][s[2]] # NoOrder}
    IN  IF Changes(u) /\ u.order_id_ \notin OrderSlots THEN "order id out of range"
        ELSE IF ~AsExpected(orders, u) THEN "order not as expected"
        ELSE IF u.type_ = "ADD" /\ Cardinality(used) + 1 = ME_MAX_ORDER_IDS
             THEN "out of space"
        ELSE IF ~IsNextNumber(m) THEN "number not as expected"
        ELSE "running"

\* Defect: an update of no interest is left in the queue.
AddChangesOnly ==
    LET m == Head(snapshot_md_updates_)
        u == m.me_market_update_
    IN  /\ synthesizer = "running"
        /\ snapshot_md_updates_ # <<>>
        /\ Obstacle(m) = "running"
        /\ Changes(u)
        /\ ticker_orders_' = AppliedTo(ticker_orders_, u)
        /\ last_inc_seq_num_' = m.seq_num_
        /\ snapshot_md_updates_' = Tail(snapshot_md_updates_)
        /\ UNCHANGED <<snapshot, synthesizer>>

\* addToSnapshot and updateReadIndex.
AddToSnapshot ==
    LET m == Head(snapshot_md_updates_)
        u == m.me_market_update_
    IN  /\ synthesizer = "running"
        /\ snapshot_md_updates_ # <<>>
        /\ Obstacle(m) = "running"
        /\ ticker_orders_' = AppliedTo(ticker_orders_, u)
        /\ last_inc_seq_num_' = m.seq_num_
        /\ snapshot_md_updates_' = Tail(snapshot_md_updates_)
        /\ UNCHANGED <<snapshot, synthesizer>>

\* addToSnapshot of an update it cannot apply.
Stop ==
    /\ synthesizer = "running"
    /\ snapshot_md_updates_ # <<>>
    /\ synthesizer' = Obstacle(Head(snapshot_md_updates_))
    /\ synthesizer' # "running"
    /\ UNCHANGED <<snapshot_md_updates_, replica, snapshot>>

\* Defect: a snapshot that names the number after its last.
PublishSnapshotTooFar ==
    /\ synthesizer = "running"
    /\ snapshot' = SnapshotOf(ticker_orders_, last_inc_seq_num_ + 1)
    /\ UNCHANGED <<snapshot_md_updates_, replica, synthesizer>>

\* publishSnapshot.
PublishSnapshot ==
    /\ synthesizer = "running"
    /\ snapshot' = SnapshotOf(ticker_orders_, last_inc_seq_num_)
    /\ UNCHANGED <<snapshot_md_updates_, replica, synthesizer>>

Next == AddToSnapshot \/ Stop \/ PublishSnapshot
=============================================================================
