---------------------------- MODULE ExchangeFeed ----------------------------
(***************************************************************************)
(* The market data side of the exchange: the order book of one instrument, *)
(* the publisher and the snapshot synthesizer, three threads with a queue  *)
(* between each two.                                                       *)
(*                                                                         *)
(* MaxOutgoing and MaxToSynthesizer say how far the queues' consumers may  *)
(* fall behind, which nothing in the code limits.                          *)
(***************************************************************************)
EXTENDS Integers, Sequences, FiniteSets

CONSTANTS
    Clients, Oids, Prices, Qtys, ME_MAX_PRICE_LEVELS, ME_MAX_ORDER_IDS, MaxOrderId,
    ME_MAX_TICKERS, ME_MAX_MARKET_UPDATES,
    MaxOutgoing,        \* most updates waiting for the publisher
    MaxToSynthesizer    \* most updates waiting for the synthesizer

ASSUME ExchangeFeedAssumption ==
    /\ Prices \subseteq Nat \ {0} /\ Qtys \subseteq Nat
    /\ ME_MAX_PRICE_LEVELS \in Nat \ {0} /\ ME_MAX_ORDER_IDS \in Nat \ {0}
    /\ MaxOrderId \in Nat
    /\ ME_MAX_TICKERS \in Nat \ {0}
    /\ ME_MAX_MARKET_UPDATES \in Nat \ {0}
    /\ MaxOutgoing \in Nat /\ MaxToSynthesizer \in Nat

VARIABLES
    \* MEOrderBook
    order_pool_, orders_at_price_pool_, price_orders_at_price_, best_by_price,
    cid_oid_to_order_, next_market_order_id_, incoming, responses, updates, exited,
    \* MarketDataPublisher
    outgoing_md_updates_, released, next_inc_seq_num_, incremental,
    \* SnapshotSynthesizer
    snapshot_md_updates_, ticker_orders_, last_inc_seq_num_, snapshot, synthesizer

Book == INSTANCE MEOrderBook
Publisher == INSTANCE MarketDataPublisher
Synthesizer == INSTANCE SnapshotSynthesizer

bookVars == <<order_pool_, orders_at_price_pool_, price_orders_at_price_,
              best_by_price, cid_oid_to_order_, next_market_order_id_, incoming,
              responses, updates, exited>>
publisherVars == <<outgoing_md_updates_, released, next_inc_seq_num_, incremental>>
synthesizerVars == <<ticker_orders_, last_inc_seq_num_, snapshot, synthesizer>>
vars == <<bookVars, publisherVars, snapshot_md_updates_, synthesizerVars>>

Ticker == 0     \* the book's

Init == Book!Init /\ Publisher!Init /\ Synthesizer!Init

\* A failed ASSERT in one thread ends all.
Running == ~exited /\ synthesizer = "running"

\* The engine's messages as they leave it: with the book's ticker.
Sent == [i \in DOMAIN updates |->
            [f \in DOMAIN updates[i] \cup {"ticker_id_"} |->
                IF f = "ticker_id_" THEN Ticker ELSE updates[i][f]]]

EngineStep ==
    /\ Running
    /\ Book!Next
    /\ Publisher!Waiting + Len(updates') <= MaxOutgoing
    /\ Publisher!Receive(Sent')
    /\ UNCHANGED synthesizerVars

PublisherStep ==
    /\ Running
    /\ Len(snapshot_md_updates_) < MaxToSynthesizer
    /\ Publisher!Next
    /\ UNCHANGED <<bookVars, synthesizerVars>>

SynthesizerStep ==
    /\ Running
    /\ Synthesizer!Next
    /\ UNCHANGED <<bookVars, publisherVars>>

Next == EngineStep \/ PublisherStep \/ SynthesizerStep

\* Publisher and synthesizer poll their queues until run_ is cleared.
Fairness ==
    /\ WF_vars(PublisherStep)
    /\ WF_vars(Running /\ (Synthesizer!AddToSnapshot \/ Synthesizer!Stop)
               /\ UNCHANGED <<bookVars, publisherVars>>)

Spec == Init /\ [][Next]_vars /\ Fairness
----------------------------------------------------------------------------
\* The orders of the book, as market data describes them.
BookOrders ==
    [id \in Book!LiveOrders |->
        [side_ |-> order_pool_[id].side_, price_ |-> order_pool_[id].price_,
         qty_ |-> order_pool_[id].qty_, priority_ |-> order_pool_[id].priority_]]

\* The same of orders kept as the ADD messages they came with.
Described(orders) ==
    [id \in {o \in DOMAIN orders : orders[o] # Synthesizer!NoOrder} |->
        [side_ |-> orders[id].side_, price_ |-> orders[id].price_,
         qty_ |-> orders[id].qty_, priority_ |-> orders[id].priority_]]

TypeOK ==
    /\ Book!TypeOK
    /\ released \in BOOLEAN
    /\ next_inc_seq_num_ \in Nat \ {0}
    /\ last_inc_seq_num_ \in Nat
    /\ released => outgoing_md_updates_ # <<>>
    /\ Len(outgoing_md_updates_) <= MaxOutgoing + 1
    /\ Len(snapshot_md_updates_) <= MaxToSynthesizer
    /\ synthesizer \in {"running", "order id out of range", "order not as expected",
                        "out of space", "number not as expected"}

\* A synthesizer a whole queue behind, busy with a snapshot perhaps, finds newer
\* updates in the place of those it has yet to read.
Overrun == Len(snapshot_md_updates_) > ME_MAX_MARKET_UPDATES

\* The synthesizer's copy and the updates on their way to it make up the book:
\* quantity, price and priority of every live order, and no other order.
NothingLostOnTheWay ==
    Running /\ ~Overrun /\ next_market_order_id_ <= ME_MAX_ORDER_IDS =>
        Described(Synthesizer!Replayed(ticker_orders_,
            Synthesizer!UpdatesIn(snapshot_md_updates_) \o outgoing_md_updates_)[Ticker])
        = BookOrders

\* Clients are sent what MarketDataFeed promises: a gapless stream in which every
\* update fits, and snapshots that are the book as of the number they name.  (The
\* stream goes on to order ids that the synthesizer has no place for.)  Snapshots
\* are that even after an overrun: none goes out that has missed an update.
Feed == INSTANCE MarketDataFeed WITH ME_MAX_ORDER_IDS <- MaxOrderId + 1
ImplementsMarketDataFeed == Feed!Spec

\* The synthesizer's ASSERTs hold but for an overrun; what else stops it is the
\* engine's count of market order ids, which goes on when ids no longer fit the
\* synthesizer's tables.
StopsOnlyOverrunOrOutOfIds ==
    synthesizer # "running" =>
        \/ Overrun
        \/ /\ synthesizer = "order id out of range"
           /\ next_market_order_id_ > ME_MAX_ORDER_IDS

\* Every update sent to clients reaches the synthesizer, unless the process ends.
SynthesizerCatchesUp ==
    \A n \in 1 .. 3 :
        Len(incremental) >= n ~> last_inc_seq_num_ >= n \/ ~Running
=============================================================================
