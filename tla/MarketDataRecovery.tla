------------------------- MODULE MarketDataRecovery -------------------------
(***************************************************************************)
(* The two market data streams on their way to a client: MarketDataFeed    *)
(* sends, the multicast network loses, reorders and perhaps duplicates     *)
(* datagrams, MarketDataConsumer receives.                                 *)
(*                                                                         *)
(* A datagram of the incremental stream is taken to hold one message:      *)
(* several that arrive together are several that arrive one after the      *)
(* other.                                                                  *)
(***************************************************************************)
EXTENDS Integers, Sequences, FiniteSets, MarketUpdates

CONSTANTS
    ME_MAX_TICKERS, ME_MAX_ORDER_IDS,
    Updates,            \* the updates the engine may send
    MaxUpdates,         \* bounds of the model: updates sent
    MaxSnapshots,       \* and snapshots published
    MaxDuplicates       \* and deliveries of a datagram that will come again

\* MEMarketUpdate, as the matching engine sends it.
MarketUpdate ==
    [type_ : {"ADD", "MODIFY", "CANCEL", "TRADE"}, ticker_id_ : 0 .. ME_MAX_TICKERS - 1,
     order_id_ : Nat, side_ : {"BUY", "SELL"}, price_ : Nat, qty_ : Nat, priority_ : Nat]

ASSUME MarketDataRecoveryAssumption ==
    /\ ME_MAX_TICKERS \in Nat \ {0} /\ ME_MAX_ORDER_IDS \in Nat
    /\ Updates \subseteq MarketUpdate
    /\ MaxUpdates \in Nat /\ MaxSnapshots \in Nat /\ MaxDuplicates \in Nat

VARIABLES
    incremental, snapshot,                  \* MarketDataFeed
    next_exp_inc_seq_num_, in_recovery_, joined, snapshot_queued_msgs_,
    incremental_queued_msgs_, inbound, forwarded, consumer, \* MarketDataConsumer
    published,                              \* numbers of the snapshots so far
    inFlight,                               \* datagrams on the network
    duplicates                              \* those it has delivered once too often

Feed == INSTANCE MarketDataFeed
Consumer == INSTANCE MarketDataConsumer

feedVars == <<incremental, snapshot, published>>
consumerVars == <<next_exp_inc_seq_num_, in_recovery_, joined, snapshot_queued_msgs_,
                  incremental_queued_msgs_, inbound, forwarded, consumer>>
networkVars == <<inFlight, duplicates>>
vars == <<feedVars, consumerVars, networkVars>>

Datagram(is_snapshot, messages) ==
    [is_snapshot |-> is_snapshot, messages |-> messages]

\* The datagrams of a snapshot: publishSnapshot calls sendAndRecv after every
\* order and after SNAPSHOT_END.
Packets(ms) ==
    LET cuts == {i \in DOMAIN ms :
                    ms[i].me_market_update_.type_ \in {"ADD", "SNAPSHOT_END"}}
        after(i) == {j \in cuts : j < i}
        start(i) == IF after(i) = {} THEN 1
                    ELSE 1 + CHOOSE j \in after(i) : \A k \in after(i) : k <= j
    IN  {SubSeq(ms, start(i), i) : i \in cuts}

Init ==
    /\ Feed!Init
    /\ Consumer!Init
    /\ published = <<>>
    /\ inFlight = {}
    /\ duplicates = 0

SendUpdate(u) ==
    /\ Len(incremental) < MaxUpdates
    /\ Feed!Publish(u)
    /\ inFlight' = inFlight \cup {Datagram(FALSE, <<incremental'[Len(incremental')]>>)}
    /\ UNCHANGED <<published, consumerVars, duplicates>>

\* Multicast reaches only who has joined.
SendSnapshot(n) ==
    /\ Len(published) < MaxSnapshots
    /\ Feed!PublishSnapshot(n)
    /\ published' = Append(published, n)
    /\ inFlight' = inFlight \cup
          {Datagram(TRUE, p) : p \in IF joined THEN Packets(snapshot') ELSE {}}
    /\ UNCHANGED <<consumerVars, duplicates>>

\* A datagram arrives; one that is lost stays in flight for ever.
Deliver(d) ==
    /\ Consumer!Receive(d.is_snapshot, d.messages)
    /\ \/ inFlight' = inFlight \ {d} /\ UNCHANGED duplicates
       \/ /\ duplicates < MaxDuplicates
          /\ duplicates' = duplicates + 1
          /\ UNCHANGED inFlight
    /\ UNCHANGED feedVars

ConsumerStep ==
    /\ Consumer!Handle
    /\ UNCHANGED <<feedVars, networkVars>>

Next ==
    \/ \E u \in Updates : SendUpdate(u)
    \/ \E n \in 0 .. Len(incremental) : SendSnapshot(n)
    \/ \E d \in inFlight : Deliver(d)
    \/ ConsumerStep

Spec == Init /\ [][Next]_vars
----------------------------------------------------------------------------
TypeOK ==
    /\ next_exp_inc_seq_num_ \in Nat
    /\ in_recovery_ \in BOOLEAN
    /\ joined \in BOOLEAN
    /\ joined => in_recovery_
    /\ DOMAIN incremental_queued_msgs_ \subseteq 1 .. Len(incremental)
    /\ DOMAIN snapshot_queued_msgs_ \subseteq Nat
    /\ consumer \in {"running", "crashed"}
    /\ Len(published) <= MaxSnapshots

\* Until the first gap, the strategy is given the incremental stream from its
\* beginning: no update twice, none out of order, however datagrams arrive.
ExactUntilTheFirstGap ==
    ~in_recovery_ =>
        forwarded = SubSeq(incremental, 1, next_exp_inc_seq_num_ - 1)

\* If no datagram comes twice, nothing is given to the strategy twice or out of
\* order, recovery included, and the only numbers left out are those up to the
\* number of a published snapshot.
GapsEndAtASnapshot ==
    duplicates = 0 => \A i \in DOMAIN forwarded :
        LET before == IF i = 1 THEN 0 ELSE forwarded[i - 1].seq_num_
            number == forwarded[i].seq_num_
        IN  /\ forwarded[i] = incremental[number]
            /\ \/ number = before + 1
               \/ /\ number > before
                  /\ \E k \in DOMAIN published : published[k] = number - 1

\* Recovery that has been completed, with messages in the queue of the strategy.
Synchronising == Consumer!Synchronise
Gathered == Consumer!SnapshotMessages

\* "Processed snapshot with % events and % incremental events."
\* (market_data_consumer.cpp:174) when a recovery is complete, and "Received
\* snapshot message while not in recovery mode." (:218) of one who is not in
\* recovery: what the log says has been processed has been given to the strategy,
\* or at least the consumer is out of recovery.
RecoveryCompletes ==
    [][Synchronising =>
          \/ Len(forwarded') - Len(forwarded) =
                Cardinality(DOMAIN Gathered) - 2
                + Cardinality(Consumer!Following(Gathered, Consumer!IncrementalMessages))
          \/ ~in_recovery_'
      ]_vars
=============================================================================
