---------------------- MODULE MarketDataRecoveryProofs ----------------------
(***************************************************************************)
(* Two results for every set of updates, however many are sent.  Whatever  *)
(* is lost, reordered or delivered again, until the first gap a client is  *)
(* given exactly the incremental stream.  And if nothing is delivered      *)
(* twice, it is given nothing twice or out of order, recovery included:    *)
(* what it misses ends at the number of a published snapshot.              *)
(*                                                                         *)
(* For the first, what a client forwards is compared with the stream place *)
(* by place, so that the stream may grow behind it (IInv): a message keeps *)
(* its number on the network and in the client's buffer, the numbers are   *)
(* the places in the stream, and outside recovery no datagram is from the  *)
(* snapshot stream.                                                        *)
(*                                                                         *)
(* For the second the snapshots count as well (RInv): what they consist of *)
(* is proved from the operators the publisher and the synthesizer share,   *)
(* SNAPSHOT_START can only be first in a datagram and SNAPSHOT_END names   *)
(* the number of a snapshot that has been published.                       *)
(***************************************************************************)
EXTENDS MarketDataRecovery, RecursionProofs, SequenceTheorems

Messages == [seq_num_ : Nat, me_market_update_ : Updates]

\* The message, as it has been sent under its number.
OfTheStream(m) ==
    /\ m.seq_num_ \in 1 .. Len(incremental)
    /\ incremental[m.seq_num_] = m

\* A datagram of the incremental stream, on the network or received.
IncrementalDatagram(d) == \E m \in Messages : d.messages = <<m>> /\ OfTheStream(m)

StreamOK ==
    /\ incremental \in Seq(Messages)
    /\ \A i \in 1 .. Len(incremental) : incremental[i].seq_num_ = i

NetworkOK ==
    \A d \in inFlight :
        /\ d.is_snapshot \in BOOLEAN
        /\ ~d.is_snapshot => IncrementalDatagram(d)

InboundOK ==
    /\ inbound = [is_snapshot |-> inbound.is_snapshot, messages |-> inbound.messages]
    /\ inbound.is_snapshot \in BOOLEAN
    /\ inbound # Consumer!Nothing /\ ~inbound.is_snapshot => IncrementalDatagram(inbound)

ForwardedOK ==
    ~in_recovery_ =>
        /\ ~joined
        /\ ~inbound.is_snapshot
        /\ next_exp_inc_seq_num_ \in 1 .. Len(incremental) + 1
        /\ forwarded \in Seq(Messages)
        /\ Len(forwarded) = next_exp_inc_seq_num_ - 1
        /\ \A i \in 1 .. Len(forwarded) : forwarded[i] = incremental[i]

IInv == StreamOK /\ NetworkOK /\ InboundOK /\ ForwardedOK
----------------------------------------------------------------------------
LEMMA InitIInv == Init => IInv
  BY DEF Init, Feed!Init, Consumer!Init, IInv, StreamOK, NetworkOK, InboundOK,
         ForwardedOK, Consumer!Nothing, Messages

\* An update joins the stream; what has been sent before keeps its place.
LEMMA SendUpdateIInv ==
    ASSUME IInv, NEW u \in Updates, SendUpdate(u) PROVE IInv'
<1> USE DEF IInv
<1>0. PICK m \in Messages :
        m = [seq_num_ |-> Len(incremental) + 1, me_market_update_ |-> u]
  <2>1. Len(incremental) + 1 \in Nat
    BY DEF StreamOK
  <2> QED
    BY <2>1 DEF Messages
<1>1. /\ incremental' = Append(incremental, m)
      /\ inFlight' = inFlight \cup {Datagram(FALSE, <<incremental'[Len(incremental')]>>)}
      /\ UNCHANGED consumerVars
  BY <1>0 DEF SendUpdate, Feed!Publish
<1>2. /\ incremental \in Seq(Messages)
      /\ incremental' \in Seq(Messages)
      /\ Len(incremental') = Len(incremental) + 1 /\ Len(incremental) \in Nat
      /\ \A i \in 1 .. Len(incremental) : incremental'[i] = incremental[i]
      /\ incremental'[Len(incremental')] = m
  BY <1>1 DEF StreamOK
<1>3. \A n \in Messages : OfTheStream(n) => OfTheStream(n)'
  BY <1>2 DEF OfTheStream
<1>4. m.seq_num_ = Len(incremental) + 1
  BY <1>0
<1>5. OfTheStream(m)'
  BY <1>2, <1>4 DEF OfTheStream
<1>6. StreamOK'
  BY <1>2, <1>4 DEF StreamOK
<1>7. NetworkOK'
  <2> SUFFICES ASSUME NEW d \in inFlight'
               PROVE d.is_snapshot \in BOOLEAN /\ (~d.is_snapshot => IncrementalDatagram(d)')
    BY DEF NetworkOK, IncrementalDatagram
  <2>1. CASE d \in inFlight
    BY <2>1, <1>3 DEF NetworkOK, IncrementalDatagram
  <2>2. CASE d = Datagram(FALSE, <<m>>)
    BY <2>2, <1>2, <1>5 DEF Datagram, IncrementalDatagram
  <2> QED
    BY <2>1, <2>2, <1>1, <1>2
<1>8. InboundOK'
  BY <1>1, <1>3 DEF consumerVars, InboundOK, IncrementalDatagram, Consumer!Nothing
<1>9. ForwardedOK'
  BY <1>1, <1>2 DEF consumerVars, ForwardedOK
<1> QED
  BY <1>6, <1>7, <1>8, <1>9

\* The snapshot stream adds datagrams of its own and nothing else.
LEMMA SendSnapshotIInv ==
    ASSUME IInv, NEW n \in 0 .. Len(incremental), SendSnapshot(n) PROVE IInv'
<1> USE DEF IInv
<1>1. /\ UNCHANGED incremental /\ UNCHANGED consumerVars
      /\ \A d \in inFlight' : d \in inFlight \/ d.is_snapshot = TRUE
  BY DEF SendSnapshot, Feed!PublishSnapshot, Datagram
<1>2. StreamOK' /\ InboundOK' /\ ForwardedOK'
  BY <1>1 DEF consumerVars, StreamOK, InboundOK, ForwardedOK, IncrementalDatagram,
              OfTheStream, Consumer!Nothing
<1>3. NetworkOK'
  BY <1>1 DEF NetworkOK, IncrementalDatagram, OfTheStream
<1> QED
  BY <1>2, <1>3

\* A datagram is received whole; one of the snapshot stream only in recovery.
LEMMA DeliverIInv ==
    ASSUME IInv, NEW d \in inFlight, Deliver(d) PROVE IInv'
<1> USE DEF IInv
<1>1. /\ UNCHANGED incremental /\ inFlight' \subseteq inFlight
      /\ inbound' = [is_snapshot |-> d.is_snapshot, messages |-> d.messages]
      /\ d.is_snapshot => joined
      /\ UNCHANGED <<next_exp_inc_seq_num_, in_recovery_, joined, forwarded>>
  BY DEF Deliver, Consumer!Receive, feedVars
<1>2. StreamOK' /\ NetworkOK'
  BY <1>1 DEF StreamOK, NetworkOK, IncrementalDatagram, OfTheStream
<1>3. InboundOK'
  BY <1>1 DEF NetworkOK, InboundOK, IncrementalDatagram, OfTheStream
<1>4. ForwardedOK'
  BY <1>1 DEF NetworkOK, ForwardedOK
<1> QED
  BY <1>2, <1>3, <1>4

\* After a message of the incremental stream its datagram is used up.
LEMMA NextRequestOK ==
    ASSUME IInv, Consumer!Handling, Consumer!NextRequest, UNCHANGED incremental
    PROVE  InboundOK' /\ (~inbound.is_snapshot => inbound' = Consumer!Nothing)
<1> USE DEF IInv
<1>1. CASE inbound.is_snapshot
  BY <1>1 DEF InboundOK, Consumer!NextRequest, Consumer!Nothing
<1>2. CASE ~inbound.is_snapshot
  <2>1. Len(inbound.messages) = 1
    BY <1>2 DEF InboundOK, Consumer!Handling, IncrementalDatagram
  <2> QED
    BY <2>1, <1>2 DEF InboundOK, Consumer!NextRequest, Consumer!Nothing
<1> QED
  BY <1>1, <1>2 DEF InboundOK

LEMMA ConsumerStepIInv == ASSUME IInv, ConsumerStep PROVE IInv'
<1> USE DEF IInv
<1>1. /\ UNCHANGED <<incremental, inFlight>>
      /\ Consumer!Handling /\ Consumer!NextRequest
      /\ Consumer!Handle
  BY DEF ConsumerStep, feedVars, networkVars, Consumer!Handle, Consumer!PassOn,
         Consumer!StartSnapshotSync, Consumer!AwaitSnapshot,
         Consumer!DropIncrementals, Consumer!Synchronise
<1>2. StreamOK' /\ NetworkOK'
  BY <1>1 DEF StreamOK, NetworkOK, IncrementalDatagram, OfTheStream
<1>3. InboundOK' /\ (~inbound.is_snapshot => inbound' = Consumer!Nothing)
  BY <1>1, NextRequestOK
<1>4. ForwardedOK'
  <2>1. CASE Consumer!PassOn
    <3>1. /\ ~in_recovery_ /\ UNCHANGED <<in_recovery_, joined>>
          /\ Consumer!Request.seq_num_ = next_exp_inc_seq_num_
          /\ next_exp_inc_seq_num_' = next_exp_inc_seq_num_ + 1
          /\ forwarded' = Append(forwarded, Consumer!Request)
      BY <2>1 DEF Consumer!PassOn
    <3>2. PICK m \in Messages : inbound.messages = <<m>> /\ OfTheStream(m)
      BY <1>1, <3>1 DEF Consumer!Handling, ForwardedOK, InboundOK, IncrementalDatagram
    <3>3. Consumer!Request = m
      BY <3>2 DEF Consumer!Request
    <3>4. /\ next_exp_inc_seq_num_ \in 1 .. Len(incremental)
          /\ incremental[next_exp_inc_seq_num_] = m
      BY <3>1, <3>2, <3>3 DEF OfTheStream
    <3>5. ~inbound'.is_snapshot
      BY <1>3, <3>1 DEF ForwardedOK, Consumer!Nothing
    <3> QED
      BY <1>1, <3>1, <3>3, <3>4, <3>5 DEF ForwardedOK, StreamOK
  <2>2. CASE in_recovery_'
    BY <2>2 DEF ForwardedOK
  <2> QED
    BY <1>1, <2>1, <2>2 DEF Consumer!Handle, Consumer!StartSnapshotSync,
       Consumer!AwaitSnapshot, Consumer!DropIncrementals, Consumer!Synchronise
<1> QED
  BY <1>2, <1>3, <1>4

LEMMA NextIInv == IInv /\ [Next]_vars => IInv'
<1> SUFFICES ASSUME IInv, [Next]_vars PROVE IInv'
  OBVIOUS
<1>1. ASSUME NEW u \in Updates, SendUpdate(u) PROVE IInv'
  BY <1>1, SendUpdateIInv
<1>2. ASSUME NEW n \in 0 .. Len(incremental), SendSnapshot(n) PROVE IInv'
  BY <1>2, SendSnapshotIInv
<1>3. ASSUME NEW d \in inFlight, Deliver(d) PROVE IInv'
  BY <1>3, DeliverIInv
<1>4. CASE ConsumerStep
  BY <1>4, ConsumerStepIInv
<1>5. CASE UNCHANGED vars
  BY <1>5 DEF vars, feedVars, consumerVars, networkVars, IInv, StreamOK, NetworkOK,
     InboundOK, ForwardedOK, IncrementalDatagram, OfTheStream, Consumer!Nothing
<1> QED
  BY <1>1, <1>2, <1>3, <1>4, <1>5 DEF Next

LEMMA IInvExact == IInv => ExactUntilTheFirstGap
<1> SUFFICES ASSUME IInv, ~in_recovery_
             PROVE forwarded = SubSeq(incremental, 1, next_exp_inc_seq_num_ - 1)
  BY DEF ExactUntilTheFirstGap
<1> DEFINE sent == SubSeq(incremental, 1, next_exp_inc_seq_num_ - 1)
<1>1. /\ incremental \in Seq(Messages) /\ forwarded \in Seq(Messages)
      /\ next_exp_inc_seq_num_ \in 1 .. Len(incremental) + 1
      /\ Len(forwarded) = next_exp_inc_seq_num_ - 1
      /\ \A i \in 1 .. Len(forwarded) : forwarded[i] = incremental[i]
  BY DEF IInv, StreamOK, ForwardedOK
<1>2. /\ sent \in Seq(Messages) /\ Len(sent) = Len(forwarded)
      /\ \A i \in 1 .. Len(sent) : sent[i] = incremental[i]
  BY <1>1
<1> HIDE DEF sent
<1>3. forwarded = sent
  BY <1>1, <1>2
<1> QED
  BY <1>3 DEF sent

\* However datagrams are lost, reordered or repeated, until the first gap the
\* strategy is given exactly the incremental stream from its beginning.
THEOREM ExactUntilTheFirstGapAlways == Spec => []ExactUntilTheFirstGap
<1>1. Spec => []IInv
  BY InitIInv, NextIInv, PTL DEF Spec
<1> QED
  BY <1>1, IInvExact, PTL
----------------------------------------------------------------------------
(* Data: the orders replayed from a stream, and the messages of a snapshot.*)

\* A bounded set of naturals has a greatest member.
LEMMA GreatestNatural ==
    ASSUME NEW b \in Nat, NEW S, S \subseteq 0 .. b, S # {}
    PROVE  \E n \in S : \A m \in S : m <= n
<1> DEFINE Distances == {b - n : n \in S}
<1>1. PICK k \in Distances : \A j \in Distances : k <= j
  <2>1. \A n \in S : b - n \in Nat
    OBVIOUS
  <2>2. Distances \subseteq Nat /\ Distances # {}
    BY <2>1
  <2> HIDE DEF Distances
  <2> QED
    BY <2>2, LeastNatural
<1>2. PICK n \in S : k = b - n
  OBVIOUS
<1>3. \A m \in S : b - m \in Distances /\ b - m \in Nat /\ m \in Nat
  OBVIOUS
<1> HIDE DEF Distances
<1>4. \A m \in S : m <= n
  BY <1>1, <1>2, <1>3
<1> QED
  BY <1>4

\* What is kept of an order: the ADD message it came with.
Kept == {NoOrder} \cup {u \in MarketUpdate : u.type_ = "ADD"}
Books == [0 .. ME_MAX_TICKERS - 1 -> [0 .. ME_MAX_ORDER_IDS - 1 -> Kept]]

\* MODIFY sets the price and the quantity of an order, and makes none.
LEMMA ModifiedIsKept ==
    ASSUME NEW O, NEW orders \in [O -> Kept], NEW id, NEW q \in Nat, NEW p \in Nat
    PROVE  [orders EXCEPT ![id].qty_ = q, ![id].price_ = p] \in [O -> Kept]
<1> DEFINE after == [orders EXCEPT ![id].qty_ = q, ![id].price_ = p]
<1>1. CASE id \notin O
  <2>1. after = orders
    BY <1>1
  <2> QED
    BY <2>1
<1>2. CASE id \in O
  <2>1. PICK r \in Kept : r = orders[id]
    BY <1>2
  <2> DEFINE s == [r EXCEPT !.qty_ = q, !.price_ = p]
  <2>2. after = [orders EXCEPT ![id] = s]
    BY <1>2, <2>1
  <2>3. s \in Kept
    <3>1. CASE r = NoOrder
      <4>1. s = r
        BY <3>1 DEF NoOrder
      <4> QED
        BY <4>1
    <3>2. CASE r \in {u \in MarketUpdate : u.type_ = "ADD"}
      BY <3>2 DEF Kept, MarketUpdate
    <3> QED
      BY <3>1, <3>2 DEF Kept
  <2> HIDE DEF s
  <2> QED
    BY <2>2, <2>3
<1> QED
  BY <1>1, <1>2

LEMMA AppliedIsKept ==
    ASSUME NEW O, NEW orders \in [O -> Kept], NEW u \in MarketUpdate
    PROVE  Applied(orders, u) \in [O -> Kept]
<1>1. CASE u.type_ = "ADD"
  <2>1. Applied(orders, u) = [orders EXCEPT ![u.order_id_] = u]
    BY <1>1 DEF Applied
  <2>2. u \in Kept
    BY <1>1 DEF Kept
  <2> QED
    BY <2>1, <2>2
<1>2. CASE u.type_ = "MODIFY"
  <2>1. Applied(orders, u) = [orders EXCEPT ![u.order_id_].qty_ = u.qty_,
                                            ![u.order_id_].price_ = u.price_]
    BY <1>2 DEF Applied
  <2>2. u.qty_ \in Nat /\ u.price_ \in Nat
    BY DEF MarketUpdate
  <2> QED
    BY <2>1, <2>2, ModifiedIsKept
<1>3. CASE u.type_ = "CANCEL"
  <2>1. Applied(orders, u) = [orders EXCEPT ![u.order_id_] = NoOrder]
    BY <1>3 DEF Applied
  <2>2. NoOrder \in Kept
    BY DEF Kept
  <2> QED
    BY <2>1, <2>2
<1>4. CASE u.type_ = "TRADE"
  BY <1>4 DEF Applied
<1> QED
  BY <1>1, <1>2, <1>3, <1>4 DEF MarketUpdate

LEMMA AppliedToIsKept ==
    ASSUME NEW books \in Books, NEW u \in MarketUpdate
    PROVE  AppliedTo(books, u) \in Books
<1>1. CASE Changes(u)
  <2>1. u.ticker_id_ \in 0 .. ME_MAX_TICKERS - 1
    BY DEF MarketUpdate
  <2>2. books[u.ticker_id_] \in [0 .. ME_MAX_ORDER_IDS - 1 -> Kept]
    BY <2>1 DEF Books
  <2>3. Applied(books[u.ticker_id_], u) \in [0 .. ME_MAX_ORDER_IDS - 1 -> Kept]
    BY <2>2, AppliedIsKept
  <2>4. AppliedTo(books, u) = [books EXCEPT ![u.ticker_id_] = Applied(books[u.ticker_id_], u)]
    BY <1>1 DEF AppliedTo
  <2> QED
    BY <2>1, <2>3, <2>4 DEF Books
<1>2. CASE ~Changes(u)
  BY <1>2 DEF AppliedTo
<1> QED
  BY <1>1, <1>2

\* Whatever is replayed, the books are books.
LEMMA ReplayedIsKept ==
    ASSUME NEW books \in Books, NEW us \in Seq(MarketUpdate)
    PROVE  Replayed(books, us) \in Books
<1> DEFINE n == Len(us)
           step == [i \in 1 .. n |-> [b \in Books |-> AppliedTo(b, us[i])]]
           Is(f) == f = [i \in 0 .. n |-> IF i = 0 THEN books ELSE AppliedTo(f[i - 1], us[i])]
           after == CHOOSE f : Is(f)
<1>0. n \in Nat
  OBVIOUS
<1>1. step \in [1 .. n -> [Books -> Books]]
  BY AppliedToIsKept
<1>2. PICK f \in [0 .. n -> Books] : Recursive(f, n, books, step)
  <2> HIDE DEF n, step
  <2> QED
    BY <1>0, <1>1, RecursionExists
<1>3. Is(f)
  <2>1. \A i \in 0 .. n : (IF i = 0 THEN books ELSE step[i][f[i - 1]])
                            = (IF i = 0 THEN books ELSE AppliedTo(f[i - 1], us[i]))
    OBVIOUS
  <2> HIDE DEF step
  <2>2. [i \in 0 .. n |-> IF i = 0 THEN books ELSE step[i][f[i - 1]]]
        = [i \in 0 .. n |-> IF i = 0 THEN books ELSE AppliedTo(f[i - 1], us[i])]
    BY ONLY <2>1
  <2> QED
    BY <1>2, <2>2 DEF Recursive
<1>4. Is(after)
  <2> HIDE DEF Is
  <2> QED
    BY <1>3
<1>5. \A i \in 1 .. n : after[i - 1] \in Books => after[i] \in Books
  <2> SUFFICES ASSUME NEW i \in 1 .. n, after[i - 1] \in Books PROVE after[i] \in Books
    OBVIOUS
  <2>1. after[i] = AppliedTo(after[i - 1], us[i])
    <3> HIDE DEF after
    <3> QED
      BY <1>4
  <2> HIDE DEF after
  <2> QED
    BY <2>1, AppliedToIsKept
<1>6. after[n] \in Books
  <2> DEFINE S == {i \in 0 .. n : after[i] \in Books}
  <2>1. after[0] = books
    <3> HIDE DEF after
    <3> QED
      BY <1>4
  <2>2. 0 \in S /\ \A i \in 1 .. n : i - 1 \in S => i \in S
    <3> HIDE DEF after
    <3> QED
      BY <1>5, <2>1
  <2>3. \A i \in 0 .. n : i \in S
    <3> HIDE DEF S, n
    <3> QED
      BY <1>0, <2>2, InductionUpTo
  <2> HIDE DEF after
  <2> QED
    BY <2>3
<1>7. Replayed(books, us) = after[n]
  BY DEF Replayed
<1> QED
  BY <1>6, <1>7

\* The messages of a snapshot, but for the markers.
Inner == Kept \cup {Clear(t) : t \in 0 .. ME_MAX_TICKERS - 1}

LEMMA InIdOrderIsKept ==
    ASSUME NEW orders \in [0 .. ME_MAX_ORDER_IDS - 1 -> Kept]
    PROVE  InIdOrder(orders) \in Seq(Kept)
<1> DEFINE n == Cardinality(DOMAIN orders)
           V == Seq(Kept)
           Kindly(i, s) == IF orders[i - 1] = NoOrder THEN s ELSE Append(s, orders[i - 1])
           step == [i \in 1 .. n |-> [s \in V |-> Kindly(i, s)]]
           Is(f) == f = [i \in 0 .. n |->
                           IF i = 0 THEN <<>>
                           ELSE IF orders[i - 1] = NoOrder THEN f[i - 1]
                           ELSE Append(f[i - 1], orders[i - 1])]
           live == CHOOSE f : Is(f)
<1>0. ME_MAX_ORDER_IDS \in Nat
  BY MarketDataRecoveryAssumption
<1>1. n = ME_MAX_ORDER_IDS /\ n \in Nat
  <2>1. DOMAIN orders = 0 .. ME_MAX_ORDER_IDS - 1
    OBVIOUS
  <2>2. Cardinality(0 .. ME_MAX_ORDER_IDS - 1) = ME_MAX_ORDER_IDS
    BY <1>0, FS_Interval
  <2> QED
    BY <1>0, <2>1, <2>2
<1>2. \A i \in 1 .. n : \A s \in V : Kindly(i, s) \in V
  <2> SUFFICES ASSUME NEW i \in 1 .. n, NEW s \in V PROVE Kindly(i, s) \in V
    OBVIOUS
  <2>1. orders[i - 1] \in Kept
    <3> HIDE DEF n
    <3> QED
      BY <1>1
  <2> QED
    BY <2>1
<1>3. PICK f \in [0 .. n -> V] : Recursive(f, n, <<>>, step)
  <2>1. step \in [1 .. n -> [V -> V]] /\ <<>> \in V
    <3> HIDE DEF n, Kindly
    <3> QED
      BY <1>2
  <2> HIDE DEF n, step, V
  <2> QED
    BY <1>1, <2>1, RecursionExists
<1>4. Is(f)
  <2>1. \A i \in 0 .. n : (IF i = 0 THEN <<>> ELSE step[i][f[i - 1]])
                          = (IF i = 0 THEN <<>> ELSE Kindly(i, f[i - 1]))
    <3> HIDE DEF n, Kindly, V
    <3> QED
      BY <1>1
  <2> HIDE DEF step, n
  <2>2. [i \in 0 .. n |-> IF i = 0 THEN <<>> ELSE step[i][f[i - 1]]]
        = [i \in 0 .. n |-> IF i = 0 THEN <<>> ELSE Kindly(i, f[i - 1])]
    <3> HIDE DEF Kindly
    <3> QED
      BY ONLY <2>1
  <2> QED
    BY <1>3, <2>2 DEF Recursive
<1>5. Is(live)
  <2> HIDE DEF Is
  <2> QED
    BY <1>4
<1>6. live[0] = <<>> /\ \A i \in 1 .. n : live[i] = Kindly(i, live[i - 1])
  <2>1. live = [i \in 0 .. n |-> IF i = 0 THEN <<>> ELSE Kindly(i, live[i - 1])]
    <3> HIDE DEF live, n
    <3> QED
      BY <1>5
  <2> HIDE DEF live, n, Kindly
  <2> QED
    BY ONLY <1>1, <2>1
<1>7. live[n] \in V
  <2> DEFINE S == {i \in 0 .. n : live[i] \in V}
  <2>1. 0 \in S
    <3>1. 0 \in 0 .. n /\ <<>> \in V
      BY <1>1
    <3> HIDE DEF live, n, V
    <3> QED
      BY <1>6, <3>1
  <2>2. ASSUME NEW i \in 1 .. n, i - 1 \in S PROVE i \in S
    <3> HIDE DEF live, Kindly, n, V
    <3> QED
      BY <1>1, <1>2, <1>6, <2>2
  <2>3. \A i \in 0 .. n : i \in S
    <3> HIDE DEF S, n
    <3> QED
      BY <1>1, <2>1, <2>2, InductionUpTo
  <2> HIDE DEF live, n, V
  <2> QED
    BY <1>1, <2>3
<1>8. InIdOrder(orders) = live[n]
  BY DEF InIdOrder
<1> QED
  BY <1>7, <1>8

\* A snapshot is a sequence of orders and CLEARs between its markers.
Snapshot(n, body) ==
    Numbered(<<Marker("SNAPSHOT_START", n)>> \o body \o <<Marker("SNAPSHOT_END", n)>>)

LEMMA SnapshotOfBooks ==
    ASSUME NEW books \in Books, NEW number
    PROVE  \E body \in Seq(Inner) : SnapshotOf(books, number) = Snapshot(number, body)
<1> DEFINE D == DOMAIN books
           Of(t) == <<Clear(t)>> \o InIdOrder(books[t])
           V == Seq(Inner)
           n == ME_MAX_TICKERS - 1
           step == [t \in 1 .. n |-> [s \in V |-> s \o Of(t)]]
           Is(f) == f = [t \in D |-> (IF t = 0 THEN <<>> ELSE f[t - 1])
                                     \o <<Clear(t)>> \o InIdOrder(books[t])]
           body == CHOOSE f : Is(f)
<1>1. n \in Nat /\ D = 0 .. n /\ Cardinality(D) - 1 = n
  <2>1. ME_MAX_TICKERS \in Nat \ {0}
    BY MarketDataRecoveryAssumption
  <2>2. D = 0 .. n
    BY DEF Books
  <2>3. Cardinality(0 .. n) = ME_MAX_TICKERS
    BY <2>1, FS_Interval
  <2> QED
    BY <2>1, <2>2, <2>3
<1>2. \A t \in 0 .. n : <<Clear(t)>> \in V /\ InIdOrder(books[t]) \in V
  <2> SUFFICES ASSUME NEW t \in 0 .. n PROVE <<Clear(t)>> \in V /\ InIdOrder(books[t]) \in V
    OBVIOUS
  <2>1. Clear(t) \in Inner
    BY DEF Inner
  <2>2. InIdOrder(books[t]) \in Seq(Kept)
    BY InIdOrderIsKept DEF Books
  <2> QED
    BY <2>1, <2>2 DEF Inner
<1>3. \A t \in 0 .. n : \A s \in V : s \o Of(t) \in V /\ s \o Of(t) = s \o <<Clear(t)>> \o InIdOrder(books[t])
  <2> SUFFICES ASSUME NEW t \in 0 .. n, NEW s \in V
               PROVE  s \o Of(t) \in V /\ s \o Of(t) = s \o <<Clear(t)>> \o InIdOrder(books[t])
    OBVIOUS
  <2> DEFINE a == <<Clear(t)>>
             b == InIdOrder(books[t])
  <2>1. a \in V /\ b \in V
    BY <1>2
  <2> HIDE DEF a, b
  <2>2. s \o (a \o b) \in V /\ s \o (a \o b) = (s \o a) \o b
    BY <2>1, ConcatAssociative
  <2> QED
    BY <2>2 DEF a, b
<1>4. PICK f \in [0 .. n -> V] : Recursive(f, n, <<>> \o Of(0), step)
  <2>1. step \in [1 .. n -> [V -> V]] /\ <<>> \o Of(0) \in V
    <3>1. 0 \in 0 .. n /\ <<>> \in V /\ \A t \in 1 .. n : t \in 0 .. n
      BY <1>1
    <3>2. \A t \in 1 .. n : \A s \in V : s \o Of(t) \in V
      <4> HIDE DEF n, Of, V
      <4> QED
        BY <1>3, <3>1
    <3> HIDE DEF n, Of, V
    <3> QED
      BY <1>3, <3>1, <3>2
  <2> HIDE DEF n, step, V, Of
  <2> QED
    BY <1>1, <2>1, RecursionExists
<1>5. Is(f)
  <2>1. \A t \in 0 .. n : (IF t = 0 THEN <<>> \o Of(0) ELSE step[t][f[t - 1]])
              = (IF t = 0 THEN <<>> ELSE f[t - 1]) \o <<Clear(t)>> \o InIdOrder(books[t])
    <3> SUFFICES ASSUME NEW t \in 0 .. n
                 PROVE (IF t = 0 THEN <<>> \o Of(0) ELSE step[t][f[t - 1]])
                  = (IF t = 0 THEN <<>> ELSE f[t - 1]) \o <<Clear(t)>> \o InIdOrder(books[t])
      OBVIOUS
    <3>1. CASE t = 0
      <4>1. <<>> \o Of(0) = <<>> \o <<Clear(t)>> \o InIdOrder(books[t])
        BY <3>1, <1>3
      <4> QED
        BY <3>1, <4>1
    <3>2. CASE t # 0
      <4>1. t \in 1 .. n /\ f[t - 1] \in V
        <5> HIDE DEF n, V
        <5> QED
          BY <3>2, <1>1
      <4>2. step[t][f[t - 1]] = f[t - 1] \o Of(t)
        <5> HIDE DEF n, V, Of
        <5> QED
          BY <4>1
      <4>3. f[t - 1] \o Of(t) = f[t - 1] \o <<Clear(t)>> \o InIdOrder(books[t])
        BY <1>3, <4>1
      <4> QED
        BY <3>2, <4>2, <4>3
    <3> QED
      BY <3>1, <3>2
  <2> HIDE DEF step, n, Of
  <2>2. [t \in 0 .. n |-> IF t = 0 THEN <<>> \o Of(0) ELSE step[t][f[t - 1]]]
        = [t \in 0 .. n |-> (IF t = 0 THEN <<>> ELSE f[t - 1]) \o <<Clear(t)>> \o InIdOrder(books[t])]
    BY ONLY <2>1
  <2> QED
    BY <1>1, <1>4, <2>2 DEF Recursive
<1>6. Is(body)
  <2> HIDE DEF Is
  <2> QED
    BY <1>5
<1>7. /\ body[0] = <<>> \o <<Clear(0)>> \o InIdOrder(books[0])
      /\ \A t \in 1 .. n : body[t] = body[t - 1] \o <<Clear(t)>> \o InIdOrder(books[t])
  <2> DEFINE Joined(t, s) == s \o <<Clear(t)>> \o InIdOrder(books[t])
  <2>1. body = [t \in 0 .. n |-> Joined(t, IF t = 0 THEN <<>> ELSE body[t - 1])]
    <3> HIDE DEF body, n, D
    <3> QED
      BY <1>1, <1>6
  <2>2. body[0] = Joined(0, <<>>) /\ \A t \in 1 .. n : body[t] = Joined(t, body[t - 1])
    <3> HIDE DEF body, n, Joined
    <3> QED
      BY ONLY <1>1, <2>1
  <2> HIDE DEF body, n
  <2> QED
    BY <2>2
<1>8. body[n] \in V
  <2> DEFINE S == {t \in 0 .. n : body[t] \in V}
  <2>0. \A t \in 0 .. n : \A s \in V : s \o <<Clear(t)>> \o InIdOrder(books[t]) \in V
    <3> HIDE DEF V, n
    <3> QED
      BY <1>3
  <2>1. 0 \in S
    <3>1. 0 \in 0 .. n /\ <<>> \in V
      BY <1>1
    <3> HIDE DEF body, n, V
    <3> QED
      BY <1>7, <2>0, <3>1
  <2>2. ASSUME NEW t \in 1 .. n, t - 1 \in S PROVE t \in S
    <3>1. t \in 0 .. n /\ body[t - 1] \in V
      <4> HIDE DEF body, n, V
      <4> QED
        BY <1>1, <2>2
    <3>2. body[t] \in V
      <4> HIDE DEF body, n, V
      <4> QED
        BY <1>7, <2>0, <3>1
    <3> QED
      BY <3>1, <3>2
  <2>3. \A t \in 0 .. n : t \in S
    <3> HIDE DEF S, n
    <3> QED
      BY <1>1, <2>1, <2>2, InductionUpTo
  <2> HIDE DEF body, n, V
  <2> QED
    BY <1>1, <2>3
<1>9. SnapshotOf(books, number) = Snapshot(number, body[n])
  <2>1. SnapshotOf(books, number) = Snapshot(number, body[Cardinality(D) - 1])
    BY DEF SnapshotOf, Snapshot
  <2> HIDE DEF body, D, n
  <2> QED
    BY <1>1, <2>1
<1> QED
  BY <1>8, <1>9

\* The updates of the snapshots of the numbers in N, and the messages they come in.
SnapshotUpdates(N) ==
    Inner \cup {Marker(type, n) : type \in {"SNAPSHOT_START", "SNAPSHOT_END"}, n \in N}
SnapshotMessagesOf(N) == [seq_num_ : Nat, me_market_update_ : SnapshotUpdates(N)]
Starts(m) == m.me_market_update_.type_ = "SNAPSHOT_START"

\* Datagrams of the snapshot stream: SNAPSHOT_START can only come first.
SnapshotPackets(N) ==
    {p \in Seq(SnapshotMessagesOf(N)) : p # <<>> /\ \A i \in 2 .. Len(p) : ~Starts(p[i])}

LEMMA InnerTypes == \A u \in Inner : u.type_ \in {"INVALID", "ADD", "CLEAR"}
<1> SUFFICES ASSUME NEW u \in Inner PROVE u.type_ \in {"INVALID", "ADD", "CLEAR"}
  OBVIOUS
<1>1. CASE u = NoOrder
  BY <1>1 DEF NoOrder
<1>2. CASE u \in MarketUpdate /\ u.type_ = "ADD"
  BY <1>2
<1>3. ASSUME NEW t, u = Clear(t) PROVE u.type_ \in {"INVALID", "ADD", "CLEAR"}
  BY <1>3 DEF Clear
<1> QED
  BY <1>1, <1>2, <1>3 DEF Inner, Kept

\* What SNAPSHOT_END says.
LEMMA EndIsOfASnapshot ==
    ASSUME NEW N, NEW u \in SnapshotUpdates(N), u.type_ = "SNAPSHOT_END"
    PROVE  u.order_id_ \in N
<1>1. PICK n \in N : u = Marker("SNAPSHOT_START", n) \/ u = Marker("SNAPSHOT_END", n)
  BY InnerTypes DEF SnapshotUpdates
<1> QED
  BY <1>1 DEF Marker

LEMMA FunctionIsSeq ==
    ASSUME NEW S, NEW k \in Nat, NEW s \in [1 .. k -> S]
    PROVE  s \in Seq(S) /\ Len(s) = k
  OBVIOUS

LEMMA SnapshotPlaces ==
    ASSUME NEW n, NEW body \in Seq(Inner)
    PROVE  /\ Snapshot(n, body) \in Seq(SnapshotMessagesOf({n}))
           /\ \A i \in 2 .. Len(Snapshot(n, body)) : ~Starts(Snapshot(n, body)[i])
<1> DEFINE U == SnapshotUpdates({n})
           start == Marker("SNAPSHOT_START", n)
           end == Marker("SNAPSHOT_END", n)
           us == <<start>> \o body \o <<end>>
           ms == Numbered(us)
<1>1. body \in Seq(U) /\ start \in U /\ end \in U
  BY DEF SnapshotUpdates
<1>2. us \in Seq(U) /\ Len(us) = Len(body) + 2 /\ Len(us) \in Nat
  <2> HIDE DEF start, end, U
  <2> QED
    BY <1>1
<1>3. \A i \in 2 .. Len(us) : us[i] \in Inner \/ us[i] = end
  <2> HIDE DEF start, end, U
  <2> QED
    BY <1>1
<1>4. ms \in Seq(SnapshotMessagesOf({n})) /\ Len(ms) = Len(us)
  <2>1. \A i \in 1 .. Len(us) : us[i] \in U /\ i - 1 \in Nat
    <3> HIDE DEF us, U
    <3> QED
      BY <1>2
  <2>2. \A i \in 1 .. Len(us) : [seq_num_ |-> i - 1, me_market_update_ |-> us[i]] \in SnapshotMessagesOf({n})
    <3> HIDE DEF us
    <3> QED
      BY <2>1 DEF SnapshotMessagesOf
  <2>3. ms = [i \in 1 .. Len(us) |-> [seq_num_ |-> i - 1, me_market_update_ |-> us[i]]]
    BY DEF Numbered
  <2>4. PICK k \in Nat : k = Len(us)
    BY <1>2
  <2> HIDE DEF ms, us
  <2>5. ms \in [1 .. k -> SnapshotMessagesOf({n})]
    BY <2>2, <2>3, <2>4
  <2> QED
    BY <2>4, <2>5, FunctionIsSeq
<1>5. \A i \in 2 .. Len(ms) : ~Starts(ms[i])
  <2> SUFFICES ASSUME NEW i \in 2 .. Len(us) PROVE ~Starts(ms[i])
    BY <1>4
  <2>1. ms[i].me_market_update_ = us[i]
    <3> HIDE DEF us
    <3> QED
      BY <1>2 DEF Numbered
  <2>2. us[i].type_ # "SNAPSHOT_START"
    <3>1. end.type_ = "SNAPSHOT_END"
      BY DEF Marker
    <3> HIDE DEF us, end
    <3> QED
      BY <1>3, <3>1, InnerTypes
  <2> HIDE DEF ms, us
  <2> QED
    BY <2>1, <2>2 DEF Starts
<1>6. Snapshot(n, body) = ms
  BY DEF Snapshot
<1> QED
  BY <1>4, <1>5, <1>6

LEMMA PacketsAreSnapshotPackets ==
    ASSUME NEW N, NEW ms \in Seq(SnapshotMessagesOf(N)),
           \A i \in 2 .. Len(ms) : ~Starts(ms[i])
    PROVE  Packets(ms) \subseteq SnapshotPackets(N)
<1> DEFINE cuts == {i \in DOMAIN ms : ms[i].me_market_update_.type_ \in {"ADD", "SNAPSHOT_END"}}
           after(i) == {j \in cuts : j < i}
           start(i) == IF after(i) = {} THEN 1
                       ELSE 1 + CHOOSE j \in after(i) : \A k \in after(i) : k <= j
<1> SUFFICES ASSUME NEW i \in cuts PROVE SubSeq(ms, start(i), i) \in SnapshotPackets(N)
  BY DEF Packets
<1>1. i \in 1 .. Len(ms)
  OBVIOUS
<1>2. start(i) \in 1 .. i
  <2>1. CASE after(i) = {}
    BY <2>1, <1>1
  <2>2. CASE after(i) # {}
    <3>1. after(i) \subseteq 1 .. i - 1 /\ after(i) \subseteq 0 .. i /\ i \in Nat
      BY <1>1
    <3>2. PICK j \in after(i) : \A k \in after(i) : k <= j
      <4> HIDE DEF after
      <4> QED
        BY <2>2, <3>1, GreatestNatural
    <3>3. (CHOOSE x \in after(i) : \A k \in after(i) : k <= x) \in after(i)
      <4> HIDE DEF after
      <4> QED
        BY <3>2
    <3> DEFINE last == CHOOSE x \in after(i) : \A k \in after(i) : k <= x
    <3>4. start(i) = 1 + last
      BY <2>2
    <3> HIDE DEF last, after
    <3> QED
      BY <1>1, <3>1, <3>3, <3>4 DEF last
  <2> QED
    BY <2>1, <2>2
<1> HIDE DEF start, cuts
<1>0. PICK s \in 1 .. i : s = start(i)
  BY <1>2
<1> DEFINE p == SubSeq(ms, s, i)
<1>3. /\ p \in Seq(SnapshotMessagesOf(N)) /\ Len(p) = i - s + 1
      /\ \A k \in 1 .. Len(p) : p[k] = ms[s + k - 1]
  BY <1>1, <1>0
<1>4. p # <<>>
  <2>1. Len(p) # 0
    BY <1>1, <1>3
  <2> HIDE DEF p
  <2> QED
    BY <2>1
<1>5. \A k \in 2 .. Len(p) : ~Starts(p[k])
  <2> HIDE DEF p
  <2> SUFFICES ASSUME NEW k \in 2 .. Len(p) PROVE ~Starts(p[k])
    OBVIOUS
  <2>1. k \in 1 .. Len(p) /\ s + k - 1 \in 2 .. Len(ms)
    BY <1>1, <1>3
  <2> QED
    BY <1>3, <2>1
<1> QED
  BY <1>0, <1>3, <1>4, <1>5 DEF SnapshotPackets
----------------------------------------------------------------------------
(* Data: the maps of the consumer.                                        *)

LEMMA WithEntry ==
    ASSUME NEW messages, NEW m
    PROVE  /\ DOMAIN Consumer!With(messages, m) = DOMAIN messages \cup {m.seq_num_}
           /\ Consumer!With(messages, m)[m.seq_num_] = m.me_market_update_
           /\ \A n \in DOMAIN messages :
                n # m.seq_num_ => Consumer!With(messages, m)[n] = messages[n]
  BY DEF Consumer!With

\* A complete snapshot names its number.
LEMMA FirstMissingIsNext ==
    ASSUME NEW N, NEW b \in Nat, NEW s, DOMAIN s \subseteq 0 .. b,
           \A n \in DOMAIN s : s[n] \in SnapshotUpdates(N),
           Consumer!Started(s), Consumer!Ended(s)
    PROVE  \E n \in N : Consumer!FirstMissing(s) = n + 1
<1>1. PICK k \in DOMAIN s : \A n \in DOMAIN s : n <= k
  BY GreatestNatural DEF Consumer!Started
<1>2. Consumer!Max(DOMAIN s) \in DOMAIN s
  BY <1>1 DEF Consumer!Max
<1>3. s[Consumer!Max(DOMAIN s)].order_id_ \in N
  BY <1>2, EndIsOfASnapshot DEF Consumer!Ended
<1> QED
  BY <1>3 DEF Consumer!FirstMissing

\* A snapshot of a single message starts with it.
LEMMA StartedByOne ==
    ASSUME NEW m, m.seq_num_ \in Nat,
           Consumer!Started(Consumer!With(Consumer!NoMessages, m))
    PROVE  Starts(m)
<1> DEFINE s == Consumer!With(Consumer!NoMessages, m)
<1>1. DOMAIN s = {m.seq_num_} /\ s[m.seq_num_] = m.me_market_update_
  <2>1. DOMAIN Consumer!NoMessages = {}
    BY DEF Consumer!NoMessages
  <2>2. DOMAIN s = DOMAIN Consumer!NoMessages \cup {m.seq_num_}
    BY WithEntry
  <2>3. s[m.seq_num_] = m.me_market_update_
    BY WithEntry
  <2> QED
    BY <2>1, <2>2, <2>3
<1> HIDE DEF s
<1>2. Consumer!Min(DOMAIN s) = m.seq_num_
  BY <1>1 DEF Consumer!Min
<1> QED
  BY <1>1, <1>2 DEF Consumer!Started, Starts, s

\* The numbers that follow a snapshot without a gap.
LEMMA FollowingIsARun ==
    ASSUME NEW b \in Nat, NEW s, NEW incrementals, DOMAIN incrementals \subseteq 0 .. b,
           Consumer!FirstMissing(s) \in Nat
    PROVE  \E r \in Nat :
              /\ Cardinality(Consumer!Following(s, incrementals)) = r
              /\ Consumer!FirstMissing(s) .. Consumer!FirstMissing(s) + r - 1
                    \subseteq DOMAIN incrementals
<1> DEFINE D == DOMAIN incrementals
           F == Consumer!Following(s, incrementals)
<1>0. PICK f \in Nat : f = Consumer!FirstMissing(s)
  OBVIOUS
<1>1. F = {n \in D : n >= f /\ f .. n \subseteq D}
  BY <1>0 DEF Consumer!Following
<1> HIDE DEF F, D
<1>2. CASE F = {}
  <2>1. Cardinality(F) = 0
    BY <1>2, FS_EmptySet
  <2>2. f .. f + 0 - 1 \subseteq D
    BY <1>0
  <2> QED
    BY <1>0, <2>1, <2>2 DEF F, D
<1>3. CASE F # {}
  <2>1. F \subseteq 0 .. b
    BY <1>1 DEF D
  <2>2. PICK g \in F : \A n \in F : n <= g
    BY <1>3, <2>1, GreatestNatural
  <2>3. g \in Nat /\ g >= f /\ f .. g \subseteq D
    BY <1>1, <2>1
  <2>4. F = f .. g
    <3>1. \A n \in F : n \in f .. g
      BY <1>1, <2>1, <2>2, <2>3
    <3>2. ASSUME NEW n \in f .. g PROVE n \in F
      <4>1. n >= f /\ n \in D /\ f .. n \subseteq f .. g
        BY <2>3
      <4> QED
        BY <1>1, <2>3, <4>1
    <3> QED
      BY <3>1, <3>2
  <2>5. Cardinality(f .. g) = g - f + 1
    BY <1>0, <2>3, FS_Interval
  <2> DEFINE r == g - f + 1
  <2>6. r \in Nat /\ f + r - 1 = g
    BY <1>0, <2>3
  <2> QED
    BY <1>0, <2>3, <2>4, <2>5, <2>6 DEF F, D
<1> QED
  BY <1>2, <1>3
----------------------------------------------------------------------------
(* The second invariant.  Whatever the network does, the client holds only *)
(* what has been sent; if nothing arrives twice, each number is forwarded, *)
(* held or on its way only once.                                           *)

\* The numbers of the snapshots so far.
Numbers == {published[k] : k \in 1 .. Len(published)}

PublishedOK ==
    /\ published \in Seq(Nat)
    /\ Len(published) <= MaxSnapshots
    /\ Numbers \subseteq 0 .. Len(incremental)

\* A datagram of either stream.
Sent(d) ==
    \/ \E p \in SnapshotPackets(Numbers) : d = Datagram(TRUE, p)
    \/ \E m \in Messages : d = Datagram(FALSE, <<m>>) /\ OfTheStream(m)

SentOK == \A d \in inFlight : Sent(d)
ReceivedOK == inbound = Consumer!Nothing \/ Sent(inbound)

\* What is queued is what has been sent.
SnapshotQueueOK(s) ==
    /\ \E b \in Nat : DOMAIN s \subseteq 0 .. b
    /\ \A n \in DOMAIN s : s[n] \in SnapshotUpdates(Numbers)
IncrementalQueueOK(s) ==
    /\ DOMAIN s \subseteq 1 .. Len(incremental)
    /\ \A n \in DOMAIN s : s[n] = incremental[n].me_market_update_

\* Once the snapshot socket is closed, no snapshot can start any more.
PhaseOK ==
    /\ in_recovery_ \in BOOLEAN /\ joined \in BOOLEAN
    /\ consumer \in {"running", "crashed"}
    /\ next_exp_inc_seq_num_ \in Nat /\ duplicates \in Nat
    /\ joined => in_recovery_
    /\ in_recovery_ /\ ~joined =>
          /\ snapshot_queued_msgs_ = Consumer!NoMessages
          /\ inbound.is_snapshot => ~Starts(inbound.messages[1])

\* The number of an update, which may follow a snapshot, or the one before it.
Follows(number, before) ==
    \/ number = before + 1
    \/ number > before /\ \E k \in 1 .. Len(published) : published[k] = number - 1
Before(i) == IF i = 1 THEN 0 ELSE forwarded[i - 1].seq_num_

ForwardedInOrder ==
    /\ forwarded \in Seq(Messages)
    /\ \A i \in 1 .. Len(forwarded) :
        OfTheStream(forwarded[i]) /\ Follows(forwarded[i].seq_num_, Before(i))

\* An update is forwarded, received or on its way, and only one of them, as long
\* as the client listens: what it has been given is the stream up to a number
\* and what it has not looked at comes after that.
New(d) == d.is_snapshot = FALSE => d.messages[1].seq_num_ > Len(forwarded)
Listening == joined \/ ~in_recovery_
OnceOK ==
    /\ inbound # Consumer!Nothing /\ inbound.is_snapshot = FALSE => inbound \notin inFlight
    /\ Listening =>
        /\ \A i \in 1 .. Len(forwarded) : forwarded[i].seq_num_ = i
        /\ \A d \in inFlight : New(d)
        /\ inbound # Consumer!Nothing => New(inbound)
    /\ joined => \A n \in DOMAIN incremental_queued_msgs_ : n > Len(forwarded)

RInv ==
    /\ PublishedOK /\ SentOK /\ ReceivedOK
    /\ SnapshotQueueOK(snapshot_queued_msgs_)
    /\ IncrementalQueueOK(incremental_queued_msgs_)
    /\ PhaseOK
    /\ duplicates = 0 => ForwardedInOrder /\ OnceOK

LEMMA RInvTypeOK == RInv => TypeOK
<1> SUFFICES ASSUME RInv PROVE TypeOK
  OBVIOUS
<1>1. DOMAIN snapshot_queued_msgs_ \subseteq Nat
  BY DEF RInv, SnapshotQueueOK
<1> QED
  BY <1>1 DEF RInv, TypeOK, PublishedOK, PhaseOK, IncrementalQueueOK

LEMMA RInvGaps == RInv => GapsEndAtASnapshot
<1> SUFFICES ASSUME RInv, duplicates = 0, NEW i \in DOMAIN forwarded
             PROVE  LET before == IF i = 1 THEN 0 ELSE forwarded[i - 1].seq_num_
                        number == forwarded[i].seq_num_
                    IN  /\ forwarded[i] = incremental[number]
                        /\ \/ number = before + 1
                           \/ /\ number > before
                              /\ \E k \in DOMAIN published : published[k] = number - 1
  BY DEF GapsEndAtASnapshot
<1>1. i \in 1 .. Len(forwarded) /\ DOMAIN published = 1 .. Len(published)
  BY DEF RInv, ForwardedInOrder, PublishedOK
<1>2. OfTheStream(forwarded[i]) /\ Follows(forwarded[i].seq_num_, Before(i))
  BY <1>1 DEF RInv, ForwardedInOrder
<1> QED
  BY <1>1, <1>2 DEF OfTheStream, Follows, Before

LEMMA InitRInv == Init => RInv
<1> SUFFICES ASSUME Init PROVE RInv
  OBVIOUS
<1>1. /\ incremental = <<>> /\ published = <<>> /\ inFlight = {} /\ duplicates = 0
      /\ inbound = Consumer!Nothing /\ forwarded = <<>>
      /\ in_recovery_ = FALSE /\ joined = FALSE /\ consumer = "running"
      /\ next_exp_inc_seq_num_ = 1
      /\ snapshot_queued_msgs_ = <<>> /\ incremental_queued_msgs_ = <<>>
  BY DEF Init, Feed!Init, Consumer!Init, Consumer!NoMessages
<1>2. PublishedOK /\ SentOK /\ ReceivedOK
  BY <1>1, MarketDataRecoveryAssumption DEF PublishedOK, SentOK, ReceivedOK, Numbers
<1>3. SnapshotQueueOK(snapshot_queued_msgs_) /\ IncrementalQueueOK(incremental_queued_msgs_)
  BY <1>1 DEF SnapshotQueueOK, IncrementalQueueOK
<1>4. PhaseOK
  BY <1>1 DEF PhaseOK
<1>5. ForwardedInOrder
  BY <1>1 DEF ForwardedInOrder
<1>6. OnceOK
  BY <1>1 DEF OnceOK, New
<1> QED
  BY <1>2, <1>3, <1>4, <1>5, <1>6 DEF RInv
----------------------------------------------------------------------------
(* The feed and the network.                                               *)

\* Growing is what the streams do.
LEMMA PacketsGrow ==
    ASSUME NEW N, NEW M, N \subseteq M PROVE SnapshotPackets(N) \subseteq SnapshotPackets(M)
<1>1. SnapshotUpdates(N) \subseteq SnapshotUpdates(M)
  BY DEF SnapshotUpdates
<1>2. SnapshotMessagesOf(N) \subseteq SnapshotMessagesOf(M)
  BY <1>1 DEF SnapshotMessagesOf
<1>3. Seq(SnapshotMessagesOf(N)) \subseteq Seq(SnapshotMessagesOf(M))
  BY <1>2
<1> QED
  BY <1>3 DEF SnapshotPackets

\* The streams before a step are in the streams after it.
Grown ==
    /\ incremental' \in Seq(Messages) /\ Len(incremental) <= Len(incremental')
    /\ \A i \in 1 .. Len(incremental) : incremental'[i] = incremental[i]
    /\ Len(published) <= Len(published')
    /\ \A k \in 1 .. Len(published) : published'[k] = published[k]

\* What the client holds, and what has been sent, is as good as before.
LEMMA RestGrows ==
    ASSUME IInv, RInv, Grown, UNCHANGED <<consumerVars, duplicates>>
    PROVE  /\ Numbers \subseteq Numbers'
           /\ \A d : Sent(d) => Sent(d)'
           /\ ReceivedOK'
           /\ SnapshotQueueOK(snapshot_queued_msgs_)'
           /\ IncrementalQueueOK(incremental_queued_msgs_)'
           /\ PhaseOK'
           /\ duplicates' = 0 => ForwardedInOrder'
<1>1. /\ incremental \in Seq(Messages) /\ Len(incremental) \in Nat /\ Len(incremental') \in Nat
      /\ published \in Seq(Nat) /\ Len(published) \in Nat
  BY DEF IInv, StreamOK, RInv, PublishedOK, Grown
<1>2. Numbers \subseteq Numbers'
  BY <1>1 DEF Grown, Numbers
<1>3. ASSUME NEW m, OfTheStream(m) PROVE OfTheStream(m)'
  BY <1>1, <1>3 DEF OfTheStream, Grown
<1>4. ASSUME NEW d, Sent(d) PROVE Sent(d)'
  BY <1>2, <1>3, <1>4, PacketsGrow DEF Sent
<1>5. ReceivedOK'
  BY <1>4 DEF RInv, ReceivedOK, consumerVars, Consumer!Nothing
<1>6. SnapshotQueueOK(snapshot_queued_msgs_)'
  <2>1. SnapshotUpdates(Numbers) \subseteq SnapshotUpdates(Numbers')
    BY <1>2 DEF SnapshotUpdates
  <2> QED
    BY <2>1 DEF RInv, SnapshotQueueOK, consumerVars
<1>7. IncrementalQueueOK(incremental_queued_msgs_)'
  BY <1>1 DEF RInv, IncrementalQueueOK, consumerVars, Grown
<1>8. PhaseOK'
  BY DEF RInv, PhaseOK, consumerVars, Consumer!NoMessages, Starts
<1>9. ASSUME duplicates' = 0 PROVE ForwardedInOrder'
  <2>1. ForwardedInOrder /\ UNCHANGED forwarded
    BY <1>9 DEF RInv, consumerVars
  <2>2. \A a, b : Follows(a, b) => Follows(a, b)'
    BY <1>1 DEF Follows, Grown
  <2>3. \A i : Before(i)' = Before(i)
    BY <2>1 DEF Before
  <2> QED
    BY <1>3, <2>1, <2>2, <2>3 DEF ForwardedInOrder
<1> QED
  BY <1>2, <1>4, <1>5, <1>6, <1>7, <1>8, <1>9

\* Who listens has been given a part of the stream.
LEMMA ForwardedBound ==
    ASSUME IInv, RInv, duplicates = 0, Listening
    PROVE  Len(forwarded) \in 0 .. Len(incremental)
<1>1. /\ forwarded \in Seq(Messages) /\ Len(forwarded) \in Nat
      /\ \A i \in 1 .. Len(forwarded) : OfTheStream(forwarded[i]) /\ forwarded[i].seq_num_ = i
      /\ Len(incremental) \in Nat
  BY DEF RInv, ForwardedInOrder, OnceOK, IInv, StreamOK
<1>2. CASE Len(forwarded) = 0
  BY <1>1, <1>2
<1>3. CASE Len(forwarded) # 0
  <2>1. Len(forwarded) \in 1 .. Len(forwarded)
    BY <1>1, <1>3
  <2>2. Len(forwarded) \in 1 .. Len(incremental)
    BY <1>1, <2>1 DEF OfTheStream
  <2> QED
    BY <1>1, <2>2
<1> QED
  BY <1>2, <1>3

\* A message on its own in a datagram.
LEMMA SingleMessage ==
    ASSUME NEW m, NEW d, d = Datagram(FALSE, <<m>>)
    PROVE  d.is_snapshot = FALSE /\ d.messages = <<m>> /\ d.messages[1] = m
  BY DEF Datagram

LEMMA SendUpdateRInv ==
    ASSUME IInv, RInv, NEW u \in Updates, SendUpdate(u) PROVE RInv'
<1>0. PICK m \in Messages :
        m = [seq_num_ |-> Len(incremental) + 1, me_market_update_ |-> u]
  <2>1. Len(incremental) + 1 \in Nat
    BY DEF IInv, StreamOK
  <2> QED
    BY <2>1 DEF Messages
<1>1. /\ incremental' = Append(incremental, m)
      /\ inFlight' = inFlight \cup {Datagram(FALSE, <<incremental'[Len(incremental')]>>)}
      /\ UNCHANGED <<published, consumerVars, duplicates>>
  BY <1>0 DEF SendUpdate, Feed!Publish
<1>2. /\ incremental \in Seq(Messages) /\ Len(incremental) \in Nat
      /\ incremental' \in Seq(Messages) /\ Len(incremental') = Len(incremental) + 1
      /\ \A i \in 1 .. Len(incremental) : incremental'[i] = incremental[i]
      /\ incremental'[Len(incremental')] = m
      /\ published \in Seq(Nat) /\ Len(published) \in Nat
  BY <1>1 DEF IInv, StreamOK, RInv, PublishedOK
<1>3. Grown
  BY <1>1, <1>2 DEF Grown
<1>4. PICK new : new = Datagram(FALSE, <<m>>)
  OBVIOUS
<1>5. inFlight' = inFlight \cup {new}
  BY <1>1, <1>2, <1>4
<1>6. m.seq_num_ = Len(incremental) + 1 /\ OfTheStream(m)'
  BY <1>0, <1>2 DEF OfTheStream
<1>7. /\ \A d : Sent(d) => Sent(d)'
      /\ ReceivedOK' /\ SnapshotQueueOK(snapshot_queued_msgs_)'
      /\ IncrementalQueueOK(incremental_queued_msgs_)' /\ PhaseOK'
      /\ duplicates' = 0 => ForwardedInOrder'
  BY <1>1, <1>3, RestGrows
<1>8. PublishedOK'
  BY <1>1, <1>2 DEF RInv, PublishedOK, Numbers
<1>9. SentOK'
  <2>1. Sent(new)'
    BY <1>4, <1>6 DEF Sent
  <2> QED
    BY <1>5, <1>7, <2>1 DEF RInv, SentOK
<1>10. ASSUME duplicates' = 0 PROVE OnceOK'
  <2>1. duplicates = 0 /\ OnceOK /\ UNCHANGED consumerVars
    BY <1>1, <1>10 DEF RInv
  <2>2. new.is_snapshot = FALSE /\ new.messages[1] = m
    BY <1>4, SingleMessage
  <2>3. \A d : New(d)' <=> New(d)
    BY <2>1 DEF New, consumerVars
  <2>4. ASSUME inbound' # Consumer!Nothing, inbound'.is_snapshot = FALSE
        PROVE  inbound' \notin inFlight'
    <3>1. inbound' = inbound /\ inbound \notin inFlight
      BY <2>1, <2>4 DEF OnceOK, consumerVars
    <3>2. PICK n \in Messages : inbound = Datagram(FALSE, <<n>>) /\ OfTheStream(n)
      BY <2>4, <3>1 DEF RInv, ReceivedOK, Sent, Datagram
    <3>3. inbound.messages[1] = n /\ n.seq_num_ <= Len(incremental)
      <4>1. inbound.messages[1] = n
        BY <3>2 DEF Datagram
      <4>2. n.seq_num_ <= Len(incremental)
        BY <1>2, <3>2 DEF OfTheStream
      <4> QED
        BY <4>1, <4>2
    <3>4. inbound # new
      BY <1>2, <1>6, <2>2, <3>3
    <3> QED
      BY <1>5, <3>1, <3>4
  <2>5. Listening => New(new)
    BY <1>2, <1>6, <2>1, <2>2, ForwardedBound DEF New
  <2>6. ASSUME Listening' PROVE \A d \in inFlight' : New(d)'
    BY <1>5, <2>1, <2>3, <2>5, <2>6 DEF OnceOK, Listening, consumerVars
  <2>7. inbound' # Consumer!Nothing /\ Listening' => New(inbound)'
    BY <2>1 DEF OnceOK, Listening, New, consumerVars
  <2>8. /\ Listening' => \A i \in 1 .. Len(forwarded') : forwarded'[i].seq_num_ = i
        /\ joined' => \A n \in DOMAIN incremental_queued_msgs_' : n > Len(forwarded')
    BY <2>1 DEF OnceOK, Listening, consumerVars
  <2> QED
    BY <2>4, <2>6, <2>7, <2>8 DEF OnceOK, Consumer!Nothing
<1> QED
  BY <1>7, <1>8, <1>9, <1>10 DEF RInv

\* The feed's operators are those of MarketUpdates.
LEMMA FeedOperators ==
    /\ Feed!NoOrder = NoOrder
    /\ \A books, us : Feed!Replayed(books, us) = Replayed(books, us)
    /\ \A ms : Feed!UpdatesIn(ms) = UpdatesIn(ms)
    /\ \A books, n : Feed!SnapshotOf(books, n) = SnapshotOf(books, n)
<1>1. Feed!NoOrder = NoOrder
  BY DEF Feed!NoOrder, NoOrder
<1>2. ASSUME NEW books, NEW us PROVE Feed!Replayed(books, us) = Replayed(books, us)
  BY DEF Feed!Replayed, Replayed, Feed!AppliedTo, AppliedTo, Feed!Applied, Applied,
         Feed!Changes, Changes, Feed!NoOrder, NoOrder
<1>3. ASSUME NEW ms PROVE Feed!UpdatesIn(ms) = UpdatesIn(ms)
  BY DEF Feed!UpdatesIn, UpdatesIn
<1>4. ASSUME NEW books, NEW n PROVE Feed!SnapshotOf(books, n) = SnapshotOf(books, n)
  <2>1. \A S : Feed!Cardinality(S) = Cardinality(S)
    BY DEF Feed!Cardinality, Cardinality
  <2>2. \A orders : Feed!InIdOrder(orders) = InIdOrder(orders)
    BY <1>1, <2>1, Zenon DEF Feed!InIdOrder, InIdOrder
  <2>3. \A us : Feed!Numbered(us) = Numbered(us)
    BY DEF Feed!Numbered, Numbered
  <2>4. /\ \A type, k : Feed!Marker(type, k) = Marker(type, k)
        /\ \A t : Feed!Clear(t) = Clear(t)
    BY DEF Feed!Marker, Marker, Feed!Clear, Clear
  <2> QED
    BY <2>1, <2>2, <2>3, <2>4, Zenon DEF Feed!SnapshotOf, SnapshotOf
<1> QED
  BY <1>1, <1>2, <1>3, <1>4

\* The books as of any number of the stream.
LEMMA OrdersAsOfAreBooks ==
    ASSUME IInv, NEW n \in 0 .. Len(incremental) PROVE Feed!OrdersAsOf(n) \in Books
<1>1. incremental \in Seq(Messages) /\ Len(incremental) \in Nat
  BY DEF IInv, StreamOK
<1>2. Feed!NoOrders \in Books
  BY FeedOperators DEF Feed!NoOrders, Books, Kept
<1> DEFINE sent == SubSeq(incremental, 1, n)
<1>3. sent \in Seq(Messages)
  BY <1>1
<1>4. UpdatesIn(sent) \in Seq(MarketUpdate)
  <2> HIDE DEF sent
  <2>1. PICK k \in Nat : k = Len(sent) /\ DOMAIN sent = 1 .. k
    BY <1>3
  <2>2. \A i \in 1 .. k : sent[i].me_market_update_ \in MarketUpdate
    <3> SUFFICES ASSUME NEW i \in 1 .. k PROVE sent[i].me_market_update_ \in MarketUpdate
      OBVIOUS
    <3>1. PICK m \in Messages : m = sent[i]
      BY <1>3, <2>1
    <3>2. m.me_market_update_ \in Updates
      BY DEF Messages
    <3> QED
      BY <3>1, <3>2, MarketDataRecoveryAssumption
  <2>3. UpdatesIn(sent) \in [1 .. k -> MarketUpdate]
    BY <2>1, <2>2 DEF UpdatesIn
  <2> QED
    BY <2>3, FunctionIsSeq
<1>5. Replayed(Feed!NoOrders, UpdatesIn(sent)) \in Books
  <2> HIDE DEF sent
  <2> QED
    BY <1>2, <1>4, ReplayedIsKept
<1> QED
  BY <1>5, FeedOperators DEF Feed!OrdersAsOf

LEMMA SendSnapshotRInv ==
    ASSUME IInv, RInv, NEW n \in 0 .. Len(incremental), SendSnapshot(n) PROVE RInv'
<1>1. /\ UNCHANGED <<incremental, consumerVars, duplicates>>
      /\ Len(published) < MaxSnapshots
      /\ published' = Append(published, n)
      /\ snapshot' = SnapshotOf(Feed!OrdersAsOf(n), n)
      /\ inFlight' = inFlight \cup
            {Datagram(TRUE, p) : p \in IF joined THEN Packets(snapshot') ELSE {}}
  <2>1. snapshot' = Feed!SnapshotOf(Feed!OrdersAsOf(n), n)
    BY DEF SendSnapshot, Feed!PublishSnapshot
  <2>2. snapshot' = SnapshotOf(Feed!OrdersAsOf(n), n)
    BY <2>1, FeedOperators
  <2> QED
    BY <2>2 DEF SendSnapshot, Feed!PublishSnapshot
<1>2. /\ incremental \in Seq(Messages) /\ Len(incremental) \in Nat /\ n \in Nat
      /\ published \in Seq(Nat) /\ Len(published) \in Nat /\ MaxSnapshots \in Nat
      /\ Numbers \subseteq 0 .. Len(incremental)
  BY MarketDataRecoveryAssumption DEF IInv, StreamOK, RInv, PublishedOK
<1>3. /\ Grown
      /\ published' \in Seq(Nat) /\ Len(published') = Len(published) + 1
      /\ published'[Len(published')] = n
      /\ \A k \in 1 .. Len(published) : published'[k] = published[k]
  BY <1>1, <1>2 DEF Grown
<1>4. /\ Numbers \subseteq Numbers'
      /\ \A d : Sent(d) => Sent(d)'
      /\ ReceivedOK' /\ SnapshotQueueOK(snapshot_queued_msgs_)'
      /\ IncrementalQueueOK(incremental_queued_msgs_)' /\ PhaseOK'
      /\ duplicates' = 0 => ForwardedInOrder'
  BY <1>1, <1>3, RestGrows
<1>5. Numbers' = Numbers \cup {n}
  <2>1. Numbers' = {published'[k] : k \in 1 .. Len(published')}
    BY DEF Numbers
  <2>2. 1 .. Len(published') = 1 .. Len(published) \cup {Len(published')}
    BY <1>2, <1>3
  <2>3. {published'[k] : k \in 1 .. Len(published)} = Numbers
    BY <1>3 DEF Numbers
  <2> QED
    BY <1>3, <2>1, <2>2, <2>3, Zenon
<1>6. PublishedOK'
  BY <1>1, <1>2, <1>3, <1>5 DEF PublishedOK
<1>7. ASSUME NEW d \in inFlight', d \notin inFlight
      PROVE  \E p \in SnapshotPackets(Numbers') : d = Datagram(TRUE, p)
  <2>1. PICK p \in Packets(snapshot') : d = Datagram(TRUE, p)
    BY <1>1, <1>7
  <2>2. PICK body \in Seq(Inner) : snapshot' = Snapshot(n, body)
    BY <1>1, OrdersAsOfAreBooks, SnapshotOfBooks
  <2>3. PICK ms : ms = Snapshot(n, body)
    OBVIOUS
  <2>4. Packets(ms) \subseteq SnapshotPackets({n})
    BY <2>3, SnapshotPlaces, PacketsAreSnapshotPackets
  <2>5. SnapshotPackets({n}) \subseteq SnapshotPackets(Numbers')
    BY <1>5, PacketsGrow
  <2> QED
    BY <2>1, <2>2, <2>3, <2>4, <2>5
<1>8. SentOK'
  BY <1>4, <1>7 DEF RInv, SentOK, Sent
<1>9. ASSUME duplicates' = 0 PROVE OnceOK'
  <2>1. duplicates = 0 /\ OnceOK /\ UNCHANGED consumerVars
    BY <1>1, <1>9 DEF RInv
  <2>2. \A d \in inFlight' : d \in inFlight \/ d.is_snapshot = TRUE
    BY <1>7 DEF Datagram
  <2> QED
    BY <2>1, <2>2 DEF OnceOK, New, Listening, consumerVars, Consumer!Nothing
<1> QED
  BY <1>4, <1>6, <1>8, <1>9 DEF RInv

LEMMA DeliverRInv ==
    ASSUME IInv, RInv, NEW d \in inFlight, Deliver(d) PROVE RInv'
<1>1. /\ UNCHANGED <<incremental, published>>
      /\ inbound' = [is_snapshot |-> d.is_snapshot, messages |-> d.messages]
      /\ d.is_snapshot => joined
      /\ UNCHANGED <<next_exp_inc_seq_num_, in_recovery_, joined, snapshot_queued_msgs_,
                     incremental_queued_msgs_, forwarded, consumer>>
      /\ \/ inFlight' = inFlight \ {d} /\ UNCHANGED duplicates
         \/ duplicates' = duplicates + 1 /\ UNCHANGED inFlight
  BY DEF Deliver, Consumer!Receive, feedVars
<1>2. Sent(d) /\ inbound' = d
  <2>1. Sent(d)
    BY DEF RInv, SentOK
  <2> QED
    BY <1>1, <2>1 DEF Sent, Datagram
<1>3. \A x : Sent(x)' <=> Sent(x)
  BY <1>1 DEF Sent, OfTheStream, Numbers
<1>4. PublishedOK' /\ SentOK'
  BY <1>1, <1>3 DEF RInv, PublishedOK, Numbers, SentOK
<1>5. ReceivedOK'
  BY <1>2, <1>3 DEF ReceivedOK, Consumer!Nothing
<1>6. SnapshotQueueOK(snapshot_queued_msgs_)' /\ IncrementalQueueOK(incremental_queued_msgs_)'
  BY <1>1 DEF RInv, SnapshotQueueOK, IncrementalQueueOK, Numbers
<1>7. PhaseOK'
  <2>1. duplicates' \in Nat
    BY <1>1 DEF RInv, PhaseOK
  <2>2. in_recovery_' /\ ~joined' => ~inbound'.is_snapshot
    BY <1>1, <1>2
  <2> QED
    BY <1>1, <2>1, <2>2 DEF RInv, PhaseOK, Consumer!NoMessages
<1>8. ASSUME duplicates' = 0 PROVE ForwardedInOrder' /\ OnceOK'
  <2>1. inFlight' = inFlight \ {d} /\ duplicates = 0
    BY <1>1, <1>8 DEF RInv, PhaseOK
  <2>2. ForwardedInOrder /\ OnceOK
    BY <2>1 DEF RInv
  <2>3. ForwardedInOrder'
    BY <1>1, <2>2 DEF ForwardedInOrder, OfTheStream, Follows, Before
  <2>4. inbound' \notin inFlight'
    BY <1>2, <2>1
  <2>5. Listening' => New(inbound)'
    BY <1>1, <1>2, <2>2 DEF OnceOK, Listening, New
  <2>6. Listening' => \A x \in inFlight' : New(x)'
    BY <1>1, <2>1, <2>2 DEF OnceOK, Listening, New
  <2>7. /\ Listening' => \A i \in 1 .. Len(forwarded') : forwarded'[i].seq_num_ = i
        /\ joined' => \A n \in DOMAIN incremental_queued_msgs_' : n > Len(forwarded')
    BY <1>1, <2>2 DEF OnceOK, Listening
  <2> QED
    BY <2>3, <2>4, <2>5, <2>6, <2>7 DEF OnceOK
<1> QED
  BY <1>4, <1>5, <1>6, <1>7, <1>8 DEF RInv
----------------------------------------------------------------------------
(* The consumer: what a message is, and what it makes of the two maps.     *)

\* The message recvCallback is about to look at, and what it leaves for later.
LEMMA RequestOK ==
    ASSUME RInv, Consumer!Handling, Consumer!NextRequest
    PROVE  \/ /\ inbound.is_snapshot = TRUE
              /\ Consumer!Request \in SnapshotMessagesOf(Numbers)
              /\ Consumer!Request = inbound.messages[1]
              /\ \/ inbound' = Consumer!Nothing
                 \/ \E p \in SnapshotPackets(Numbers) :
                        inbound' = Datagram(TRUE, p) /\ ~Starts(p[1])
           \/ /\ inbound.is_snapshot = FALSE
              /\ inbound' = Consumer!Nothing
              /\ \E m \in Messages : /\ inbound = Datagram(FALSE, <<m>>)
                                     /\ OfTheStream(m) /\ Consumer!Request = m
<1>1. inbound # Consumer!Nothing /\ Sent(inbound)
  BY DEF RInv, ReceivedOK, Consumer!Handling
<1>2. CASE \E m \in Messages : inbound = Datagram(FALSE, <<m>>) /\ OfTheStream(m)
  <2>1. PICK m \in Messages : inbound = Datagram(FALSE, <<m>>) /\ OfTheStream(m)
    BY <1>2
  <2>2. Len(inbound.messages) = 1 /\ Consumer!Request = m
    BY <2>1 DEF Datagram, Consumer!Request
  <2>3. inbound' = Consumer!Nothing
    BY <2>2 DEF Consumer!NextRequest
  <2>4. inbound.is_snapshot = FALSE
    BY <2>1 DEF Datagram
  <2> QED
    BY <2>1, <2>2, <2>3, <2>4
<1>3. CASE \E p \in SnapshotPackets(Numbers) : inbound = Datagram(TRUE, p)
  <2>1. PICK p \in SnapshotPackets(Numbers) : inbound = Datagram(TRUE, p)
    BY <1>3
  <2>2. inbound.is_snapshot = TRUE /\ inbound.messages = p
    BY <2>1 DEF Datagram
  <2>3. /\ p \in Seq(SnapshotMessagesOf(Numbers)) /\ p # <<>>
        /\ \A i \in 2 .. Len(p) : ~Starts(p[i])
    BY DEF SnapshotPackets
  <2>4. Head(p) = p[1] /\ p[1] \in SnapshotMessagesOf(Numbers) /\ Len(p) \in Nat \ {0}
    BY <2>3
  <2>5. Consumer!Request = p[1]
    BY <2>2, <2>4 DEF Consumer!Request
  <2>6. CASE Len(p) = 1
    BY <2>2, <2>4, <2>5, <2>6 DEF Consumer!NextRequest
  <2>7. CASE Len(p) # 1
    <3>1. inbound' = [inbound EXCEPT !.messages = Tail(inbound.messages)]
      BY <2>2, <2>7 DEF Consumer!NextRequest
    <3>2. inbound' = Datagram(TRUE, Tail(p))
      BY <2>1, <2>2, <3>1 DEF Datagram
    <3>3. PICK q : q = Tail(p)
      OBVIOUS
    <3>4. /\ q \in Seq(SnapshotMessagesOf(Numbers)) /\ Len(q) = Len(p) - 1
          /\ \A i \in 1 .. Len(q) : q[i] = p[i + 1]
      BY <2>3, <3>3
    <3>5. Len(q) \in Nat \ {0} /\ q # <<>>
      BY <2>4, <2>7, <3>4
    <3>6. \A i \in 1 .. Len(q) : ~Starts(q[i])
      <4> SUFFICES ASSUME NEW i \in 1 .. Len(q) PROVE ~Starts(q[i])
        OBVIOUS
      <4>1. i + 1 \in 2 .. Len(p) /\ q[i] = p[i + 1]
        BY <2>4, <3>4
      <4> QED
        BY <2>3, <4>1
    <3>7. q \in SnapshotPackets(Numbers) /\ ~Starts(q[1])
      BY <3>4, <3>5, <3>6 DEF SnapshotPackets
    <3> QED
      BY <2>2, <2>4, <2>5, <3>2, <3>3, <3>7
  <2> QED
    BY <2>6, <2>7
<1> QED
  BY <1>1, <1>2, <1>3 DEF Sent

\* The two maps, with the message in them.
LEMMA QueuedOK ==
    ASSUME IInv, RInv, Consumer!Handling, Consumer!NextRequest
    PROVE  /\ SnapshotQueueOK(Consumer!SnapshotMessages)
           /\ IncrementalQueueOK(Consumer!IncrementalMessages)
<1>0. SnapshotQueueOK(snapshot_queued_msgs_) /\ IncrementalQueueOK(incremental_queued_msgs_)
  BY DEF RInv
<1>1. CASE inbound.is_snapshot = TRUE
  <2>1. PICK m \in SnapshotMessagesOf(Numbers) : m = Consumer!Request
    BY <1>1, RequestOK
  <2>2. m.seq_num_ \in Nat /\ m.me_market_update_ \in SnapshotUpdates(Numbers)
    BY DEF SnapshotMessagesOf
  <2>3. ASSUME NEW s, SnapshotQueueOK(s) PROVE SnapshotQueueOK(Consumer!With(s, m))
    <3>1. PICK b \in Nat : DOMAIN s \subseteq 0 .. b
      BY <2>3 DEF SnapshotQueueOK
    <3>2. PICK w : w = Consumer!With(s, m)
      OBVIOUS
    <3>3. DOMAIN w = DOMAIN s \cup {m.seq_num_} /\ w[m.seq_num_] = m.me_market_update_
      BY <3>2, WithEntry
    <3>4. \A n \in DOMAIN s : n # m.seq_num_ => w[n] = s[n]
      BY <3>2, WithEntry
    <3>5. b + m.seq_num_ \in Nat /\ DOMAIN w \subseteq 0 .. b + m.seq_num_
      BY <2>2, <3>1, <3>3
    <3>6. \A n \in DOMAIN w : w[n] \in SnapshotUpdates(Numbers)
      BY <2>2, <2>3, <3>3, <3>4 DEF SnapshotQueueOK
    <3> QED
      BY <3>2, <3>5, <3>6 DEF SnapshotQueueOK
  <2>4. SnapshotQueueOK(Consumer!NoMessages)
    BY DEF SnapshotQueueOK, Consumer!NoMessages
  <2>5. SnapshotQueueOK(Consumer!SnapshotMessages)
    BY <1>0, <1>1, <2>1, <2>3, <2>4 DEF Consumer!SnapshotMessages
  <2>6. Consumer!IncrementalMessages = incremental_queued_msgs_
    BY <1>1 DEF Consumer!IncrementalMessages
  <2> QED
    BY <1>0, <2>5, <2>6
<1>2. CASE inbound.is_snapshot # TRUE
  <2>1. PICK m \in Messages : /\ inbound = Datagram(FALSE, <<m>>)
                              /\ OfTheStream(m) /\ m = Consumer!Request
    BY <1>2, RequestOK
  <2>2. inbound.is_snapshot = FALSE
    BY <2>1 DEF Datagram
  <2>3. Consumer!SnapshotMessages = snapshot_queued_msgs_
    BY <2>2 DEF Consumer!SnapshotMessages
  <2>4. PICK w : w = Consumer!With(incremental_queued_msgs_, m)
    OBVIOUS
  <2>5. /\ DOMAIN w = DOMAIN incremental_queued_msgs_ \cup {m.seq_num_}
        /\ w[m.seq_num_] = m.me_market_update_
    BY <2>4, WithEntry
  <2>6. \A n \in DOMAIN incremental_queued_msgs_ :
            n # m.seq_num_ => w[n] = incremental_queued_msgs_[n]
    BY <2>4, WithEntry
  <2>7. m.seq_num_ \in 1 .. Len(incremental) /\ incremental[m.seq_num_] = m
    BY <2>1 DEF OfTheStream
  <2>8. IncrementalQueueOK(w)
    BY <1>0, <2>5, <2>6, <2>7 DEF IncrementalQueueOK
  <2>9. Consumer!IncrementalMessages = w
    BY <2>1, <2>2, <2>4 DEF Consumer!IncrementalMessages
  <2> QED
    BY <1>0, <2>3, <2>8, <2>9
<1> QED
  BY <1>1, <1>2

\* What is queued while the client listens has not been given to the strategy.
LEMMA QueuedIsNew ==
    ASSUME RInv, Consumer!Handling, Consumer!NextRequest, OnceOK, joined
    PROVE  \A n \in DOMAIN Consumer!IncrementalMessages : n > Len(forwarded)
<1>0. \A n \in DOMAIN incremental_queued_msgs_ : n > Len(forwarded)
  BY DEF OnceOK
<1>1. CASE inbound.is_snapshot = TRUE
  BY <1>0, <1>1 DEF Consumer!IncrementalMessages
<1>2. CASE inbound.is_snapshot # TRUE
  <2>1. PICK m \in Messages : inbound = Datagram(FALSE, <<m>>) /\ m = Consumer!Request
    BY <1>2, RequestOK
  <2>2. inbound.is_snapshot = FALSE /\ inbound.messages[1] = m
    BY <2>1 DEF Datagram
  <2>3. m.seq_num_ > Len(forwarded)
    BY <2>2 DEF OnceOK, Listening, New, Consumer!Handling
  <2>4. Consumer!IncrementalMessages = Consumer!With(incremental_queued_msgs_, m)
    BY <2>1, <2>2 DEF Consumer!IncrementalMessages
  <2>5. DOMAIN Consumer!With(incremental_queued_msgs_, m)
        = DOMAIN incremental_queued_msgs_ \cup {m.seq_num_}
    BY WithEntry
  <2> QED
    BY <1>0, <2>3, <2>4, <2>5
<1> QED
  BY <1>1, <1>2

\* With the snapshot socket closed there is no snapshot to complete.
LEMMA ClosedIsNotStarted ==
    ASSUME RInv, Consumer!Handling, Consumer!NextRequest, in_recovery_, ~joined
    PROVE  ~Consumer!Started(Consumer!SnapshotMessages)
<1>0. /\ snapshot_queued_msgs_ = Consumer!NoMessages
      /\ inbound.is_snapshot => ~Starts(inbound.messages[1])
      /\ DOMAIN Consumer!NoMessages = {}
  BY DEF RInv, PhaseOK, Consumer!NoMessages
<1>1. CASE inbound.is_snapshot = TRUE
  <2>1. PICK m \in SnapshotMessagesOf(Numbers) :
            m = Consumer!Request /\ Consumer!Request = inbound.messages[1]
    BY <1>1, RequestOK
  <2>2. m.seq_num_ \in Nat /\ ~Starts(m)
    BY <1>0, <1>1, <2>1 DEF SnapshotMessagesOf
  <2>3. Consumer!SnapshotMessages = Consumer!With(Consumer!NoMessages, m)
    BY <1>0, <1>1, <2>1 DEF Consumer!SnapshotMessages
  <2> QED
    BY <2>2, <2>3, StartedByOne
<1>2. CASE inbound.is_snapshot # TRUE
  <2>1. inbound.is_snapshot = FALSE
    BY <1>2, RequestOK
  <2>2. Consumer!SnapshotMessages = Consumer!NoMessages
    BY <1>0, <2>1 DEF Consumer!SnapshotMessages
  <2> QED
    BY <1>0, <2>2 DEF Consumer!Started
<1> QED
  BY <1>1, <1>2
----------------------------------------------------------------------------
(* The consumer's steps.                                                   *)

\* What every step of recvCallback leaves of the invariant.
LEMMA ConsumerRest ==
    ASSUME IInv, RInv, Consumer!Handling, Consumer!NextRequest,
           UNCHANGED <<feedVars, networkVars>>
    PROVE  /\ PublishedOK' /\ SentOK' /\ ReceivedOK'
           /\ Numbers' = Numbers
           /\ \A m : OfTheStream(m)' <=> OfTheStream(m)
           /\ \A s : SnapshotQueueOK(s)' <=> SnapshotQueueOK(s)
           /\ \A s : IncrementalQueueOK(s)' <=> IncrementalQueueOK(s)
           /\ inbound'.is_snapshot => ~Starts(inbound'.messages[1])
           /\ inbound' # Consumer!Nothing => inbound'.is_snapshot = TRUE
<1>1. UNCHANGED <<incremental, published, inFlight>>
  BY DEF feedVars, networkVars
<1>2. Numbers' = Numbers /\ \A m : OfTheStream(m)' <=> OfTheStream(m)
  BY <1>1 DEF Numbers, OfTheStream
<1>3. \A d : Sent(d)' <=> Sent(d)
  BY <1>2 DEF Sent
<1>4. PublishedOK' /\ SentOK'
  BY <1>1, <1>2, <1>3 DEF RInv, PublishedOK, SentOK
<1>5. \/ inbound' = Consumer!Nothing
      \/ \E p \in SnapshotPackets(Numbers) : inbound' = Datagram(TRUE, p) /\ ~Starts(p[1])
  BY RequestOK
<1>6. ReceivedOK'
  BY <1>2, <1>5 DEF ReceivedOK, Sent, Consumer!Nothing
<1>7. /\ inbound'.is_snapshot => ~Starts(inbound'.messages[1])
      /\ inbound' # Consumer!Nothing => inbound'.is_snapshot = TRUE
  BY <1>5 DEF Datagram, Consumer!Nothing
<1>8. /\ \A s : SnapshotQueueOK(s)' <=> SnapshotQueueOK(s)
      /\ \A s : IncrementalQueueOK(s)' <=> IncrementalQueueOK(s)
  BY <1>1, <1>2 DEF SnapshotQueueOK, IncrementalQueueOK
<1> QED
  BY <1>2, <1>4, <1>6, <1>7, <1>8

LEMMA NoMessagesOK ==
    /\ SnapshotQueueOK(Consumer!NoMessages) /\ IncrementalQueueOK(Consumer!NoMessages)
    /\ DOMAIN Consumer!NoMessages = {}
  BY DEF SnapshotQueueOK, IncrementalQueueOK, Consumer!NoMessages

\* What has been forwarded is in order as long as nothing is added to it.
LEMMA ForwardedStays ==
    ASSUME ForwardedInOrder, UNCHANGED <<incremental, published, forwarded>>
    PROVE  ForwardedInOrder'
  BY DEF ForwardedInOrder, OfTheStream, Follows, Before

LEMMA PassOnRInv ==
    ASSUME IInv, RInv, ConsumerStep, Consumer!PassOn PROVE RInv'
<1>1. /\ UNCHANGED <<feedVars, networkVars>> /\ Consumer!Handling /\ Consumer!NextRequest
      /\ in_recovery_ = FALSE /\ in_recovery_' = FALSE /\ joined = FALSE /\ joined' = FALSE
      /\ UNCHANGED <<consumer, snapshot_queued_msgs_, incremental_queued_msgs_>>
      /\ Consumer!Request.seq_num_ = next_exp_inc_seq_num_
      /\ next_exp_inc_seq_num_' = next_exp_inc_seq_num_ + 1
      /\ forwarded' = Append(forwarded, Consumer!Request)
  BY DEF ConsumerStep, Consumer!PassOn, RInv, PhaseOK
<1>2. PublishedOK' /\ SentOK' /\ ReceivedOK'
  BY <1>1, ConsumerRest
<1>3. SnapshotQueueOK(snapshot_queued_msgs_)' /\ IncrementalQueueOK(incremental_queued_msgs_)'
  BY <1>1, ConsumerRest DEF RInv
<1>4. PhaseOK'
  <2>1. /\ consumer \in {"running", "crashed"}
        /\ next_exp_inc_seq_num_ \in Nat /\ duplicates \in Nat
    BY DEF RInv, PhaseOK
  <2>2. /\ consumer' \in {"running", "crashed"}
        /\ next_exp_inc_seq_num_' \in Nat /\ duplicates' \in Nat
    BY <1>1, <2>1 DEF networkVars
  <2> QED
    BY <1>1, <2>2 DEF PhaseOK
<1>5. PICK m \in Messages : /\ inbound = Datagram(FALSE, <<m>>)
                            /\ OfTheStream(m) /\ m = Consumer!Request
  <2>1. ~inbound.is_snapshot
    BY <1>1 DEF IInv, ForwardedOK
  <2> QED
    BY <1>1, <2>1, RequestOK
<1>6. /\ forwarded \in Seq(Messages) /\ Len(forwarded) = next_exp_inc_seq_num_ - 1
      /\ next_exp_inc_seq_num_ \in Nat
  BY <1>1 DEF IInv, ForwardedOK, RInv, PhaseOK
<1>7. /\ forwarded' \in Seq(Messages) /\ Len(forwarded') = Len(forwarded) + 1
      /\ Len(forwarded) \in Nat
      /\ \A i \in 1 .. Len(forwarded) : forwarded'[i] = forwarded[i]
      /\ forwarded'[Len(forwarded) + 1] = m /\ m.seq_num_ = Len(forwarded) + 1
  BY <1>1, <1>5, <1>6
<1>8. ASSUME duplicates' = 0 PROVE ForwardedInOrder' /\ OnceOK'
  <2>1. ForwardedInOrder /\ OnceOK /\ Listening /\ UNCHANGED <<incremental, published, inFlight>>
    BY <1>1, <1>8 DEF RInv, Listening, networkVars, feedVars
  <2>2. \A i \in 1 .. Len(forwarded) : forwarded[i].seq_num_ = i
    BY <2>1 DEF OnceOK
  <2>3. \A i \in 1 .. Len(forwarded') : forwarded'[i].seq_num_ = i /\ OfTheStream(forwarded'[i])
    <3>1. \A i \in 1 .. Len(forwarded) : OfTheStream(forwarded[i])
      BY <2>1 DEF ForwardedInOrder
    <3>2. 1 .. Len(forwarded') = 1 .. Len(forwarded) \cup {Len(forwarded) + 1}
      BY <1>7
    <3> QED
      BY <1>5, <1>7, <2>2, <3>1, <3>2
  <2>4. ForwardedInOrder'
    <3> SUFFICES ASSUME NEW i \in 1 .. Len(forwarded')
                 PROVE  OfTheStream(forwarded[i])' /\ Follows(forwarded[i].seq_num_, Before(i))'
      BY <1>7 DEF ForwardedInOrder
    <3>1. OfTheStream(forwarded[i])'
      BY <2>1, <2>3 DEF OfTheStream
    <3>2. Before(i)' = i - 1
      <4>1. CASE i = 1
        BY <4>1 DEF Before
      <4>2. CASE i # 1
        <5>1. i - 1 \in 1 .. Len(forwarded')
          BY <1>7, <4>2
        <5> QED
          BY <2>3, <4>2, <5>1 DEF Before
      <4> QED
        BY <4>1, <4>2
    <3>3. forwarded'[i].seq_num_ = (i - 1) + 1
      BY <2>3
    <3> QED
      BY <3>1, <3>2, <3>3 DEF Follows
  <2>5. ASSUME NEW d \in inFlight' PROVE New(d)'
    <3>1. d \in inFlight /\ New(d) /\ Sent(d)
      BY <2>1, <2>5 DEF OnceOK, RInv, SentOK
    <3>2. SUFFICES ASSUME d.is_snapshot = FALSE PROVE d.messages[1].seq_num_ > Len(forwarded')
      BY DEF New
    <3>3. PICK n \in Messages : d = Datagram(FALSE, <<n>>) /\ OfTheStream(n)
      BY <3>1, <3>2 DEF Sent, Datagram
    <3>4. d.messages[1] = n /\ n.seq_num_ \in Nat
      BY <3>3, SingleMessage DEF Messages
    <3>5. n.seq_num_ > Len(forwarded)
      BY <3>1, <3>2, <3>4 DEF New
    <3>6. n # m
      <4>1. inbound \notin inFlight
        BY <1>1, <1>5, <2>1, RequestOK DEF OnceOK, Consumer!Handling, Datagram
      <4> QED
        BY <1>5, <3>1, <3>3, <4>1
    <3>7. n.seq_num_ # m.seq_num_
      BY <1>5, <3>3, <3>6 DEF OfTheStream
    <3> QED
      BY <1>7, <3>4, <3>5, <3>7
  <2>6. inbound' = Consumer!Nothing
    BY <1>1, <1>5, RequestOK DEF Datagram
  <2> QED
    BY <1>1, <2>3, <2>4, <2>5, <2>6 DEF OnceOK, Consumer!Nothing
<1> QED
  BY <1>2, <1>3, <1>4, <1>8 DEF RInv

LEMMA StartSnapshotSyncRInv ==
    ASSUME IInv, RInv, ConsumerStep, Consumer!StartSnapshotSync PROVE RInv'
<1>1. /\ UNCHANGED <<feedVars, networkVars>> /\ Consumer!Handling /\ Consumer!NextRequest
      /\ ~in_recovery_ /\ in_recovery_' = TRUE /\ joined' = TRUE
      /\ snapshot_queued_msgs_' = Consumer!NoMessages
      /\ incremental_queued_msgs_' = Consumer!With(Consumer!NoMessages, Consumer!Request)
      /\ UNCHANGED <<next_exp_inc_seq_num_, forwarded, consumer>>
  BY DEF ConsumerStep, Consumer!StartSnapshotSync
<1>2. PublishedOK' /\ SentOK' /\ ReceivedOK'
  BY <1>1, ConsumerRest
<1>3. PICK m \in Messages : /\ inbound = Datagram(FALSE, <<m>>)
                            /\ OfTheStream(m) /\ m = Consumer!Request
  <2>1. ~inbound.is_snapshot
    BY <1>1 DEF IInv, ForwardedOK
  <2> QED
    BY <1>1, <2>1, RequestOK
<1>4. /\ DOMAIN incremental_queued_msgs_' = {m.seq_num_}
      /\ incremental_queued_msgs_'[m.seq_num_] = m.me_market_update_
  <2>1. PICK s : s = Consumer!NoMessages
    OBVIOUS
  <2>2. DOMAIN Consumer!With(s, m) = DOMAIN s \cup {m.seq_num_}
    BY WithEntry
  <2>3. Consumer!With(s, m)[m.seq_num_] = m.me_market_update_
    BY WithEntry
  <2> QED
    BY <1>1, <1>3, <2>1, <2>2, <2>3, NoMessagesOK
<1>5. IncrementalQueueOK(incremental_queued_msgs_)'
  BY <1>1, <1>3, <1>4 DEF IncrementalQueueOK, OfTheStream, feedVars
<1>6. SnapshotQueueOK(snapshot_queued_msgs_)'
  <2>1. PICK s : s = Consumer!NoMessages
    OBVIOUS
  <2>2. SnapshotQueueOK(s)'
    BY <1>1, <2>1, NoMessagesOK, ConsumerRest
  <2> QED
    BY <1>1, <2>1, <2>2 DEF SnapshotQueueOK
<1>7. PhaseOK'
  <2>1. /\ consumer \in {"running", "crashed"}
        /\ next_exp_inc_seq_num_ \in Nat /\ duplicates \in Nat
    BY DEF RInv, PhaseOK
  <2> QED
    BY <1>1, <2>1 DEF PhaseOK, networkVars
<1>8. ASSUME duplicates' = 0 PROVE ForwardedInOrder' /\ OnceOK'
  <2>1. /\ ForwardedInOrder /\ OnceOK /\ Listening
        /\ UNCHANGED <<incremental, published, inFlight, forwarded>>
    BY <1>1, <1>8 DEF RInv, Listening, networkVars, feedVars
  <2>2. ForwardedInOrder'
    BY <2>1, ForwardedStays
  <2>3. m.seq_num_ > Len(forwarded)
    <3>1. inbound.is_snapshot = FALSE /\ inbound.messages[1] = m
      BY <1>3 DEF Datagram
    <3> QED
      BY <1>1, <2>1, <3>1 DEF OnceOK, New, Consumer!Handling
  <2>4. inbound' = Consumer!Nothing
    BY <1>1, <1>3, RequestOK DEF Datagram
  <2>5. \A d \in inFlight' : New(d)'
    BY <2>1 DEF OnceOK, New
  <2> QED
    BY <1>4, <2>1, <2>2, <2>3, <2>4, <2>5 DEF OnceOK, Consumer!Nothing
<1> QED
  BY <1>2, <1>5, <1>6, <1>7, <1>8 DEF RInv

\* A step of recovery that forwards nothing: the maps are kept, or emptied.
LEMMA CollectRInv ==
    ASSUME IInv, RInv, Consumer!Handling, Consumer!NextRequest,
           UNCHANGED <<feedVars, networkVars>>,
           in_recovery_, next_exp_inc_seq_num_' \in Nat,
           UNCHANGED <<in_recovery_, joined, forwarded, consumer>>,
           \/ snapshot_queued_msgs_' = Consumer!NoMessages
           \/ joined /\ snapshot_queued_msgs_' = Consumer!SnapshotMessages,
           incremental_queued_msgs_' \in {Consumer!NoMessages, Consumer!IncrementalMessages}
    PROVE  RInv'
<1>1. UNCHANGED <<incremental, published, inFlight, duplicates>>
  BY DEF feedVars, networkVars
<1>2. PublishedOK' /\ SentOK' /\ ReceivedOK'
  BY ConsumerRest
<1>3. SnapshotQueueOK(snapshot_queued_msgs_)'
  <2>1. PICK s : s = snapshot_queued_msgs_'
    OBVIOUS
  <2>2. SnapshotQueueOK(s)
    BY <2>1, QueuedOK, NoMessagesOK
  <2>3. SnapshotQueueOK(s)'
    BY <2>2, ConsumerRest
  <2> QED
    BY <2>1, <2>3 DEF SnapshotQueueOK
<1>4. IncrementalQueueOK(incremental_queued_msgs_)'
  <2>1. PICK s : s = incremental_queued_msgs_'
    OBVIOUS
  <2>2. IncrementalQueueOK(s)
    BY <2>1, QueuedOK, NoMessagesOK
  <2>3. IncrementalQueueOK(s)'
    BY <2>2, ConsumerRest
  <2> QED
    BY <2>1, <2>3 DEF IncrementalQueueOK
<1>5. PhaseOK'
  <2>1. /\ consumer \in {"running", "crashed"} /\ duplicates \in Nat
        /\ in_recovery_ \in BOOLEAN /\ joined \in BOOLEAN
    BY DEF RInv, PhaseOK
  <2>2. /\ consumer' \in {"running", "crashed"} /\ duplicates' \in Nat
        /\ in_recovery_' \in BOOLEAN /\ joined' \in BOOLEAN
        /\ joined' => in_recovery_'
    BY <1>1, <2>1
  <2>3. in_recovery_' /\ ~joined' => snapshot_queued_msgs_' = Consumer!NoMessages
    OBVIOUS
  <2>4. inbound'.is_snapshot => ~Starts(inbound'.messages[1])
    BY ConsumerRest
  <2> QED
    BY <2>2, <2>3, <2>4 DEF PhaseOK, Consumer!NoMessages, Starts
<1>6. ASSUME duplicates' = 0 PROVE ForwardedInOrder' /\ OnceOK'
  <2>1. ForwardedInOrder /\ OnceOK
    BY <1>1, <1>6 DEF RInv
  <2>2. ForwardedInOrder'
    BY <1>1, <2>1, ForwardedStays
  <2>3. inbound' # Consumer!Nothing => inbound'.is_snapshot = TRUE
    BY ConsumerRest
  <2>4. Listening' => Listening
    BY DEF Listening
  <2>5. joined' => \A n \in DOMAIN incremental_queued_msgs_' : n > Len(forwarded')
    BY <2>1, QueuedIsNew, NoMessagesOK
  <2>6. Listening' => /\ \A i \in 1 .. Len(forwarded') : forwarded'[i].seq_num_ = i
                      /\ \A d \in inFlight' : New(d)'
    BY <1>1, <2>1, <2>4 DEF OnceOK, New
  <2>7. inbound' # Consumer!Nothing => New(inbound)'
    BY <2>3 DEF New
  <2> QED
    BY <2>2, <2>3, <2>5, <2>6, <2>7 DEF OnceOK, Consumer!Nothing
<1> QED
  BY <1>2, <1>3, <1>4, <1>5, <1>6 DEF RInv

LEMMA AwaitSnapshotRInv ==
    ASSUME IInv, RInv, ConsumerStep, Consumer!AwaitSnapshot PROVE RInv'
<1>1. /\ UNCHANGED <<feedVars, networkVars>> /\ Consumer!Handling /\ Consumer!NextRequest
      /\ in_recovery_ /\ UNCHANGED <<in_recovery_, joined, forwarded, consumer>>
      /\ UNCHANGED next_exp_inc_seq_num_
      /\ snapshot_queued_msgs_' = IF Consumer!Started(Consumer!SnapshotMessages)
                                  THEN Consumer!SnapshotMessages ELSE Consumer!NoMessages
      /\ incremental_queued_msgs_' = Consumer!IncrementalMessages
  BY DEF ConsumerStep, Consumer!AwaitSnapshot
<1>2. next_exp_inc_seq_num_' \in Nat
  BY <1>1 DEF RInv, PhaseOK
<1>3. \/ snapshot_queued_msgs_' = Consumer!NoMessages
      \/ joined /\ snapshot_queued_msgs_' = Consumer!SnapshotMessages
  BY <1>1, ClosedIsNotStarted
<1> QED
  BY <1>1, <1>2, <1>3, CollectRInv

\* The number after the snapshot, and how many follow it.
LEMMA FollowingOK ==
    ASSUME IInv, RInv, Consumer!Handling, Consumer!NextRequest,
           Consumer!Started(Consumer!SnapshotMessages),
           Consumer!Ended(Consumer!SnapshotMessages)
    PROVE  \E k \in 1 .. Len(published), r \in Nat :
              /\ published[k] \in Nat
              /\ Consumer!FirstMissing(Consumer!SnapshotMessages) = published[k] + 1
              /\ Consumer!Cardinality(Consumer!Following(Consumer!SnapshotMessages,
                                                         Consumer!IncrementalMessages)) = r
              /\ published[k] + 1 .. published[k] + r \subseteq DOMAIN Consumer!IncrementalMessages
<1>1. PICK s, t : s = Consumer!SnapshotMessages /\ t = Consumer!IncrementalMessages
  OBVIOUS
<1>2. SnapshotQueueOK(s) /\ IncrementalQueueOK(t)
  BY <1>1, QueuedOK
<1>3. PICK b \in Nat : DOMAIN s \subseteq 0 .. b
  BY <1>2 DEF SnapshotQueueOK
<1>4. PICK n \in Numbers : Consumer!FirstMissing(s) = n + 1
  BY <1>1, <1>2, <1>3, FirstMissingIsNext DEF SnapshotQueueOK
<1>5. PICK k \in 1 .. Len(published) : n = published[k]
  BY DEF Numbers
<1>6. n \in Nat /\ Len(incremental) \in Nat
  BY DEF RInv, PublishedOK, IInv, StreamOK
<1>7. DOMAIN t \subseteq 0 .. Len(incremental)
  BY <1>2, <1>6 DEF IncrementalQueueOK
<1>8. PICK r \in Nat : /\ Cardinality(Consumer!Following(s, t)) = r
                       /\ Consumer!FirstMissing(s) .. Consumer!FirstMissing(s) + r - 1
                             \subseteq DOMAIN t
  BY <1>4, <1>6, <1>7, FollowingIsARun
<1>9. \A S : Consumer!Cardinality(S) = Cardinality(S)
  BY DEF Consumer!Cardinality, Cardinality
<1>10. n + 1 + r - 1 = n + r
  BY <1>6
<1> QED
  BY <1>1, <1>4, <1>5, <1>6, <1>8, <1>9, <1>10

LEMMA DropIncrementalsRInv ==
    ASSUME IInv, RInv, ConsumerStep, Consumer!DropIncrementals PROVE RInv'
<1>1. /\ UNCHANGED <<feedVars, networkVars>> /\ Consumer!Handling /\ Consumer!NextRequest
      /\ in_recovery_ /\ UNCHANGED <<in_recovery_, joined, forwarded, consumer>>
      /\ Consumer!Started(Consumer!SnapshotMessages) /\ Consumer!Ended(Consumer!SnapshotMessages)
      /\ next_exp_inc_seq_num_' = Consumer!FirstMissing(Consumer!SnapshotMessages)
            + Consumer!Cardinality(Consumer!Following(Consumer!SnapshotMessages,
                                                      Consumer!IncrementalMessages))
      /\ snapshot_queued_msgs_' = Consumer!SnapshotMessages
      /\ incremental_queued_msgs_' = Consumer!NoMessages
  BY DEF ConsumerStep, Consumer!DropIncrementals
<1>2. next_exp_inc_seq_num_' \in Nat
  BY <1>1, FollowingOK
<1>3. joined
  BY <1>1, ClosedIsNotStarted
<1> QED
  BY <1>1, <1>2, <1>3, CollectRInv

LEMMA ConcatPlaces ==
    ASSUME NEW S, NEW s \in Seq(S), NEW t \in Seq(S)
    PROVE  /\ s \o t \in Seq(S) /\ Len(s \o t) = Len(s) + Len(t)
           /\ \A i \in 1 .. Len(s) : (s \o t)[i] = s[i]
           /\ \A i \in 1 .. Len(t) : (s \o t)[Len(s) + i] = t[i]
  OBVIOUS

\* What checkSnapshotSync passes on follows the snapshot, and all that was passed
\* on before.
LEMMA SynchroniseRInv ==
    ASSUME IInv, RInv, ConsumerStep, Consumer!Synchronise PROVE RInv'
<1>1. PICK s, t : s = Consumer!SnapshotMessages /\ t = Consumer!IncrementalMessages
  OBVIOUS
<1> DEFINE run == Consumer!Cardinality(Consumer!Following(s, t))
           first == Consumer!FirstMissing(s)
           events == [i \in 1 .. run |-> [seq_num_ |-> first + i - 1,
                                          me_market_update_ |-> t[first + i - 1]]]
<1>2. /\ UNCHANGED <<feedVars, networkVars>> /\ Consumer!Handling /\ Consumer!NextRequest
      /\ in_recovery_ /\ in_recovery_' = TRUE /\ joined' = FALSE
      /\ Consumer!Started(s) /\ Consumer!Ended(s)
      /\ next_exp_inc_seq_num_' = first + run
      /\ snapshot_queued_msgs_' = Consumer!NoMessages
      /\ incremental_queued_msgs_' = Consumer!NoMessages
      /\ consumer' \in {"running", "crashed"}
  BY <1>1 DEF ConsumerStep, Consumer!Synchronise
<1>3. forwarded' = forwarded \o events
  BY <1>1 DEF ConsumerStep, Consumer!Synchronise
<1>4. PICK k \in 1 .. Len(published), r \in Nat :
        /\ published[k] \in Nat /\ first = published[k] + 1 /\ run = r
        /\ published[k] + 1 .. published[k] + r \subseteq DOMAIN t
  BY <1>1, <1>2, FollowingOK
<1>5. PICK n \in Nat : n = published[k] /\ first = n + 1
  BY <1>4
<1>6. joined
  BY <1>1, <1>2, ClosedIsNotStarted
<1>7. UNCHANGED <<incremental, published, inFlight, duplicates>>
  BY <1>2 DEF feedVars, networkVars
<1>8. PublishedOK' /\ SentOK' /\ ReceivedOK'
  BY <1>2, ConsumerRest
<1>9. SnapshotQueueOK(snapshot_queued_msgs_)' /\ IncrementalQueueOK(incremental_queued_msgs_)'
  <2>1. PICK q : q = Consumer!NoMessages
    OBVIOUS
  <2>2. SnapshotQueueOK(q)' /\ IncrementalQueueOK(q)'
    BY <1>2, <2>1, NoMessagesOK, ConsumerRest
  <2> QED
    BY <1>2, <2>1, <2>2 DEF SnapshotQueueOK, IncrementalQueueOK
<1>10. PhaseOK'
  <2>1. duplicates' \in Nat /\ next_exp_inc_seq_num_' \in Nat
    BY <1>2, <1>4, <1>5, <1>7 DEF RInv, PhaseOK
  <2>2. inbound'.is_snapshot => ~Starts(inbound'.messages[1])
    BY <1>2, ConsumerRest
  <2> QED
    BY <1>2, <2>1, <2>2 DEF PhaseOK, Consumer!NoMessages, Starts
<1>11. ASSUME duplicates' = 0 PROVE ForwardedInOrder'
  <2>1. ForwardedInOrder /\ OnceOK
    BY <1>7, <1>11 DEF RInv
  <2>2. \A j \in DOMAIN t : j > Len(forwarded)
    BY <1>1, <1>2, <1>6, <2>1, QueuedIsNew
  <2>3. IncrementalQueueOK(t) /\ incremental \in Seq(Messages)
        /\ \A j \in 1 .. Len(incremental) : incremental[j].seq_num_ = j
    BY <1>1, <1>2, QueuedOK DEF IInv, StreamOK
  <2>4. /\ forwarded \in Seq(Messages) /\ Len(forwarded) \in Nat
        /\ \A i \in 1 .. Len(forwarded) :
              OfTheStream(forwarded[i]) /\ Follows(forwarded[i].seq_num_, Before(i))
        /\ \A i \in 1 .. Len(forwarded) : forwarded[i].seq_num_ = i
    BY <1>6, <2>1 DEF ForwardedInOrder, OnceOK, Listening
  <2>5. ASSUME NEW i \in 1 .. r
        PROVE  /\ n + i \in DOMAIN t /\ n + i > Len(forwarded)
               /\ n + i \in 1 .. Len(incremental)
               /\ incremental[n + i].seq_num_ = n + i
               /\ events[i] = incremental[n + i] /\ events[i] \in Messages
    <3>1. n + i \in DOMAIN t /\ n + i > Len(forwarded)
      BY <1>4, <1>5, <2>2
    <3>2. PICK m \in Messages : m = incremental[n + i] /\ n + i \in 1 .. Len(incremental)
      BY <2>3, <3>1 DEF IncrementalQueueOK
    <3>3. m.seq_num_ = n + i /\ m.me_market_update_ = t[n + i]
      BY <2>3, <3>1, <3>2 DEF IncrementalQueueOK
    <3>4. m = [seq_num_ |-> n + i, me_market_update_ |-> t[n + i]]
      BY <3>3 DEF Messages
    <3>5. events[i] = [seq_num_ |-> n + i, me_market_update_ |-> t[n + i]]
      <4>1. first + i - 1 = n + i
        BY <1>5
      <4> HIDE DEF first, run
      <4> QED
        BY <1>4, <4>1
    <3> HIDE DEF events
    <3> QED
      BY <3>1, <3>2, <3>3, <3>4, <3>5
  <2>6. events \in Seq(Messages) /\ Len(events) = r
    <3>1. events \in [1 .. r -> Messages]
      <4>1. events = [i \in 1 .. r |-> events[i]]
        BY <1>4
      <4> HIDE DEF events
      <4> QED
        BY <2>5, <4>1
    <3> HIDE DEF events
    <3> QED
      BY <3>1, FunctionIsSeq
  <2> HIDE DEF events, first, run
  <2>7. /\ forwarded' \in Seq(Messages) /\ Len(forwarded') = Len(forwarded) + r
        /\ \A i \in 1 .. Len(forwarded) : forwarded'[i] = forwarded[i]
        /\ \A i \in 1 .. r : forwarded'[Len(forwarded) + i] = events[i]
    <3>1. PICK g \in Seq(Messages), e \in Seq(Messages) : g = forwarded /\ e = events
      BY <2>4, <2>6
    <3>2. /\ g \o e \in Seq(Messages) /\ Len(g \o e) = Len(g) + Len(e)
          /\ \A i \in 1 .. Len(g) : (g \o e)[i] = g[i]
          /\ \A i \in 1 .. Len(e) : (g \o e)[Len(g) + i] = e[i]
      BY ConcatPlaces
    <3>3. forwarded' = g \o e /\ Len(e) = r
      BY <1>3, <2>6, <3>1
    <3> QED
      BY <3>1, <3>2, <3>3
  <2> SUFFICES ASSUME NEW i \in 1 .. Len(forwarded')
               PROVE  OfTheStream(forwarded[i])' /\ Follows(forwarded[i].seq_num_, Before(i))'
    BY <2>7 DEF ForwardedInOrder
  <2>8. CASE i \in 1 .. Len(forwarded)
    <3>1. forwarded'[i] = forwarded[i] /\ Before(i)' = Before(i)
      <4>1. i # 1 => i - 1 \in 1 .. Len(forwarded)
        BY <2>4, <2>8
      <4> QED
        BY <2>7, <2>8, <4>1 DEF Before
    <3> QED
      BY <1>7, <2>4, <2>8, <3>1 DEF OfTheStream, Follows
  <2>9. CASE i \notin 1 .. Len(forwarded)
    <3>1. PICK j \in 1 .. r : i = Len(forwarded) + j
      <4>1. i - Len(forwarded) \in 1 .. r /\ i = Len(forwarded) + (i - Len(forwarded))
        BY <2>4, <2>7, <2>9
      <4> QED
        BY <4>1
    <3>2. /\ forwarded'[i] = incremental[n + j] /\ n + j \in 1 .. Len(incremental)
          /\ forwarded'[i].seq_num_ = n + j /\ n + j > Len(forwarded)
      BY <2>5, <2>7, <3>1
    <3>3. OfTheStream(forwarded[i])'
      BY <1>7, <3>2 DEF OfTheStream
    <3>4. CASE j = 1
      <4>1. Before(i)' = Len(forwarded)
        <5>1. CASE Len(forwarded) = 0
          BY <3>1, <3>4, <5>1 DEF Before
        <5>2. CASE Len(forwarded) # 0
          <6>1. /\ Len(forwarded) \in 1 .. Len(forwarded) /\ i # 1
                /\ i - 1 = Len(forwarded)
            BY <2>4, <3>1, <3>4, <5>2
          <6> QED
            BY <2>4, <2>7, <6>1 DEF Before
        <5> QED
          BY <5>1, <5>2
      <4>2. /\ forwarded'[i].seq_num_ > Before(i)'
            /\ published'[k] = forwarded'[i].seq_num_ - 1 /\ k \in 1 .. Len(published')
        BY <1>5, <1>7, <3>2, <3>4, <4>1
      <4> QED
        BY <3>3, <4>2 DEF Follows
    <3>5. CASE j # 1
      <4>1. j - 1 \in 1 .. r /\ i # 1 /\ i - 1 = Len(forwarded) + (j - 1)
        BY <2>4, <3>1, <3>5
      <4>2. Before(i)' = n + (j - 1)
        <5>1. forwarded'[i - 1].seq_num_ = n + (j - 1)
          BY <2>5, <2>7, <4>1
        <5> QED
          BY <4>1, <5>1 DEF Before
      <4>3. forwarded'[i].seq_num_ = Before(i)' + 1
        BY <3>2, <4>2
      <4> QED
        BY <3>3, <4>3 DEF Follows
    <3> QED
      BY <3>4, <3>5
  <2> QED
    BY <2>8, <2>9
<1>12. ASSUME duplicates' = 0 PROVE OnceOK'
  <2>1. inbound' # Consumer!Nothing => inbound'.is_snapshot = TRUE
    BY <1>2, ConsumerRest
  <2>2. ~Listening'
    BY <1>2 DEF Listening
  <2> QED
    BY <1>2, <2>1, <2>2 DEF OnceOK, Consumer!Nothing
<1> QED
  BY <1>8, <1>9, <1>10, <1>11, <1>12 DEF RInv

LEMMA NextRInv == IInv /\ RInv /\ [Next]_vars => RInv'
<1> SUFFICES ASSUME IInv, RInv, [Next]_vars PROVE RInv'
  OBVIOUS
<1>1. ASSUME NEW u \in Updates, SendUpdate(u) PROVE RInv'
  BY <1>1, SendUpdateRInv
<1>2. ASSUME NEW n \in 0 .. Len(incremental), SendSnapshot(n) PROVE RInv'
  BY <1>2, SendSnapshotRInv
<1>3. ASSUME NEW d \in inFlight, Deliver(d) PROVE RInv'
  BY <1>3, DeliverRInv
<1>4. CASE ConsumerStep
  BY <1>4, PassOnRInv, StartSnapshotSyncRInv, AwaitSnapshotRInv, DropIncrementalsRInv,
     SynchroniseRInv DEF ConsumerStep, Consumer!Handle
<1>5. CASE UNCHANGED vars
  <2>1. UNCHANGED <<incremental, published, consumerVars, inFlight, duplicates>>
    BY <1>5 DEF vars, feedVars, networkVars
  <2>2. Grown
    BY <2>1 DEF Grown, IInv, StreamOK, RInv, PublishedOK
  <2>3. /\ \A d : Sent(d) => Sent(d)'
        /\ ReceivedOK' /\ SnapshotQueueOK(snapshot_queued_msgs_)'
        /\ IncrementalQueueOK(incremental_queued_msgs_)' /\ PhaseOK'
        /\ duplicates' = 0 => ForwardedInOrder'
    BY <2>1, <2>2, RestGrows
  <2>4. PublishedOK' /\ SentOK'
    BY <2>1, <2>3 DEF RInv, PublishedOK, Numbers, SentOK
  <2>5. OnceOK => OnceOK'
    BY <2>1 DEF OnceOK, New, Listening, consumerVars, Consumer!Nothing
  <2> QED
    BY <2>1, <2>3, <2>4, <2>5 DEF RInv
<1> QED
  BY <1>1, <1>2, <1>3, <1>4, <1>5 DEF Next

LEMMA RInvAlways == Spec => [](IInv /\ RInv)
  BY InitIInv, NextIInv, InitRInv, NextRInv, PTL DEF Spec

\* The types of the variables, whatever is lost, reordered or repeated: what is
\* queued has been sent, and the number expected next is one.
THEOREM TypeOKAlways == Spec => []TypeOK
  BY RInvAlways, RInvTypeOK, PTL

\* If no datagram comes twice, the strategy is given the updates of the stream in
\* their order and each once, recovery included, and what is left out ends at the
\* number of a published snapshot.
THEOREM GapsEndAtASnapshotAlways == Spec => []GapsEndAtASnapshot
  BY RInvAlways, RInvGaps, PTL
=============================================================================
