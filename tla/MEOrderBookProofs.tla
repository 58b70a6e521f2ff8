------------------------- MODULE MEOrderBookProofs -------------------------
(***************************************************************************)
(* The order book's data structures, for any clients, prices, quantities   *)
(* and pool sizes, as long as no two prices share a slot of the price      *)
(* index (priceToIndex does not check that).                               *)
(***************************************************************************)
EXTENDS MEOrderBook, RecursionProofs

(* The rings: what inserting a member into a sorted ring, and unlinking    *)
(* one, leaves.                                                            *)

Keyed(S, key) ==
    /\ \A x \in S : key[x] \in Int
    /\ \A x, y \in S : key[x] = key[y] => x = y

\* A member linked to itself is a ring.
LEMMA RingOfOne ==
    ASSUME NEW n, NEW key, NEW next, NEW prev, key[n] \in Int,
           next[n] = n, prev[n] = n
    PROVE  IsSortedRing({n}, key, next, prev, n)
BY DEF IsSortedRing

\* A ring depends on the links and keys of its members only.
LEMMA RingUnchanged ==
    ASSUME NEW S, NEW key, NEW next, NEW prev, NEW head, NEW next2, NEW prev2,
           IsSortedRing(S, key, next, prev, head),
           \A x \in S : next2[x] = next[x] /\ prev2[x] = prev[x]
    PROVE  IsSortedRing(S, key, next2, prev2, head)
BY DEF IsSortedRing

\* A member linked to itself is the only one.
LEMMA RingAlone ==
    ASSUME NEW S, NEW key, NEW next, NEW prev, NEW head, NEW d \in S,
           IsSortedRing(S, key, next, prev, head), Keyed(S, key),
           prev[d] = d \/ next[d] = d
    PROVE  S = {d} /\ head = d
<1>1. next[d] = d
  BY DEF IsSortedRing
<1>2. head = d
  BY <1>1 DEF IsSortedRing, Keyed
<1>3. ASSUME NEW x \in S, x # d PROVE FALSE
  BY <1>1, <1>2, <1>3 DEF IsSortedRing, Keyed
<1> QED
  BY <1>2, <1>3

\* The predecessor of the head has the largest key.
LEMMA RingLast ==
    ASSUME NEW S, NEW key, NEW next, NEW prev, NEW head,
           IsSortedRing(S, key, next, prev, head), Keyed(S, key)
    PROVE  \A x \in S : key[x] <= key[prev[head]]
BY DEF IsSortedRing, Keyed

\* Where a key between the head's and the last member's belongs: the walk from
\* the head that looks for it ends.
LEMMA RingGap ==
    ASSUME NEW S, NEW key, NEW next, NEW prev, NEW head,
           IsSortedRing(S, key, next, prev, head), Keyed(S, key),
           NEW k \in Int, key[head] < k, NEW y \in S, k < key[y]
    PROVE  \E t \in S : ~(key[t] < k) /\ key[prev[t]] < k
<1> DEFINE Above == {x \in S : k <= key[x]}
           Dist == {key[x] - k : x \in Above}
<1>0. \A x \in S : key[x] \in Int
  BY DEF Keyed
<1>1. Dist \subseteq Nat /\ Dist # {}
  BY <1>0
<1>2. PICK d \in Dist : \A e \in Dist : d <= e
  <2> HIDE DEF Dist
  <2> QED
    BY <1>1, LeastNatural
<1>3. PICK t \in Above : d = key[t] - k
  OBVIOUS
<1>4. ASSUME NEW x \in Above PROVE key[t] <= key[x]
  <2>1. key[x] - k \in Dist
    OBVIOUS
  <2>2. key[t] - k <= key[x] - k
    BY <1>2, <1>3, <2>1
  <2> QED
    BY <1>0, <2>2
<1>5. t \in S /\ t # head /\ head \in S
  BY <1>0, <1>3 DEF IsSortedRing
<1>6. prev[t] \in S /\ next[prev[t]] = t
  BY <1>5 DEF IsSortedRing
<1>7. key[prev[t]] < key[t]
  BY <1>5, <1>6 DEF IsSortedRing
<1>8. prev[t] \notin Above
  BY <1>0, <1>4, <1>5, <1>6, <1>7
<1> QED
  BY <1>0, <1>3, <1>6, <1>8

\* Linking n in before t, where its key belongs.
LEMMA RingInsert ==
    ASSUME NEW S, NEW key, NEW next, NEW prev, NEW head,
           IsSortedRing(S, key, next, prev, head),
           NEW n, n \notin S, Keyed(S \cup {n}, key), NEW t \in S,
           IF key[n] < key[head] THEN t = head
           ELSE key[prev[t]] < key[n] /\ (t = head \/ key[n] < key[t]),
           NEW next2, NEW prev2, NEW head2,
           next2[n] = t, prev2[n] = prev[t], next2[prev[t]] = n, prev2[t] = n,
           \A x \in S : x # prev[t] => next2[x] = next[x],
           \A x \in S : x # t => prev2[x] = prev[x],
           head2 = IF key[n] < key[head] THEN n ELSE head
    PROVE  IsSortedRing(S \cup {n}, key, next2, prev2, head2)
<1> DEFINE T == S \cup {n}
<1> USE DEF Keyed
<1>0. /\ head \in S /\ prev[t] \in S /\ next[prev[t]] = t
      /\ \A x \in S : key[x] \in Int /\ key[x] # key[n]
      /\ key[n] \in Int
  BY DEF IsSortedRing
<1>1. head2 \in T
  BY <1>0
<1>2. ASSUME NEW x \in T
      PROVE  /\ next2[x] \in T /\ prev2[next2[x]] = x
             /\ prev2[x] \in T /\ next2[prev2[x]] = x
  <2>1. CASE x = n
    BY <1>0, <2>1
  <2>2. CASE x \in S
    BY <1>0, <2>2 DEF IsSortedRing
  <2> QED
    BY <2>1, <2>2
<1>3. ASSUME NEW x \in T PROVE key[head2] <= key[x]
  BY <1>0 DEF IsSortedRing
<1>4. ASSUME NEW x \in T, next2[x] # head2 PROVE key[x] < key[next2[x]]
  <2>1. CASE x = n
    BY <1>0, <1>4, <2>1 DEF IsSortedRing
  <2>2. CASE x = prev[t]
    BY <1>0, <1>4, <2>2 DEF IsSortedRing
  <2>3. CASE x \in S /\ x # prev[t]
    BY <1>0, <1>4, <2>3 DEF IsSortedRing
  <2> QED
    BY <2>1, <2>2, <2>3
<1>5. ASSUME NEW x \in T, NEW y \in T, key[x] < key[y]
      PROVE  next2[x] # head2 /\ key[next2[x]] <= key[y]
  <2>1. \A z \in S : key[z] <= key[prev[head]]
    BY RingLast
  <2>2. CASE x = n
    BY <1>0, <1>5, <2>1, <2>2 DEF IsSortedRing
  <2>3. CASE x = prev[t]
    BY <1>0, <1>5, <2>1, <2>3 DEF IsSortedRing
  <2>4. CASE x \in S /\ x # prev[t]
    <3>1. CASE y = n
      <4>1. key[head] <= key[x] /\ ~(key[n] < key[head])
        BY <1>0, <1>5, <2>4, <3>1 DEF IsSortedRing
      <4>2. key[prev[t]] < key[n] /\ (t = head \/ key[n] < key[t])
        BY <4>1
      <4>3. ~(key[prev[t]] < key[x])
        <5>1. CASE t = head
          BY <1>0, <2>1, <2>4, <5>1
        <5>2. CASE key[n] < key[t]
          <6>1. key[prev[t]] < key[x] => key[t] <= key[x]
            BY <1>0, <2>4 DEF IsSortedRing
          <6> QED
            BY <1>0, <1>5, <2>4, <3>1, <5>2, <6>1
        <5> QED
          BY <4>2, <5>1, <5>2
      <4>4. key[x] # key[prev[t]]
        BY <1>0, <2>4
      <4>5. next[x] # head /\ key[next[x]] <= key[prev[t]] /\ next[x] \in S
        BY <1>0, <2>4, <4>3, <4>4 DEF IsSortedRing
      <4>6. next2[x] = next[x] /\ head2 = head
        BY <2>4, <4>1
      <4> QED
        BY <1>0, <3>1, <4>2, <4>5, <4>6
    <3>2. CASE y \in S
      BY <1>0, <1>5, <2>1, <2>4, <3>2 DEF IsSortedRing
    <3> QED
      BY <3>1, <3>2
  <2> QED
    BY <2>2, <2>3, <2>4
<1> QED
  BY <1>1, <1>2, <1>3, <1>4, <1>5 DEF IsSortedRing

\* Linking n in behind the last member.
LEMMA RingAppend ==
    ASSUME NEW S, NEW key, NEW next, NEW prev, NEW head,
           IsSortedRing(S, key, next, prev, head),
           NEW n, n \notin S, Keyed(S \cup {n}, key),
           ~(key[n] < key[head]), key[prev[head]] < key[n],
           NEW next2, NEW prev2,
           next2[n] = head, prev2[n] = prev[head],
           next2[prev[head]] = n, prev2[head] = n,
           \A x \in S : x # prev[head] => next2[x] = next[x],
           \A x \in S : x # head => prev2[x] = prev[x]
    PROVE  IsSortedRing(S \cup {n}, key, next2, prev2, head)
<1> DEFINE T == S \cup {n}
<1> USE DEF Keyed
<1>0. /\ head \in S /\ prev[head] \in S /\ next[prev[head]] = head
      /\ \A x \in S : key[x] \in Int /\ key[x] <= key[prev[head]]
      /\ key[n] \in Int
  BY RingLast DEF IsSortedRing
<1>1. ASSUME NEW x \in T
      PROVE  /\ next2[x] \in T /\ prev2[next2[x]] = x
             /\ prev2[x] \in T /\ next2[prev2[x]] = x
             /\ key[head] <= key[x]
             /\ next2[x] # head => key[x] < key[next2[x]]
  <2>1. CASE x = n
    BY <1>0, <2>1
  <2>2. CASE x \in S
    BY <1>0, <2>2 DEF IsSortedRing
  <2> QED
    BY <2>1, <2>2
<1>2. ASSUME NEW x \in T, NEW y \in T, key[x] < key[y]
      PROVE  next2[x] # head /\ key[next2[x]] <= key[y]
  <2>1. CASE x = n
    BY <1>0, <1>2, <2>1
  <2>2. CASE x = prev[head]
    BY <1>0, <1>2, <2>2
  <2>3. CASE x \in S /\ x # prev[head]
    BY <1>0, <1>2, <2>3 DEF IsSortedRing
  <2> QED
    BY <2>1, <2>2, <2>3
<1> QED
  BY <1>0, <1>1, <1>2 DEF IsSortedRing

\* Unlinking d from a ring that has other members.
LEMMA RingRemove ==
    ASSUME NEW S, NEW key, NEW next, NEW prev, NEW head,
           IsSortedRing(S, key, next, prev, head), Keyed(S, key),
           NEW d \in S, next[d] # d,
           NEW next2, NEW prev2, NEW head2,
           next2[prev[d]] = next[d], prev2[next[d]] = prev[d],
           \A x \in S \ {d} : x # prev[d] => next2[x] = next[x],
           \A x \in S \ {d} : x # next[d] => prev2[x] = prev[x],
           head2 = IF head = d THEN next[d] ELSE head
    PROVE  IsSortedRing(S \ {d}, key, next2, prev2, head2)
<1> DEFINE T == S \ {d}
<1> USE DEF Keyed
<1>0. /\ next[d] \in T /\ prev[d] \in T
      /\ \A x \in S : key[x] \in Int
  BY DEF IsSortedRing
<1>1. head2 \in T
  BY <1>0 DEF IsSortedRing
<1>2. ASSUME NEW x \in T
      PROVE  /\ next2[x] \in T /\ prev2[next2[x]] = x
             /\ prev2[x] \in T /\ next2[prev2[x]] = x
  BY <1>0 DEF IsSortedRing
<1>3. ASSUME NEW x \in T PROVE key[head2] <= key[x]
  BY <1>0 DEF IsSortedRing
<1>4. ASSUME NEW x \in T, next2[x] # head2 PROVE key[x] < key[next2[x]]
  <2>1. CASE x = prev[d]
    BY <1>0, <1>4, <2>1 DEF IsSortedRing
  <2>2. CASE x # prev[d]
    BY <1>0, <1>4, <2>2 DEF IsSortedRing
  <2> QED
    BY <2>1, <2>2
<1>5. ASSUME NEW x \in T, NEW y \in T, key[x] < key[y]
      PROVE  next2[x] # head2 /\ key[next2[x]] <= key[y]
  <2>1. CASE x = prev[d]
    BY <1>0, <1>5, <2>1 DEF IsSortedRing
  <2>2. CASE x # prev[d]
    BY <1>0, <1>5, <2>2 DEF IsSortedRing
  <2> QED
    BY <2>1, <2>2
<1> QED
  BY <1>1, <1>2, <1>3, <1>4, <1>5 DEF IsSortedRing
----------------------------------------------------------------------------
(* The book.                                                               *)

NoAliasing ==
    \A p, q \in Prices : PriceToIndex(p) = PriceToIndex(q) => p = q

\* The part of TypeOK that concerns the book.
BookTypeOK ==
    /\ order_pool_ \in [OrderIds -> Order \cup {FreeOrder}]
    /\ orders_at_price_pool_ \in [Prices -> Level \cup {FreeLevel}]
    /\ price_orders_at_price_ \in [LevelIndices -> Prices \cup {Null}]
    /\ best_by_price \in [Sides -> Prices \cup {Null}]
    /\ cid_oid_to_order_ \in [Clients -> [Oids -> OrderIds \cup {Null}]]

\* What the maps lead to is what it should be; clients that reuse the id of a live
\* order hide that order, so that IndicesExact's other half need not hold.
IndicesSound ==
    /\ \A c \in Clients, o \in Oids : LET id == cid_oid_to_order_[c][o] IN
          id # Null => /\ id \in LiveOrders
                       /\ order_pool_[id].client_id_ = c
                       /\ order_pool_[id].client_order_id_ = o
    /\ \A i \in LevelIndices : LET l == price_orders_at_price_[i] IN
          l # Null => l \in LiveLevels /\ PriceToIndex(l) = i
    /\ \A l \in LiveLevels : GetOrdersAtPrice(l) = l
AllMapped ==
    \A id \in LiveOrders :
        cid_oid_to_order_[order_pool_[id].client_id_][order_pool_[id].client_order_id_] = id

BookOK ==
    /\ BookTypeOK
    /\ IndicesSound
    /\ LevelsMatchOrders
    /\ LevelsSorted
    /\ OrdersInTimeOrder
    /\ NotCrossed

\* Every price has a slot in the price index.
LEMMA PriceToIndexType == \A p \in Prices : PriceToIndex(p) \in LevelIndices
BY MEOrderBookAssumption DEF PriceToIndex, LevelIndices

\* Prices are numbers, so that they can be compared, and none is the null pointer.
LEMMA PricesAreNumbers == \A p \in Prices : p \in Nat /\ p # 0
BY MEOrderBookAssumption

\* No object is at the null pointer.
LEMMA NullNotUsed == Null \notin Prices /\ Null \notin OrderIds
BY MEOrderBookAssumption DEF Null, OrderIds

\* What is in use has a side, and only that.
LEMMA LiveOrderType ==
    ASSUME BookTypeOK, NEW id \in LiveOrders
    PROVE  id \in OrderIds /\ order_pool_[id] \in Order
BY DEF BookTypeOK, LiveOrders, Order, FreeOrder

\* The same of the levels.
LEMMA LiveLevelType ==
    ASSUME BookTypeOK, NEW l \in LiveLevels
    PROVE  l \in Prices /\ orders_at_price_pool_[l] \in Level
BY DEF BookTypeOK, LiveLevels, Level, FreeLevel

\* The levels of the two sides are the live levels.
LEMMA LevelsOfLive ==
    ASSUME BookTypeOK
    PROVE  /\ \A side \in Sides : LevelsOf(side) \subseteq LiveLevels
           /\ \A l \in LiveLevels : l \in LevelsOf(orders_at_price_pool_[l].side_)
BY LiveLevelType DEF LevelsOf, LiveLevels, Level, Sides

\* The orders of a level are told apart by their ids.
LEMMA ArrivalKeyed == \A l : Keyed(OrdersAt(l), Arrival)
BY DEF Keyed, OrdersAt, LiveOrders, Arrival, OrderIds

\* The levels of a side are told apart by their prices.
LEMMA RankKeyed == \A side : \A S \in SUBSET Prices : Keyed(S, Rank(side))
BY MEOrderBookAssumption DEF Keyed, Rank

\* A live order lies in the ring of a live level of its price and side, which
\* getOrdersAtPrice finds.
LEMMA OrderHasLevel ==
    ASSUME BookOK, NEW id \in LiveOrders
    PROVE  LET l == order_pool_[id].price_ IN
           /\ l \in LiveLevels
           /\ GetOrdersAtPrice(l) = l
           /\ orders_at_price_pool_[l].side_ = order_pool_[id].side_
           /\ id \in OrdersAt(l)
           /\ IsSortedRing(OrdersAt(l), Arrival, NextOrder, PrevOrder,
                           orders_at_price_pool_[l].first_me_order_)
<1>1. order_pool_[id] \in Order
  BY LiveOrderType DEF BookOK
<1>2. order_pool_[id].price_ \in LiveLevels
  BY <1>1 DEF BookOK, LevelsMatchOrders, LiveLevels, Order, Sides
<1> QED
  BY <1>1, <1>2 DEF BookOK, LevelsMatchOrders, IndicesSound, OrdersInTimeOrder, OrdersAt

\* Unlinking an order whose level keeps other orders.
LEMMA RemoveFromLevel ==
    ASSUME NoAliasing, BookOK, NEW id \in LiveOrders, RemoveOrder(id),
           order_pool_[id].prev_order_ # id
    PROVE  BookOK' /\ LiveOrders' = LiveOrders \ {id}
<1> DEFINE order == order_pool_[id]
           l == order.price_
           p == order.prev_order_
           n == order.next_order_
<1>1. /\ BookTypeOK /\ order \in Order
      /\ l \in LiveLevels /\ l \in Prices
      /\ orders_at_price_pool_[l] \in Level
      /\ GetOrdersAtPrice(l) = l
      /\ orders_at_price_pool_[l].side_ = order.side_
      /\ id \in OrdersAt(l)
      /\ IsSortedRing(OrdersAt(l), Arrival, NextOrder, PrevOrder,
                      orders_at_price_pool_[l].first_me_order_)
  BY LiveOrderType, OrderHasLevel, LiveLevelType DEF BookOK
<1>2. /\ p \in OrdersAt(l) /\ n \in OrdersAt(l) /\ p # id /\ n # id
      /\ NextOrder[id] = n /\ PrevOrder[id] = p
  <2>1. NextOrder[id] = n /\ PrevOrder[id] = p
    BY DEF NextOrder, PrevOrder, LiveOrders
  <2>2. NextOrder[id] \in OrdersAt(l) /\ PrevOrder[NextOrder[id]] = id
        /\ PrevOrder[id] \in OrdersAt(l)
    <3> HIDE DEF order, l, p, n
    <3> QED
      BY <1>1 DEF IsSortedRing
  <2> QED
    BY <2>1, <2>2
<1>3. /\ order_pool_' = [order_pool_ EXCEPT ![p].next_order_ = n,
                            ![n].prev_order_ = p, ![id] = FreeOrder]
      /\ orders_at_price_pool_' =
            [orders_at_price_pool_ EXCEPT ![l].first_me_order_ =
                FirstWithout(@, id, n)]
      /\ UNCHANGED <<price_orders_at_price_, best_by_price>>
      /\ Unmap(order)
  BY <1>1 DEF RemoveOrder
<1> HIDE DEF order, l, p, n
<1>4. /\ p \in OrderIds /\ n \in OrderIds /\ id \in OrderIds
      /\ order_pool_[p] \in Order /\ order_pool_[n] \in Order
  BY <1>1, <1>2, LiveOrderType DEF OrdersAt
<1>5. /\ order_pool_' \in [OrderIds -> Order \cup {FreeOrder}]
      /\ order_pool_'[id] = FreeOrder
      /\ \A x \in OrderIds \ {id} :
           /\ order_pool_'[x].side_ = order_pool_[x].side_
           /\ order_pool_'[x].price_ = order_pool_[x].price_
           /\ order_pool_'[x].client_id_ = order_pool_[x].client_id_
           /\ order_pool_'[x].client_order_id_ = order_pool_[x].client_order_id_
           /\ order_pool_'[x].priority_ = order_pool_[x].priority_
           /\ order_pool_'[x].next_order_ =
                 IF x = p THEN n ELSE order_pool_[x].next_order_
           /\ order_pool_'[x].prev_order_ =
                 IF x = n THEN p ELSE order_pool_[x].prev_order_
  BY <1>1, <1>2, <1>3, <1>4 DEF BookTypeOK, Order, FreeOrder
<1>6. /\ LiveOrders' = LiveOrders \ {id}
      /\ \A m : OrdersAt(m)' = OrdersAt(m) \ {id}
  BY <1>4, <1>5 DEF LiveOrders, OrdersAt, FreeOrder
<1>7. /\ orders_at_price_pool_' \in [Prices -> Level \cup {FreeLevel}]
      /\ \A m \in Prices :
           /\ orders_at_price_pool_'[m].side_ = orders_at_price_pool_[m].side_
           /\ orders_at_price_pool_'[m].next_entry_ = orders_at_price_pool_[m].next_entry_
           /\ orders_at_price_pool_'[m].prev_entry_ = orders_at_price_pool_[m].prev_entry_
           /\ orders_at_price_pool_'[m].first_me_order_ =
                 IF m = l THEN FirstWithout(orders_at_price_pool_[l].first_me_order_, id, n)
                 ELSE orders_at_price_pool_[m].first_me_order_
  BY <1>1, <1>3, <1>4 DEF BookTypeOK, Level, FreeLevel, FirstWithout
<1>8. /\ LiveLevels' = LiveLevels
      /\ \A side : LevelsOf(side)' = LevelsOf(side)
      /\ NextEntry' = NextEntry /\ PrevEntry' = PrevEntry
  BY <1>7 DEF LiveLevels, LevelsOf, NextEntry, PrevEntry
<1>9. BookTypeOK'
  BY <1>1, <1>3, <1>5, <1>7 DEF BookTypeOK, Unmap, Order
<1>10. IndicesSound'
  <2>0. /\ \A c \in Clients, o \in Oids :
              cid_oid_to_order_'[c][o] =
                  IF c = order.client_id_ /\ o = order.client_order_id_ THEN Null
                  ELSE cid_oid_to_order_[c][o]
    BY <1>1, <1>3 DEF BookOK, BookTypeOK, IndicesSound, Unmap, Order, order
  <2>1. ASSUME NEW c \in Clients, NEW o \in Oids, cid_oid_to_order_'[c][o] # Null
        PROVE  LET x == cid_oid_to_order_'[c][o] IN
               /\ x \in LiveOrders'
               /\ order_pool_'[x].client_id_ = c
               /\ order_pool_'[x].client_order_id_ = o
    <3>1. cid_oid_to_order_'[c][o] = cid_oid_to_order_[c][o] /\ cid_oid_to_order_[c][o] # id
      BY <2>0, <2>1 DEF BookOK, IndicesSound, order
    <3> QED
      BY <1>5, <1>6, <2>1, <3>1 DEF BookOK, IndicesSound, LiveOrders
  <2> QED
    BY <1>3, <1>8, <2>1 DEF BookOK, IndicesSound, GetOrdersAtPrice
<1>11. LevelsMatchOrders'
  <2>1. \A x \in LiveOrders' :
           orders_at_price_pool_'[order_pool_'[x].price_].side_ = order_pool_'[x].side_
    BY <1>5, <1>6, <1>7, LiveOrderType DEF BookOK, LevelsMatchOrders, Order
  <2>2. ASSUME NEW m \in LiveLevels'
        PROVE  \E x \in LiveOrders' : order_pool_'[x].price_ = m
    <3>1. CASE m = l
      BY <1>2, <1>4, <1>5, <1>6, <3>1 DEF OrdersAt
    <3>2. CASE m # l
      <4>1. PICK x \in LiveOrders : order_pool_[x].price_ = m
        BY <1>8 DEF BookOK, LevelsMatchOrders
      <4> QED
        BY <4>1, <3>2, <1>5, <1>6 DEF l, order, LiveOrders
    <3> QED
      BY <3>1, <3>2
  <2> QED
    BY <2>1, <2>2 DEF LevelsMatchOrders
<1>12. LevelsSorted'
  BY <1>3, <1>8 DEF BookOK, LevelsSorted, Rank
<1>13. OrdersInTimeOrder'
  <2> SUFFICES ASSUME NEW m \in LiveLevels
               PROVE  /\ IsSortedRing(OrdersAt(m)', Arrival, NextOrder', PrevOrder',
                                orders_at_price_pool_'[m].first_me_order_)
                      /\ \A o, q \in OrdersAt(m)' :
                            o < q => order_pool_'[o].priority_ < order_pool_'[q].priority_
    BY <1>8 DEF OrdersInTimeOrder, Arrival
  <2>1. /\ IsSortedRing(OrdersAt(m), Arrival, NextOrder, PrevOrder,
                        orders_at_price_pool_[m].first_me_order_)
        /\ \A o, q \in OrdersAt(m) :
              o < q => order_pool_[o].priority_ < order_pool_[q].priority_
    BY DEF BookOK, OrdersInTimeOrder
  <2>2. \A o \in OrdersAt(m)' : o \in OrdersAt(m) /\ o \in OrderIds \ {id}
    BY <1>6 DEF OrdersAt, LiveOrders
  <2>3. /\ \A x \in OrderIds \ {id} :
              /\ NextOrder'[x] = IF x = p THEN n ELSE NextOrder[x]
              /\ PrevOrder'[x] = IF x = n THEN p ELSE PrevOrder[x]
    BY <1>5 DEF NextOrder, PrevOrder
  <2>6. \A o, q \in OrdersAt(m)' :
           o < q => order_pool_'[o].priority_ < order_pool_'[q].priority_
    BY <1>5, <2>1, <2>2
  <2>4. CASE m = l
    <3>1. IsSortedRing(OrdersAt(l) \ {id}, Arrival, NextOrder', PrevOrder',
                       orders_at_price_pool_'[l].first_me_order_)
      <4>1. orders_at_price_pool_'[l].first_me_order_ =
               IF orders_at_price_pool_[l].first_me_order_ = id THEN n
               ELSE orders_at_price_pool_[l].first_me_order_
        BY <1>1, <1>7 DEF FirstWithout
      <4>2. OrdersAt(l) \subseteq OrderIds
        BY DEF OrdersAt, LiveOrders
      <4> QED
        BY <1>1, <1>2, <1>4, <2>3, <4>1, <4>2, ArrivalKeyed, RingRemove
    <3> QED
      BY <1>6, <2>4, <2>6, <3>1
  <2>5. CASE m # l
    <3>1. OrdersAt(m)' = OrdersAt(m) /\ p \notin OrdersAt(m) /\ n \notin OrdersAt(m)
      BY <1>1, <1>2, <1>6, <2>5 DEF OrdersAt
    <3>2. IsSortedRing(OrdersAt(m), Arrival, NextOrder', PrevOrder',
                       orders_at_price_pool_'[m].first_me_order_)
      <4>1. orders_at_price_pool_'[m].first_me_order_ =
               orders_at_price_pool_[m].first_me_order_
        BY <1>7, <2>5 DEF LiveLevels
      <4>2. \A x \in OrdersAt(m) : NextOrder'[x] = NextOrder[x] /\ PrevOrder'[x] = PrevOrder[x]
        BY <2>2, <2>3, <3>1
      <4> QED
        BY <2>1, <4>1, <4>2, RingUnchanged
    <3> QED
      BY <2>6, <3>1, <3>2
  <2> QED
    BY <2>4, <2>5
<1>14. NotCrossed'
  BY <1>5, <1>6 DEF BookOK, NotCrossed, LiveOrders
<1> QED
  BY <1>6, <1>9, <1>10, <1>11, <1>12, <1>13, <1>14 DEF BookOK

\* Unlinking the only order of a level, and the level with it.
LEMMA RemoveWithLevel ==
    ASSUME NoAliasing, BookOK, NEW id \in LiveOrders, RemoveOrder(id),
           order_pool_[id].prev_order_ = id
    PROVE  BookOK' /\ LiveOrders' = LiveOrders \ {id}
<1> DEFINE order == order_pool_[id]
           l == order.price_
           side == order.side_
           pe == orders_at_price_pool_[l].prev_entry_
           ne == orders_at_price_pool_[l].next_entry_
<1>1. /\ BookTypeOK /\ order \in Order
      /\ l \in LiveLevels /\ l \in Prices
      /\ orders_at_price_pool_[l] \in Level
      /\ GetOrdersAtPrice(l) = l
      /\ orders_at_price_pool_[l].side_ = side
      /\ id \in OrdersAt(l) /\ id \in OrderIds
      /\ IsSortedRing(OrdersAt(l), Arrival, NextOrder, PrevOrder,
                      orders_at_price_pool_[l].first_me_order_)
  BY LiveOrderType, OrderHasLevel, LiveLevelType DEF BookOK
<1>2. OrdersAt(l) = {id}
  <2>1. PrevOrder[id] = id
    BY <1>1 DEF PrevOrder
  <2> HIDE DEF order, l
  <2> QED
    BY <1>1, <2>1, ArrivalKeyed, RingAlone
<1>3. /\ order_pool_' = [order_pool_ EXCEPT ![id] = FreeOrder]
      /\ RemoveOrdersAtPrice(side, l)
      /\ Unmap(order)
  BY DEF RemoveOrder
<1>4. side \in Sides /\ l \in LevelsOf(side)
  BY <1>1 DEF Order, LevelsOf
<1>5. /\ IsSortedRing(LevelsOf(side), Rank(side), NextEntry, PrevEntry, best_by_price[side])
      /\ Keyed(LevelsOf(side), Rank(side))
  BY <1>4, RankKeyed DEF BookOK, LevelsSorted, LevelsOf
<1>6. NextEntry[l] = ne /\ PrevEntry[l] = pe
  BY <1>1 DEF NextEntry, PrevEntry
<1> HIDE DEF order, l, side, pe, ne
<1>7. /\ price_orders_at_price_' =
            [price_orders_at_price_ EXCEPT ![PriceToIndex(l)] = Null]
      /\ IF ne = l
         THEN /\ best_by_price' = [best_by_price EXCEPT ![side] = Null]
              /\ orders_at_price_pool_' = [orders_at_price_pool_ EXCEPT ![l] = FreeLevel]
         ELSE /\ best_by_price' = [best_by_price EXCEPT ![side] = IF @ = l THEN ne ELSE @]
              /\ orders_at_price_pool_' =
                    [orders_at_price_pool_ EXCEPT ![pe].next_entry_ = ne,
                         ![ne].prev_entry_ = pe, ![l] = FreeLevel]
  BY <1>1, <1>3 DEF RemoveOrdersAtPrice, pe, ne
<1>8. /\ order_pool_' \in [OrderIds -> Order \cup {FreeOrder}]
      /\ order_pool_'[id] = FreeOrder
      /\ \A x \in OrderIds \ {id} : order_pool_'[x] = order_pool_[x]
  BY <1>1, <1>3 DEF BookTypeOK
<1>9. /\ LiveOrders' = LiveOrders \ {id}
      /\ \A m : OrdersAt(m)' = OrdersAt(m) \ {id}
  BY <1>1, <1>8 DEF LiveOrders, OrdersAt, FreeOrder
<1>10. /\ ne \in LevelsOf(side) /\ pe \in LevelsOf(side)
       /\ PrevEntry[ne] = l /\ NextEntry[pe] = l
  BY <1>4, <1>5, <1>6 DEF IsSortedRing
<1>11. /\ pe \in Prices /\ ne \in Prices
       /\ orders_at_price_pool_[pe] \in Level /\ orders_at_price_pool_[ne] \in Level
       /\ pe \in LiveLevels /\ ne \in LiveLevels
  BY <1>1, <1>4, <1>10, LevelsOfLive, LiveLevelType
<1>12. ne # l => pe # l
  BY <1>6, <1>10
<1>13. /\ orders_at_price_pool_' \in [Prices -> Level \cup {FreeLevel}]
       /\ orders_at_price_pool_'[l] = FreeLevel
       /\ \A m \in Prices \ {l} :
            /\ orders_at_price_pool_'[m].side_ = orders_at_price_pool_[m].side_
            /\ orders_at_price_pool_'[m].first_me_order_ =
                  orders_at_price_pool_[m].first_me_order_
            /\ orders_at_price_pool_'[m].next_entry_ =
                  IF m = pe /\ ne # l THEN ne ELSE orders_at_price_pool_[m].next_entry_
            /\ orders_at_price_pool_'[m].prev_entry_ =
                  IF m = ne /\ ne # l THEN pe ELSE orders_at_price_pool_[m].prev_entry_
  <2>1. CASE ne = l
    BY <1>1, <1>7, <2>1 DEF BookTypeOK
  <2>2. CASE ne # l
    BY <1>1, <1>7, <1>11, <1>12, <2>2 DEF BookTypeOK, Level, FreeLevel
  <2> QED
    BY <2>1, <2>2
<1>14. /\ LiveLevels' = LiveLevels \ {l}
       /\ \A s \in Sides : LevelsOf(s)' = LevelsOf(s) \ {l}
  BY <1>1, <1>13 DEF LiveLevels, LevelsOf, FreeLevel, Sides
<1>15. BookTypeOK'
  <2>1. best_by_price' \in [Sides -> Prices \cup {Null}]
    BY <1>1, <1>7, <1>11 DEF BookTypeOK
  <2>2. price_orders_at_price_' \in [LevelIndices -> Prices \cup {Null}]
    BY <1>1, <1>7 DEF BookTypeOK
  <2>3. cid_oid_to_order_' \in [Clients -> [Oids -> OrderIds \cup {Null}]]
    BY <1>1, <1>3 DEF BookTypeOK, Unmap
  <2> QED
    BY <1>8, <1>13, <2>1, <2>2, <2>3 DEF BookTypeOK, OrderIds, LevelIndices
<1>16. IndicesSound'
  <2>0. /\ \A c \in Clients, o \in Oids :
              cid_oid_to_order_'[c][o] =
                  IF c = order.client_id_ /\ o = order.client_order_id_ THEN Null
                  ELSE cid_oid_to_order_[c][o]
    BY <1>1, <1>3 DEF BookOK, BookTypeOK, IndicesSound, Unmap, Order, order
  <2>1. ASSUME NEW c \in Clients, NEW o \in Oids, cid_oid_to_order_'[c][o] # Null
        PROVE  LET x == cid_oid_to_order_'[c][o] IN
               /\ x \in LiveOrders'
               /\ order_pool_'[x].client_id_ = c
               /\ order_pool_'[x].client_order_id_ = o
    <3>1. cid_oid_to_order_'[c][o] = cid_oid_to_order_[c][o] /\ cid_oid_to_order_[c][o] # id
      BY <2>0, <2>1 DEF BookOK, IndicesSound, order
    <3> QED
      BY <1>8, <1>9, <2>1, <3>1 DEF BookOK, IndicesSound, LiveOrders
  <2>3. PriceToIndex(l) \in LevelIndices
    BY <1>1, PriceToIndexType
  <2>4. ASSUME NEW i \in LevelIndices, price_orders_at_price_'[i] # Null
        PROVE  LET m == price_orders_at_price_'[i] IN
               m \in LiveLevels' /\ PriceToIndex(m) = i
    <3>1. i # PriceToIndex(l) /\ price_orders_at_price_'[i] = price_orders_at_price_[i]
      BY <1>1, <1>7, <2>3, <2>4 DEF BookTypeOK
    <3> QED
      BY <1>14, <2>4, <3>1 DEF BookOK, IndicesSound
  <2>5. ASSUME NEW m \in LiveLevels' PROVE GetOrdersAtPrice(m)' = m
    <3>1. m \in LiveLevels /\ m # l /\ m \in Prices
      BY <1>14 DEF LiveLevels
    <3>2. PriceToIndex(m) # PriceToIndex(l) /\ PriceToIndex(m) \in LevelIndices
      BY <1>1, <3>1, PriceToIndexType DEF NoAliasing
    <3>3. price_orders_at_price_[PriceToIndex(m)] = m
      BY <3>1 DEF BookOK, IndicesSound, GetOrdersAtPrice
    <3> QED
      BY <1>1, <1>7, <3>2, <3>3 DEF BookTypeOK, GetOrdersAtPrice
  <2> QED
    BY <2>1, <2>4, <2>5 DEF IndicesSound
<1>17. LevelsMatchOrders'
  <2>1. ASSUME NEW x \in LiveOrders'
        PROVE  orders_at_price_pool_'[order_pool_'[x].price_].side_ = order_pool_'[x].side_
    <3>1. /\ x \in LiveOrders /\ x # id /\ x \in OrderIds
          /\ order_pool_[x].price_ \in Prices
      BY <1>1, <1>9, LiveOrderType DEF Order
    <3>2. order_pool_[x].price_ # l
      BY <1>2, <3>1 DEF OrdersAt
    <3> QED
      BY <1>8, <1>13, <3>1, <3>2 DEF BookOK, LevelsMatchOrders
  <2>2. ASSUME NEW m \in LiveLevels'
        PROVE  \E x \in LiveOrders' : order_pool_'[x].price_ = m
    <3>1. PICK x \in LiveOrders : order_pool_[x].price_ = m
      BY <1>14 DEF BookOK, LevelsMatchOrders
    <3>2. x # id /\ x \in OrderIds
      BY <1>14, <3>1 DEF l, order, LiveOrders
    <3> QED
      BY <1>8, <1>9, <3>1, <3>2
  <2> QED
    BY <2>1, <2>2 DEF LevelsMatchOrders
<1>18. LevelsSorted'
  <2>0. \A m \in Prices \ {l} :
           /\ NextEntry'[m] = IF m = pe /\ ne # l THEN ne ELSE NextEntry[m]
           /\ PrevEntry'[m] = IF m = ne /\ ne # l THEN pe ELSE PrevEntry[m]
    BY <1>13 DEF NextEntry, PrevEntry
  <2>1. CASE ne = l
    <3>1. LevelsOf(side) = {l}
      BY <1>4, <1>5, <1>6, <2>1, RingAlone
    <3>2. ASSUME NEW s \in Sides, s # side
          PROVE  IF LevelsOf(s)' = {} THEN best_by_price'[s] = Null
                 ELSE IsSortedRing(LevelsOf(s)', Rank(s), NextEntry', PrevEntry',
                                   best_by_price'[s])
      <4>1. LevelsOf(s)' = LevelsOf(s) /\ best_by_price'[s] = best_by_price[s]
        BY <1>1, <1>4, <1>7, <1>14, <2>1, <3>2 DEF BookTypeOK, LevelsOf
      <4>2. \A m \in LevelsOf(s) : NextEntry'[m] = NextEntry[m] /\ PrevEntry'[m] = PrevEntry[m]
        BY <1>14, <2>0, <2>1, <4>1 DEF LevelsOf
      <4> QED
        BY <4>1, <4>2, RingUnchanged DEF BookOK, LevelsSorted
    <3> QED
      BY <1>1, <1>4, <1>7, <1>14, <2>1, <3>1, <3>2 DEF LevelsSorted, BookTypeOK, Rank
  <2>2. CASE ne # l
    <3>1. IsSortedRing(LevelsOf(side) \ {l}, Rank(side), NextEntry', PrevEntry',
                       best_by_price'[side])
      <4>1. best_by_price'[side] = IF best_by_price[side] = l THEN ne ELSE best_by_price[side]
        BY <1>1, <1>4, <1>7, <2>2 DEF BookTypeOK
      <4>2. LevelsOf(side) \subseteq Prices
        BY DEF LevelsOf
      <4> QED
        BY <1>4, <1>5, <1>6, <1>10, <1>11, <1>12, <2>0, <2>2, <4>1, <4>2, RingRemove
    <3>2. ASSUME NEW s \in Sides, s # side
          PROVE  IF LevelsOf(s)' = {} THEN best_by_price'[s] = Null
                 ELSE IsSortedRing(LevelsOf(s)', Rank(s), NextEntry', PrevEntry',
                                   best_by_price'[s])
      <4>1. LevelsOf(s)' = LevelsOf(s) /\ best_by_price'[s] = best_by_price[s]
        BY <1>1, <1>4, <1>7, <1>14, <2>2, <3>2 DEF BookTypeOK, LevelsOf
      <4>2. \A m \in LevelsOf(s) : NextEntry'[m] = NextEntry[m] /\ PrevEntry'[m] = PrevEntry[m]
        BY <1>10, <1>14, <2>0, <3>2, <4>1 DEF LevelsOf
      <4> QED
        BY <4>1, <4>2, RingUnchanged DEF BookOK, LevelsSorted
    <3>3. LevelsOf(side) \ {l} # {}
      BY <1>10, <2>2
    <3>4. ASSUME NEW s \in Sides, s = side
          PROVE  IF LevelsOf(s)' = {} THEN best_by_price'[s] = Null
                 ELSE IsSortedRing(LevelsOf(s)', Rank(s), NextEntry', PrevEntry',
                                   best_by_price'[s])
      BY <1>14, <3>1, <3>3, <3>4
    <3> QED
      BY <3>2, <3>4 DEF LevelsSorted, Rank
  <2> QED
    BY <2>1, <2>2
<1>19. OrdersInTimeOrder'
  <2> SUFFICES ASSUME NEW m \in LiveLevels'
               PROVE  /\ IsSortedRing(OrdersAt(m)', Arrival, NextOrder', PrevOrder',
                                orders_at_price_pool_'[m].first_me_order_)
                      /\ \A o, q \in OrdersAt(m)' :
                            o < q => order_pool_'[o].priority_ < order_pool_'[q].priority_
    BY DEF OrdersInTimeOrder, Arrival
  <2>1. m \in LiveLevels /\ m # l /\ m \in Prices
    BY <1>14 DEF LiveLevels
  <2>2. /\ IsSortedRing(OrdersAt(m), Arrival, NextOrder, PrevOrder,
                        orders_at_price_pool_[m].first_me_order_)
        /\ \A o, q \in OrdersAt(m) :
              o < q => order_pool_[o].priority_ < order_pool_[q].priority_
    BY <2>1 DEF BookOK, OrdersInTimeOrder
  <2>3. OrdersAt(m)' = OrdersAt(m) /\ \A o \in OrdersAt(m) : o \in OrderIds \ {id}
    BY <1>9, <2>1 DEF OrdersAt, LiveOrders, l, order
  <2>4. \A o \in OrdersAt(m) :
           /\ NextOrder'[o] = NextOrder[o] /\ PrevOrder'[o] = PrevOrder[o]
           /\ order_pool_'[o].priority_ = order_pool_[o].priority_
    BY <1>8, <2>3 DEF NextOrder, PrevOrder
  <2>5. orders_at_price_pool_'[m].first_me_order_ = orders_at_price_pool_[m].first_me_order_
    BY <1>13, <2>1
  <2>6. IsSortedRing(OrdersAt(m), Arrival, NextOrder', PrevOrder',
                     orders_at_price_pool_[m].first_me_order_)
    BY <2>2, <2>4, RingUnchanged
  <2> QED
    BY <2>2, <2>3, <2>4, <2>5, <2>6
<1>20. NotCrossed'
  BY <1>8, <1>9 DEF BookOK, NotCrossed, LiveOrders
<1> QED
  BY <1>9, <1>15, <1>16, <1>17, <1>18, <1>19, <1>20 DEF BookOK

\* removeOrder leaves the book's structure intact and takes out just that order.
LEMMA RemoveOrderCorrect ==
    ASSUME NoAliasing, BookOK, NEW id \in LiveOrders, RemoveOrder(id)
    PROVE  BookOK' /\ LiveOrders' = LiveOrders \ {id}
BY RemoveFromLevel, RemoveWithLevel

\* What add() knows of the request when it comes to put it into the book: its id
\* is the largest yet, and it does not cross the other side.
Addable(r, id) ==
    /\ r \in Request
    /\ r.leaves_qty > 0
    /\ id \in OrderIds
    /\ \A x \in LiveOrders : x < id
    /\ \A x \in LiveOrders : order_pool_[x].side_ # r.side_ =>
          IF r.side_ = "BUY" THEN r.price_ < order_pool_[x].price_
          ELSE order_pool_[x].price_ < r.price_

\* Linking an order in behind the last one of its level.
LEMMA AddToLevel ==
    ASSUME NoAliasing, BookOK, NEW r, NEW id, Addable(r, id), AddOrder(r, id),
           GetOrdersAtPrice(r.price_) # Null
    PROVE  BookOK' /\ LiveOrders' = LiveOrders \cup {id}
<1> DEFINE l == r.price_
           first == orders_at_price_pool_[l].first_me_order_
           last == order_pool_[first].prev_order_
<1>1. /\ BookTypeOK
      /\ r.client_id_ \in Clients /\ r.client_order_id_ \in Oids /\ r.side_ \in Sides
      /\ l \in Prices /\ r.leaves_qty \in Nat \ {0}
      /\ id \in OrderIds /\ id \notin LiveOrders
  BY DEF BookOK, Addable, Request, LiveOrders, OrderIds
<1>2. /\ l \in LiveLevels /\ GetOrdersAtPrice(l) = l
      /\ orders_at_price_pool_[l] \in Level
  <2>1. GetOrdersAtPrice(l) \in LiveLevels /\ PriceToIndex(GetOrdersAtPrice(l)) = PriceToIndex(l)
    BY <1>1, PriceToIndexType DEF BookOK, IndicesSound, GetOrdersAtPrice
  <2>2. GetOrdersAtPrice(l) = l
    BY <1>1, <2>1 DEF NoAliasing, LiveLevels
  <2> QED
    BY <1>1, <2>1, <2>2, LiveLevelType
<1>3. orders_at_price_pool_[l].side_ = r.side_
  <2>1. PICK x \in LiveOrders : order_pool_[x].price_ = l
    BY <1>2 DEF BookOK, LevelsMatchOrders
  <2>2. l \in Nat
    BY <1>1, PricesAreNumbers
  <2>3. order_pool_[x].side_ # r.side_ =>
           IF r.side_ = "BUY" THEN l < l ELSE l < l
    BY <2>1 DEF Addable
  <2>4. order_pool_[x].side_ = r.side_
    <3> HIDE DEF l
    <3> QED
      BY <2>2, <2>3
  <2> QED
    BY <2>1, <2>4 DEF BookOK, LevelsMatchOrders
<1>4. /\ IsSortedRing(OrdersAt(l), Arrival, NextOrder, PrevOrder, first)
      /\ \A o, q \in OrdersAt(l) :
            o < q => order_pool_[o].priority_ < order_pool_[q].priority_
  BY <1>2 DEF BookOK, OrdersInTimeOrder
<1>5. /\ first \in OrdersAt(l) /\ last \in OrdersAt(l) /\ NextOrder[last] = first
      /\ PrevOrder[first] = last
      /\ \A x \in OrdersAt(l) : x \in OrderIds /\ x <= last /\ x < id
  <2>1. first \in OrdersAt(l) /\ PrevOrder[first] \in OrdersAt(l)
        /\ NextOrder[PrevOrder[first]] = first
    BY <1>4 DEF IsSortedRing
  <2>2. \A x \in OrdersAt(l) : x \in OrderIds /\ x < id /\ Arrival[x] = x
    BY DEF OrdersAt, LiveOrders, Addable, Arrival
  <2>3. PrevOrder[first] = last
    BY <2>1, <2>2 DEF PrevOrder
  <2>4. \A x \in OrdersAt(l) : Arrival[x] <= Arrival[PrevOrder[first]]
    BY <1>4, ArrivalKeyed, RingLast
  <2> QED
    BY <2>1, <2>2, <2>3, <2>4
<1>6. /\ first \in OrderIds /\ last \in OrderIds /\ first # id /\ last # id
      /\ order_pool_[first] \in Order /\ order_pool_[last] \in Order
  BY <1>1, <1>5, LiveOrderType DEF OrdersAt
<1> DEFINE order == [client_id_ |-> r.client_id_,
                     client_order_id_ |-> r.client_order_id_,
                     side_ |-> r.side_, price_ |-> l, qty_ |-> r.leaves_qty,
                     priority_ |-> order_pool_[last].priority_ + 1,
                     prev_order_ |-> last, next_order_ |-> first]
<1>7. /\ order_pool_' = [order_pool_ EXCEPT ![id] = order, ![last].next_order_ = id,
                            ![first].prev_order_ = id]
      /\ UNCHANGED <<orders_at_price_pool_, price_orders_at_price_, best_by_price>>
      /\ cid_oid_to_order_' = [cid_oid_to_order_ EXCEPT
                                  ![r.client_id_][r.client_order_id_] = id]
  BY <1>1, <1>2, NullNotUsed DEF AddOrder, GetNextPriority
<1>8. order \in Order /\ order.side_ = r.side_ /\ order.price_ = l
      /\ order.client_id_ = r.client_id_ /\ order.client_order_id_ = r.client_order_id_
      /\ order.prev_order_ = last /\ order.next_order_ = first
      /\ order.priority_ = order_pool_[last].priority_ + 1
  BY <1>1, <1>6 DEF Order
<1> HIDE DEF l, first, last, order
<1>9. /\ order_pool_' \in [OrderIds -> Order \cup {FreeOrder}]
      /\ order_pool_'[id] = order
      /\ \A x \in OrderIds \ {id} :
           /\ order_pool_'[x].side_ = order_pool_[x].side_
           /\ order_pool_'[x].price_ = order_pool_[x].price_
           /\ order_pool_'[x].client_id_ = order_pool_[x].client_id_
           /\ order_pool_'[x].client_order_id_ = order_pool_[x].client_order_id_
           /\ order_pool_'[x].priority_ = order_pool_[x].priority_
           /\ order_pool_'[x].next_order_ =
                 IF x = last THEN id ELSE order_pool_[x].next_order_
           /\ order_pool_'[x].prev_order_ =
                 IF x = first THEN id ELSE order_pool_[x].prev_order_
  BY <1>1, <1>6, <1>7, <1>8 DEF BookTypeOK, Order, FreeOrder
<1>10. /\ LiveOrders' = LiveOrders \cup {id}
       /\ OrdersAt(l)' = OrdersAt(l) \cup {id}
       /\ \A m : m # l => OrdersAt(m)' = OrdersAt(m)
  <2>1. LiveOrders' = LiveOrders \cup {id}
    BY <1>1, <1>8, <1>9 DEF LiveOrders, Sides
  <2>2. \A x \in LiveOrders : x \in OrderIds \ {id}
    BY <1>1 DEF LiveOrders
  <2>3. l' = l
    BY DEF l
  <2> QED
    BY <1>8, <1>9, <2>1, <2>2, <2>3 DEF OrdersAt
<1>11. BookTypeOK'
  BY <1>1, <1>7, <1>9 DEF BookTypeOK
<1>12. IndicesSound'
  <2>0. \A c \in Clients, o \in Oids :
              cid_oid_to_order_'[c][o] =
                  IF c = r.client_id_ /\ o = r.client_order_id_ THEN id
                  ELSE cid_oid_to_order_[c][o]
    BY <1>1, <1>7 DEF BookTypeOK
  <2>1. ASSUME NEW c \in Clients, NEW o \in Oids, cid_oid_to_order_'[c][o] # Null
        PROVE  LET x == cid_oid_to_order_'[c][o] IN
               /\ x \in LiveOrders'
               /\ order_pool_'[x].client_id_ = c
               /\ order_pool_'[x].client_order_id_ = o
    <3>1. CASE c = r.client_id_ /\ o = r.client_order_id_
      BY <1>8, <1>9, <1>10, <2>0, <3>1
    <3>2. CASE ~(c = r.client_id_ /\ o = r.client_order_id_)
      BY <1>1, <1>9, <1>10, <2>0, <2>1, <3>2 DEF BookOK, IndicesSound, LiveOrders
    <3> QED
      BY <3>1, <3>2
  <2> QED
    BY <1>7, <2>1 DEF BookOK, IndicesSound, GetOrdersAtPrice, LiveLevels
<1>13. LevelsMatchOrders'
  <2>1. ASSUME NEW x \in LiveOrders'
        PROVE  orders_at_price_pool_'[order_pool_'[x].price_].side_ = order_pool_'[x].side_
    <3>1. CASE x = id
      <4>1. order_pool_'[x].price_ = l /\ order_pool_'[x].side_ = r.side_
        BY <1>8, <1>9, <3>1
      <4>2. orders_at_price_pool_' = orders_at_price_pool_
        BY <1>7
      <4> QED
        BY <1>3, <4>1, <4>2
    <3>2. CASE x # id
      BY <1>7, <1>9, <1>10, <3>2 DEF BookOK, LevelsMatchOrders, LiveOrders
    <3> QED
      BY <3>1, <3>2
  <2>2. ASSUME NEW m \in LiveLevels'
        PROVE  \E x \in LiveOrders' : order_pool_'[x].price_ = m
    <3>1. PICK x \in LiveOrders : order_pool_[x].price_ = m
      BY <1>7 DEF BookOK, LevelsMatchOrders, LiveLevels
    <3> QED
      BY <1>1, <1>9, <1>10, <3>1 DEF LiveOrders
  <2> QED
    BY <2>1, <2>2 DEF LevelsMatchOrders
<1>14. LevelsSorted'
  BY <1>7 DEF BookOK, LevelsSorted, LevelsOf, Rank, NextEntry, PrevEntry
<1>15. OrdersInTimeOrder'
  <2> SUFFICES ASSUME NEW m \in LiveLevels
               PROVE  /\ IsSortedRing(OrdersAt(m)', Arrival, NextOrder', PrevOrder',
                                orders_at_price_pool_[m].first_me_order_)
                      /\ \A o, q \in OrdersAt(m)' :
                            o < q => order_pool_'[o].priority_ < order_pool_'[q].priority_
    BY <1>7 DEF OrdersInTimeOrder, Arrival, LiveLevels
  <2>1. \A x \in OrderIds \ {id} :
           /\ NextOrder'[x] = IF x = last THEN id ELSE NextOrder[x]
           /\ PrevOrder'[x] = IF x = first THEN id ELSE PrevOrder[x]
    BY <1>9 DEF NextOrder, PrevOrder
  <2>2. NextOrder'[id] = first /\ PrevOrder'[id] = last
    BY <1>1, <1>8, <1>9 DEF NextOrder, PrevOrder
  <2>3. \A x \in OrdersAt(m) : x \in OrderIds \ {id} /\ x < id
    BY <1>1 DEF OrdersAt, LiveOrders, Addable
  <2>4. CASE m = l
    <3>1. IsSortedRing(OrdersAt(l) \cup {id}, Arrival, NextOrder', PrevOrder', first)
      <4>1. /\ \A x \in OrdersAt(l) : Arrival[x] = x
            /\ Arrival[id] = id /\ id \notin OrdersAt(l)
        BY <1>1, <1>5 DEF Arrival, OrdersAt
      <4>2. Keyed(OrdersAt(l) \cup {id}, Arrival)
        BY <1>1, <1>5, <4>1 DEF Keyed, OrderIds
      <4>3. /\ ~(Arrival[id] < Arrival[first])
            /\ Arrival[PrevOrder[first]] < Arrival[id]
        BY <1>1, <1>5, <1>6, <4>1 DEF OrderIds
      <4>4. /\ NextOrder'[id] = first /\ PrevOrder'[id] = PrevOrder[first]
            /\ NextOrder'[PrevOrder[first]] = id /\ PrevOrder'[first] = id
            /\ \A x \in OrdersAt(l) :
                 /\ x # PrevOrder[first] => NextOrder'[x] = NextOrder[x]
                 /\ x # first => PrevOrder'[x] = PrevOrder[x]
        BY <1>5, <1>6, <2>1, <2>2, <2>3, <2>4
      <4> QED
        BY <1>4, <1>5, <4>1, <4>2, <4>3, <4>4, RingAppend
    <3>2. ASSUME NEW o \in OrdersAt(l) \cup {id}, NEW q \in OrdersAt(l) \cup {id}, o < q
          PROVE  order_pool_'[o].priority_ < order_pool_'[q].priority_
      <4>1. /\ \A x \in OrdersAt(l) : order_pool_[x].priority_ \in Nat /\ x \in OrderIds
            /\ order_pool_[last].priority_ \in Nat
        BY <1>5, LiveOrderType DEF OrdersAt, Order, BookOK
      <4>2. CASE q = id
        <5>1. o \in OrdersAt(l) /\ o <= last
          BY <1>1, <1>5, <3>2, <4>2 DEF OrderIds
        <5>2. order_pool_[o].priority_ <= order_pool_[last].priority_
          BY <1>4, <1>5, <4>1, <5>1 DEF OrderIds
        <5> QED
          BY <1>5, <1>8, <1>9, <2>3, <2>4, <4>1, <4>2, <5>1, <5>2
      <4>3. CASE q # id
        <5>1. o \in OrdersAt(l) /\ q \in OrdersAt(l)
          BY <1>1, <1>5, <3>2, <4>3 DEF OrderIds
        <5> QED
          BY <1>4, <1>9, <2>3, <2>4, <3>2, <5>1
      <4> QED
        BY <4>2, <4>3
    <3>3. orders_at_price_pool_[m].first_me_order_ = first
      BY <2>4 DEF first
    <3>4. OrdersAt(m)' = OrdersAt(l) \cup {id}
      BY <1>10, <2>4 DEF l
    <3> QED
      BY <3>1, <3>2, <3>3, <3>4
  <2>5. CASE m # l
    <3>1. /\ OrdersAt(m)' = OrdersAt(m)
          /\ first \notin OrdersAt(m) /\ last \notin OrdersAt(m)
      BY <1>5, <1>10, <2>5 DEF OrdersAt
    <3>2. \A x \in OrdersAt(m) :
             /\ NextOrder'[x] = NextOrder[x] /\ PrevOrder'[x] = PrevOrder[x]
             /\ order_pool_'[x].priority_ = order_pool_[x].priority_
      BY <1>9, <2>1, <2>3, <3>1
    <3>3. /\ IsSortedRing(OrdersAt(m), Arrival, NextOrder, PrevOrder,
                          orders_at_price_pool_[m].first_me_order_)
          /\ \A o, q \in OrdersAt(m) :
                o < q => order_pool_[o].priority_ < order_pool_[q].priority_
      BY DEF BookOK, OrdersInTimeOrder
    <3>4. IsSortedRing(OrdersAt(m), Arrival, NextOrder', PrevOrder',
                       orders_at_price_pool_[m].first_me_order_)
      BY <3>2, <3>3, RingUnchanged
    <3> QED
      BY <3>1, <3>2, <3>3, <3>4
  <2> QED
    BY <2>4, <2>5
<1>16. NotCrossed'
  <2> SUFFICES ASSUME NEW b \in LiveOrders', NEW s \in LiveOrders',
                      order_pool_'[b].side_ = "BUY", order_pool_'[s].side_ = "SELL"
               PROVE  order_pool_'[b].price_ < order_pool_'[s].price_
    BY DEF NotCrossed
  <2>1. \A x \in LiveOrders' : x = id \/ (x \in LiveOrders /\ x \in OrderIds \ {id})
    BY <1>10 DEF LiveOrders
  <2>2. CASE b # id /\ s # id
    BY <1>9, <2>1, <2>2 DEF BookOK, NotCrossed
  <2>3. CASE b = id
    BY <1>8, <1>9, <2>1, <2>3 DEF Addable, l
  <2>4. CASE s = id
    BY <1>8, <1>9, <2>1, <2>4 DEF Addable, l
  <2> QED
    BY <2>2, <2>3, <2>4
<1> QED
  BY <1>10, <1>11, <1>12, <1>13, <1>14, <1>15, <1>16 DEF BookOK

\* The comparison of prices is that of the ring's keys.
LEMMA BetterIsRank ==
    ASSUME NEW side \in Sides, NEW p \in Prices, NEW q \in Prices
    PROVE  /\ Better(side, p, q) <=> Rank(side)[p] < Rank(side)[q]
           /\ p # q => Rank(side)[p] # Rank(side)[q]
           /\ Rank(side)[p] \in Int
BY MEOrderBookAssumption DEF Better, Rank, Sides

\* A side has a best level exactly if it has levels.
LEMMA BestIsNull ==
    ASSUME BookOK, NEW side \in Sides
    PROVE  /\ best_by_price[side] = Null <=> LevelsOf(side) = {}
           /\ best_by_price[side] # Null =>
                 IsSortedRing(LevelsOf(side), Rank(side), NextEntry, PrevEntry,
                              best_by_price[side])
<1>1. IF LevelsOf(side) = {} THEN best_by_price[side] = Null
      ELSE IsSortedRing(LevelsOf(side), Rank(side), NextEntry, PrevEntry,
                        best_by_price[side])
  BY DEF BookOK, LevelsSorted
<1>2. LevelsOf(side) # {} => best_by_price[side] \in Prices
  BY <1>1 DEF IsSortedRing, LevelsOf
<1> QED
  BY <1>1, <1>2, NullNotUsed

\* The walk of addOrdersAtPrice ends where the new price belongs.
LEMMA TargetFits ==
    ASSUME BookOK, NEW side \in Sides, NEW p \in Prices, p \notin LiveLevels,
           best_by_price[side] # Null
    PROVE  /\ Target(side, p) \in LevelsOf(side)
           /\ IF Rank(side)[p] < Rank(side)[best_by_price[side]]
              THEN Target(side, p) = best_by_price[side]
              ELSE /\ Rank(side)[PrevEntry[Target(side, p)]] < Rank(side)[p]
                   /\ \/ Target(side, p) = best_by_price[side]
                      \/ Rank(side)[p] < Rank(side)[Target(side, p)]
<1> DEFINE S == LevelsOf(side)
           key == Rank(side)
           best == best_by_price[side]
           Found == {l \in LiveLevels :
                       /\ orders_at_price_pool_[l].side_ = side
                       /\ ~Better(side, l, p)
                       /\ Better(side, orders_at_price_pool_[l].prev_entry_, p)}
           t == Target(side, p)
<1>1. /\ IsSortedRing(S, key, NextEntry, PrevEntry, best)
      /\ Keyed(S, key)
      /\ S \subseteq Prices /\ S \subseteq LiveLevels /\ p \notin S
  BY BestIsNull, RankKeyed, LevelsOfLive DEF LevelsOf, BookOK
<1>2. /\ best \in S
      /\ \A x \in S : PrevEntry[x] \in S
  BY <1>1 DEF IsSortedRing
<1>3. \A x \in S : PrevEntry[x] = orders_at_price_pool_[x].prev_entry_
  BY <1>1 DEF PrevEntry
<1>4. \A x \in S : Better(side, x, p) <=> key[x] < key[p]
  BY <1>1, BetterIsRank
<1>5. \A x \in S : key[x] # key[p] /\ key[x] \in Int /\ key[p] \in Int
  BY <1>1, BetterIsRank
<1>6. Found = {x \in S : ~(key[x] < key[p]) /\ key[PrevEntry[x]] < key[p]}
  <2>1. S = {l \in LiveLevels : orders_at_price_pool_[l].side_ = side}
    BY <1>1 DEF LevelsOf, LiveLevels
  <2>2. \A x \in S : Better(side, orders_at_price_pool_[x].prev_entry_, p)
                        <=> key[PrevEntry[x]] < key[p]
    BY <1>2, <1>3, <1>4
  <2>3. Found = {x \in S : /\ ~Better(side, x, p)
                           /\ Better(side, orders_at_price_pool_[x].prev_entry_, p)}
    BY <2>1
  <2> HIDE DEF S, key, Found
  <2> QED
    BY <1>4, <2>2, <2>3
<1>7. t = IF ~Better(side, best, p) \/ Found = {} THEN best
          ELSE CHOOSE x \in Found : TRUE
  BY DEF Target
<1> HIDE DEF S, key, best, Found, t
<1>8. CASE ~(key[best] < key[p])
  <2>1. t = best
    BY <1>2, <1>4, <1>7, <1>8
  <2> QED
    BY <1>2, <1>5, <1>8, <2>1 DEF S, key, best, t
<1>9. CASE key[best] < key[p] /\ Found # {}
  <2>1. t \in Found
    BY <1>2, <1>4, <1>7, <1>9
  <2> QED
    BY <1>2, <1>5, <1>6, <1>9, <2>1 DEF S, key, best, t
<1>10. CASE key[best] < key[p] /\ Found = {}
  <2>1. t = best
    BY <1>7, <1>10
  <2>2. \A x \in S : ~(key[p] < key[x])
    BY <1>1, <1>5, <1>6, <1>10, RingGap
  <2>3. key[PrevEntry[best]] < key[p]
    BY <1>2, <1>5, <2>2
  <2> QED
    BY <1>2, <1>5, <1>10, <2>1, <2>3 DEF S, key, best, t
<1> QED
  BY <1>8, <1>9, <1>10

\* Linking in the first order of a new level, and the level with it.
LEMMA AddWithLevel ==
    ASSUME NoAliasing, BookOK, NEW r, NEW id, Addable(r, id), AddOrder(r, id),
           GetOrdersAtPrice(r.price_) = Null
    PROVE  BookOK' /\ LiveOrders' = LiveOrders \cup {id}
<1> DEFINE l == r.price_
           side == r.side_
           best == best_by_price[side]
           t == Target(side, l)
           p == orders_at_price_pool_[t].prev_entry_
           order == [client_id_ |-> r.client_id_,
                     client_order_id_ |-> r.client_order_id_,
                     side_ |-> side, price_ |-> l, qty_ |-> r.leaves_qty,
                     priority_ |-> 1, prev_order_ |-> id, next_order_ |-> id]
           level(a, b) == [side_ |-> side, first_me_order_ |-> id,
                           prev_entry_ |-> a, next_entry_ |-> b]
<1>1. /\ BookTypeOK
      /\ r.client_id_ \in Clients /\ r.client_order_id_ \in Oids /\ side \in Sides
      /\ l \in Prices /\ r.leaves_qty \in Nat \ {0}
      /\ id \in OrderIds /\ id \notin LiveOrders
      /\ l # Null
  BY NullNotUsed DEF BookOK, Addable, Request, LiveOrders, OrderIds
<1>2. /\ l \notin LiveLevels
      /\ \A x \in LiveOrders : order_pool_[x].price_ # l
  <2>1. l \notin LiveLevels
    BY <1>1 DEF BookOK, IndicesSound
  <2> QED
    BY <2>1, OrderHasLevel
<1>3. /\ order_pool_' = [order_pool_ EXCEPT ![id] = order]
      /\ cid_oid_to_order_' = [cid_oid_to_order_ EXCEPT
                                  ![r.client_id_][r.client_order_id_] = id]
      /\ price_orders_at_price_' = [price_orders_at_price_ EXCEPT ![PriceToIndex(l)] = l]
      /\ best = Null => orders_at_price_pool_' =
                           [orders_at_price_pool_ EXCEPT ![l] = level(l, l)]
      /\ best # Null => orders_at_price_pool_' =
                           [orders_at_price_pool_ EXCEPT ![l] = level(p, t),
                                ![p].next_entry_ = l, ![t].prev_entry_ = l]
      /\ best_by_price' = IF best = Null \/ Better(side, l, best)
                          THEN [best_by_price EXCEPT ![side] = l] ELSE best_by_price
  BY DEF AddOrder, AddOrdersAtPrice, GetNextPriority
<1>4. order \in Order /\ order.side_ = side /\ order.price_ = l
      /\ order.client_id_ = r.client_id_ /\ order.client_order_id_ = r.client_order_id_
      /\ order.prev_order_ = id /\ order.next_order_ = id
  BY <1>1 DEF Order
<1>5. \A a, b \in Prices : /\ level(a, b) \in Level
                           /\ level(a, b).side_ = side
                           /\ level(a, b).first_me_order_ = id
                           /\ level(a, b).prev_entry_ = a
                           /\ level(a, b).next_entry_ = b
  BY <1>1 DEF Level
<1>6. best # Null => /\ t \in LevelsOf(side) /\ p \in LevelsOf(side)
                     /\ PrevEntry[t] = p
                     /\ IsSortedRing(LevelsOf(side), Rank(side), NextEntry, PrevEntry, best)
                     /\ IF Rank(side)[l] < Rank(side)[best] THEN t = best
                        ELSE /\ Rank(side)[PrevEntry[t]] < Rank(side)[l]
                             /\ t = best \/ Rank(side)[l] < Rank(side)[t]
  <2> SUFFICES ASSUME best # Null
               PROVE  /\ t \in LevelsOf(side) /\ p \in LevelsOf(side)
                      /\ PrevEntry[t] = p
                      /\ IsSortedRing(LevelsOf(side), Rank(side), NextEntry, PrevEntry, best)
                      /\ IF Rank(side)[l] < Rank(side)[best] THEN t = best
                         ELSE /\ Rank(side)[PrevEntry[t]] < Rank(side)[l]
                              /\ t = best \/ Rank(side)[l] < Rank(side)[t]
    OBVIOUS
  <2>1. /\ t \in LevelsOf(side)
        /\ IF Rank(side)[l] < Rank(side)[best] THEN t = best
           ELSE /\ Rank(side)[PrevEntry[t]] < Rank(side)[l]
                /\ t = best \/ Rank(side)[l] < Rank(side)[t]
    BY <1>1, <1>2, TargetFits
  <2>2. IsSortedRing(LevelsOf(side), Rank(side), NextEntry, PrevEntry, best)
    BY <1>1, BestIsNull
  <2>3. PrevEntry[t] = p
    BY <2>1 DEF PrevEntry, LevelsOf
  <2>4. PrevEntry[t] \in LevelsOf(side)
    <3> HIDE DEF t, side, best
    <3> QED
      BY <2>1, <2>2 DEF IsSortedRing
  <2> QED
    BY <2>1, <2>2, <2>3, <2>4
<1> HIDE DEF l, side, best, t, p, order, level
<1>7. best # Null => /\ t \in LiveLevels /\ p \in LiveLevels /\ t # l /\ p # l
                     /\ t \in Prices /\ p \in Prices
                     /\ orders_at_price_pool_[t] \in Level
                     /\ orders_at_price_pool_[p] \in Level
                     /\ best \in LevelsOf(side) /\ best \in Prices
  <2>1. best # Null => best \in LevelsOf(side)
    BY <1>6 DEF IsSortedRing
  <2>2. LevelsOf(side) \subseteq LiveLevels /\ LevelsOf(side) \subseteq Prices
    BY <1>1, LevelsOfLive DEF LevelsOf
  <2> QED
    BY <1>1, <1>2, <1>6, <2>1, <2>2, LiveLevelType
<1>8. /\ order_pool_' \in [OrderIds -> Order \cup {FreeOrder}]
      /\ order_pool_'[id] = order
      /\ \A x \in OrderIds \ {id} : order_pool_'[x] = order_pool_[x]
  BY <1>1, <1>3, <1>4 DEF BookTypeOK
<1>9. /\ LiveOrders' = LiveOrders \cup {id}
      /\ OrdersAt(l)' = {id}
      /\ \A m : m # l => OrdersAt(m)' = OrdersAt(m)
  <2>1. LiveOrders' = LiveOrders \cup {id}
    BY <1>1, <1>4, <1>8 DEF LiveOrders, Sides
  <2>2. \A x \in LiveOrders : x \in OrderIds \ {id}
    BY <1>1 DEF LiveOrders
  <2>3. l' = l
    BY DEF l
  <2> QED
    BY <1>2, <1>4, <1>8, <2>1, <2>2, <2>3 DEF OrdersAt
<1>10. /\ orders_at_price_pool_' \in [Prices -> Level \cup {FreeLevel}]
       /\ orders_at_price_pool_'[l].side_ = side
       /\ orders_at_price_pool_'[l].first_me_order_ = id
       /\ orders_at_price_pool_'[l].prev_entry_ = IF best = Null THEN l ELSE p
       /\ orders_at_price_pool_'[l].next_entry_ = IF best = Null THEN l ELSE t
       /\ \A m \in Prices \ {l} :
            /\ orders_at_price_pool_'[m].side_ = orders_at_price_pool_[m].side_
            /\ orders_at_price_pool_'[m].first_me_order_ =
                  orders_at_price_pool_[m].first_me_order_
            /\ orders_at_price_pool_'[m].next_entry_ =
                  IF best # Null /\ m = p THEN l ELSE orders_at_price_pool_[m].next_entry_
            /\ orders_at_price_pool_'[m].prev_entry_ =
                  IF best # Null /\ m = t THEN l ELSE orders_at_price_pool_[m].prev_entry_
  <2>1. CASE best = Null
    BY <1>1, <1>3, <1>5, <2>1 DEF BookTypeOK
  <2>2. CASE best # Null
    <3> DEFINE lv == level(p, t)
    <3>1. /\ lv \in Level /\ lv.side_ = side /\ lv.first_me_order_ = id
          /\ lv.prev_entry_ = p /\ lv.next_entry_ = t
      BY <1>5, <1>7, <2>2
    <3>2. orders_at_price_pool_' = [orders_at_price_pool_ EXCEPT ![l] = lv,
                                        ![p].next_entry_ = l, ![t].prev_entry_ = l]
      BY <1>3, <2>2
    <3> HIDE DEF lv
    <3> QED
      BY <1>1, <1>7, <2>2, <3>1, <3>2 DEF BookTypeOK, Level, FreeLevel
  <2> QED
    BY <2>1, <2>2
<1>11. /\ LiveLevels' = LiveLevels \cup {l}
       /\ \A s \in Sides : LevelsOf(s)' = IF s = side THEN LevelsOf(s) \cup {l}
                                           ELSE LevelsOf(s)
  <2>1. orders_at_price_pool_[l].side_ = "INVALID"
    BY <1>1, <1>2 DEF LiveLevels
  <2> QED
    BY <1>1, <1>10, <2>1 DEF LiveLevels, LevelsOf, Sides
<1>12. /\ best_by_price'[side] = IF best = Null \/ Rank(side)[l] < Rank(side)[best]
                                 THEN l ELSE best
       /\ \A s \in Sides \ {side} : best_by_price'[s] = best_by_price[s]
       /\ best_by_price' \in [Sides -> Prices \cup {Null}]
  <2>1. best # Null => (Better(side, l, best) <=> Rank(side)[l] < Rank(side)[best])
    BY <1>1, <1>7, BetterIsRank
  <2> QED
    BY <1>1, <1>3, <2>1 DEF BookTypeOK, best
<1>13. BookTypeOK'
  <2>1. price_orders_at_price_' \in [LevelIndices -> Prices \cup {Null}]
    BY <1>1, <1>3 DEF BookTypeOK
  <2>2. cid_oid_to_order_' \in [Clients -> [Oids -> OrderIds \cup {Null}]]
    BY <1>1, <1>3 DEF BookTypeOK
  <2> QED
    BY <1>8, <1>10, <1>12, <2>1, <2>2 DEF BookTypeOK
<1>14. IndicesSound'
  <2>0. \A c \in Clients, o \in Oids :
              cid_oid_to_order_'[c][o] =
                  IF c = r.client_id_ /\ o = r.client_order_id_ THEN id
                  ELSE cid_oid_to_order_[c][o]
    BY <1>1, <1>3 DEF BookTypeOK
  <2>1. ASSUME NEW c \in Clients, NEW o \in Oids, cid_oid_to_order_'[c][o] # Null
        PROVE  LET x == cid_oid_to_order_'[c][o] IN
               /\ x \in LiveOrders'
               /\ order_pool_'[x].client_id_ = c
               /\ order_pool_'[x].client_order_id_ = o
    <3>1. CASE c = r.client_id_ /\ o = r.client_order_id_
      BY <1>4, <1>8, <1>9, <2>0, <3>1
    <3>2. CASE ~(c = r.client_id_ /\ o = r.client_order_id_)
      BY <1>1, <1>8, <1>9, <2>0, <2>1, <3>2 DEF BookOK, IndicesSound, LiveOrders
    <3> QED
      BY <3>1, <3>2
  <2>3. PriceToIndex(l) \in LevelIndices
    BY <1>1, PriceToIndexType
  <2>4. ASSUME NEW i \in LevelIndices, price_orders_at_price_'[i] # Null
        PROVE  LET m == price_orders_at_price_'[i] IN
               m \in LiveLevels' /\ PriceToIndex(m) = i
    <3>1. price_orders_at_price_'[i] =
             IF i = PriceToIndex(l) THEN l ELSE price_orders_at_price_[i]
      BY <1>1, <1>3, <2>3 DEF BookTypeOK
    <3> QED
      BY <1>11, <2>4, <3>1 DEF BookOK, IndicesSound
  <2>5. ASSUME NEW m \in LiveLevels' PROVE GetOrdersAtPrice(m)' = m
    <3>1. CASE m = l
      BY <1>1, <1>3, <2>3, <3>1 DEF BookTypeOK, GetOrdersAtPrice
    <3>2. CASE m # l
      <4>1. m \in LiveLevels /\ m \in Prices
        BY <1>11, <3>2 DEF LiveLevels
      <4>2. PriceToIndex(m) # PriceToIndex(l) /\ PriceToIndex(m) \in LevelIndices
        BY <1>1, <3>2, <4>1, PriceToIndexType DEF NoAliasing
      <4>3. price_orders_at_price_[PriceToIndex(m)] = m
        BY <4>1 DEF BookOK, IndicesSound, GetOrdersAtPrice
      <4> QED
        BY <1>1, <1>3, <4>2, <4>3 DEF BookTypeOK, GetOrdersAtPrice
    <3> QED
      BY <3>1, <3>2
  <2> QED
    BY <2>1, <2>4, <2>5 DEF IndicesSound
<1>15. LevelsMatchOrders'
  <2>1. ASSUME NEW x \in LiveOrders'
        PROVE  orders_at_price_pool_'[order_pool_'[x].price_].side_ = order_pool_'[x].side_
    <3>1. CASE x = id
      BY <1>4, <1>8, <1>10, <3>1
    <3>2. CASE x # id
      <4>1. /\ x \in LiveOrders /\ x \in OrderIds \ {id}
            /\ order_pool_[x].price_ \in Prices \ {l}
        BY <1>1, <1>2, <1>9, <3>2, LiveOrderType DEF Order
      <4> QED
        BY <1>8, <1>10, <4>1 DEF BookOK, LevelsMatchOrders
    <3> QED
      BY <3>1, <3>2
  <2>2. ASSUME NEW m \in LiveLevels'
        PROVE  \E x \in LiveOrders' : order_pool_'[x].price_ = m
    <3>1. CASE m = l
      BY <1>4, <1>8, <1>9, <3>1
    <3>2. CASE m # l
      <4>1. PICK x \in LiveOrders : order_pool_[x].price_ = m
        BY <1>11, <3>2 DEF BookOK, LevelsMatchOrders
      <4> QED
        BY <1>1, <1>8, <1>9, <4>1 DEF LiveOrders
    <3> QED
      BY <3>1, <3>2
  <2> QED
    BY <2>1, <2>2 DEF LevelsMatchOrders
<1>16. LevelsSorted'
  <2>0. /\ \A m \in Prices \ {l} :
             /\ NextEntry'[m] = IF best # Null /\ m = p THEN l ELSE NextEntry[m]
             /\ PrevEntry'[m] = IF best # Null /\ m = t THEN l ELSE PrevEntry[m]
        /\ NextEntry'[l] = IF best = Null THEN l ELSE t
        /\ PrevEntry'[l] = IF best = Null THEN l ELSE p
    BY <1>1, <1>10 DEF NextEntry, PrevEntry
  <2>1. IsSortedRing(LevelsOf(side) \cup {l}, Rank(side), NextEntry', PrevEntry',
                     best_by_price'[side])
    <3>1. CASE best = Null
      <4>1. LevelsOf(side) = {} /\ best_by_price'[side] = l
        BY <1>1, <1>12, <3>1, BestIsNull DEF best
      <4>2. Rank(side)[l] \in Int
        BY <1>1, BetterIsRank
      <4>3. NextEntry'[l] = l /\ PrevEntry'[l] = l
        BY <2>0, <3>1
      <4>4. IsSortedRing({l}, Rank(side), NextEntry', PrevEntry', l)
        BY <4>2, <4>3, RingOfOne
      <4>5. LevelsOf(side) \cup {l} = {l}
        BY <4>1
      <4> QED
        BY <4>1, <4>4, <4>5
    <3>2. CASE best # Null
      <4>1. /\ l \notin LevelsOf(side) /\ LevelsOf(side) \subseteq Prices
            /\ Keyed(LevelsOf(side) \cup {l}, Rank(side))
        <5>1. l \notin LevelsOf(side) /\ LevelsOf(side) \subseteq Prices
          BY <1>1, <1>2, LevelsOfLive DEF LevelsOf
        <5> QED
          BY <1>1, <5>1, RankKeyed
      <4>2. best_by_price'[side] = IF Rank(side)[l] < Rank(side)[best] THEN l ELSE best
        BY <1>12, <3>2
      <4>3. /\ NextEntry'[l] = t /\ PrevEntry'[l] = PrevEntry[t]
            /\ NextEntry'[PrevEntry[t]] = l /\ PrevEntry'[t] = l
            /\ \A x \in LevelsOf(side) :
                 /\ x # PrevEntry[t] => NextEntry'[x] = NextEntry[x]
                 /\ x # t => PrevEntry'[x] = PrevEntry[x]
        BY <1>6, <1>7, <2>0, <3>2, <4>1
      <4>4. /\ IsSortedRing(LevelsOf(side), Rank(side), NextEntry, PrevEntry, best)
            /\ t \in LevelsOf(side)
            /\ IF Rank(side)[l] < Rank(side)[best] THEN t = best
               ELSE /\ Rank(side)[PrevEntry[t]] < Rank(side)[l]
                    /\ t = best \/ Rank(side)[l] < Rank(side)[t]
        BY <1>6, <3>2
      <4> QED
        BY ONLY <4>1, <4>2, <4>3, <4>4, RingInsert, SMTT(30)
    <3> QED
      BY <3>1, <3>2
  <2>2. ASSUME NEW s \in Sides, s # side
        PROVE  IF LevelsOf(s)' = {} THEN best_by_price'[s] = Null
               ELSE IsSortedRing(LevelsOf(s)', Rank(s), NextEntry', PrevEntry',
                                 best_by_price'[s])
    <3>1. LevelsOf(s)' = LevelsOf(s) /\ best_by_price'[s] = best_by_price[s]
      BY <1>11, <1>12, <2>2
    <3>2. \A m \in LevelsOf(s) : /\ m \in Prices \ {l}
                                 /\ best # Null => m # p /\ m # t
      BY <1>1, <1>2, <1>6, <2>2, LevelsOfLive DEF LevelsOf
    <3>3. \A m \in LevelsOf(s) : NextEntry'[m] = NextEntry[m] /\ PrevEntry'[m] = PrevEntry[m]
      BY <2>0, <3>2
    <3> QED
      BY <3>1, <3>3, RingUnchanged DEF BookOK, LevelsSorted
  <2>3. ASSUME NEW s \in Sides, s = side
        PROVE  IF LevelsOf(s)' = {} THEN best_by_price'[s] = Null
               ELSE IsSortedRing(LevelsOf(s)', Rank(s), NextEntry', PrevEntry',
                                 best_by_price'[s])
    <3>1. LevelsOf(s)' = LevelsOf(side) \cup {l}
      BY <1>11, <2>3
    <3> QED
      BY <2>1, <2>3, <3>1
  <2> QED
    BY <2>2, <2>3 DEF LevelsSorted, Rank
<1>17. OrdersInTimeOrder'
  <2> SUFFICES ASSUME NEW m \in LiveLevels'
               PROVE  /\ IsSortedRing(OrdersAt(m)', Arrival, NextOrder', PrevOrder',
                                orders_at_price_pool_'[m].first_me_order_)
                      /\ \A o, q \in OrdersAt(m)' :
                            o < q => order_pool_'[o].priority_ < order_pool_'[q].priority_
    BY DEF OrdersInTimeOrder, Arrival
  <2>1. CASE m = l
    <3>1. NextOrder'[id] = id /\ PrevOrder'[id] = id /\ Arrival[id] \in Int
      BY <1>1, <1>4, <1>8 DEF NextOrder, PrevOrder, Arrival, OrderIds
    <3>2. IsSortedRing({id}, Arrival, NextOrder', PrevOrder', id)
      BY <3>1, RingOfOne
    <3>3. OrdersAt(m)' = {id}
      BY <1>9, <2>1 DEF l
    <3>4. orders_at_price_pool_'[m].first_me_order_ = id
      BY <1>10, <2>1
    <3>5. ~(id < id)
      BY <1>1 DEF OrderIds
    <3> QED
      BY <3>2, <3>3, <3>4, <3>5
  <2>2. CASE m # l
    <3>1. m \in LiveLevels /\ m \in Prices
      BY <1>11, <2>2 DEF LiveLevels
    <3>2. /\ IsSortedRing(OrdersAt(m), Arrival, NextOrder, PrevOrder,
                          orders_at_price_pool_[m].first_me_order_)
          /\ \A o, q \in OrdersAt(m) :
                o < q => order_pool_[o].priority_ < order_pool_[q].priority_
      BY <3>1 DEF BookOK, OrdersInTimeOrder
    <3>3. OrdersAt(m)' = OrdersAt(m) /\ \A o \in OrdersAt(m) : o \in OrderIds \ {id}
      BY <1>1, <1>9, <2>2 DEF OrdersAt, LiveOrders
    <3>4. \A o \in OrdersAt(m) :
             /\ NextOrder'[o] = NextOrder[o] /\ PrevOrder'[o] = PrevOrder[o]
             /\ order_pool_'[o].priority_ = order_pool_[o].priority_
      BY <1>8, <3>3 DEF NextOrder, PrevOrder
    <3>5. orders_at_price_pool_'[m].first_me_order_ = orders_at_price_pool_[m].first_me_order_
      BY <1>10, <2>2, <3>1
    <3>6. IsSortedRing(OrdersAt(m), Arrival, NextOrder', PrevOrder',
                       orders_at_price_pool_[m].first_me_order_)
      BY <3>2, <3>4, RingUnchanged
    <3> QED
      BY <3>2, <3>3, <3>4, <3>5, <3>6
  <2> QED
    BY <2>1, <2>2
<1>18. NotCrossed'
  <2> SUFFICES ASSUME NEW b \in LiveOrders', NEW s \in LiveOrders',
                      order_pool_'[b].side_ = "BUY", order_pool_'[s].side_ = "SELL"
               PROVE  order_pool_'[b].price_ < order_pool_'[s].price_
    BY DEF NotCrossed
  <2>1. \A x \in LiveOrders' : x = id \/ (x \in LiveOrders /\ x \in OrderIds \ {id})
    BY <1>1, <1>9 DEF LiveOrders
  <2>2. CASE b # id /\ s # id
    BY <1>8, <2>1, <2>2 DEF BookOK, NotCrossed
  <2>3. \A x \in LiveOrders : order_pool_[x].side_ # side =>
           IF side = "BUY" THEN l < order_pool_[x].price_
           ELSE order_pool_[x].price_ < l
    BY DEF Addable, l, side
  <2>4. CASE b = id
    BY <1>4, <1>8, <2>1, <2>3, <2>4
  <2>5. CASE s = id
    BY <1>4, <1>8, <2>1, <2>3, <2>5
  <2> QED
    BY <2>2, <2>4, <2>5
<1> QED
  BY <1>9, <1>13, <1>14, <1>15, <1>16, <1>17, <1>18 DEF BookOK

\* addOrder puts an order into the book and leaves its structure intact.
LEMMA AddOrderCorrect ==
    ASSUME NoAliasing, BookOK, NEW r, NEW id, Addable(r, id), AddOrder(r, id)
    PROVE  BookOK' /\ LiveOrders' = LiveOrders \cup {id}
BY AddToLevel, AddWithLevel

\* A fill that leaves something of a resting order.
LEMMA ReduceOrderCorrect ==
    ASSUME BookOK, NEW id \in LiveOrders, NEW q \in Nat \ {0},
           order_pool_' = [order_pool_ EXCEPT ![id].qty_ = q],
           UNCHANGED <<orders_at_price_pool_, price_orders_at_price_, best_by_price,
                       cid_oid_to_order_>>
    PROVE  BookOK' /\ LiveOrders' = LiveOrders
<1>1. BookTypeOK /\ id \in OrderIds /\ order_pool_[id] \in Order
  BY LiveOrderType DEF BookOK
<1>2. /\ order_pool_' \in [OrderIds -> Order \cup {FreeOrder}]
      /\ \A x \in OrderIds :
           /\ order_pool_'[x].side_ = order_pool_[x].side_
           /\ order_pool_'[x].price_ = order_pool_[x].price_
           /\ order_pool_'[x].client_id_ = order_pool_[x].client_id_
           /\ order_pool_'[x].client_order_id_ = order_pool_[x].client_order_id_
           /\ order_pool_'[x].priority_ = order_pool_[x].priority_
           /\ order_pool_'[x].next_order_ = order_pool_[x].next_order_
           /\ order_pool_'[x].prev_order_ = order_pool_[x].prev_order_
  BY <1>1 DEF BookTypeOK, Order, FreeOrder
<1>3. /\ LiveOrders' = LiveOrders /\ LiveOrders \subseteq OrderIds
      /\ NextOrder' = NextOrder /\ PrevOrder' = PrevOrder
      /\ LiveLevels' = LiveLevels
      /\ NextEntry' = NextEntry /\ PrevEntry' = PrevEntry
  BY <1>2 DEF LiveOrders, NextOrder, PrevOrder, LiveLevels, NextEntry, PrevEntry
<1>4. /\ \A m : OrdersAt(m)' = OrdersAt(m) /\ OrdersAt(m) \subseteq OrderIds
      /\ \A s : LevelsOf(s)' = LevelsOf(s)
  BY <1>2, <1>3 DEF OrdersAt, LevelsOf
<1>5. BookTypeOK'
  BY <1>1, <1>2 DEF BookTypeOK
<1>6. IndicesSound'
  BY <1>2, <1>3 DEF BookOK, IndicesSound, GetOrdersAtPrice
<1>7. LevelsMatchOrders'
  BY <1>2, <1>3 DEF BookOK, LevelsMatchOrders
<1>8. LevelsSorted'
  BY <1>3, <1>4 DEF BookOK, LevelsSorted, Rank
<1>9. OrdersInTimeOrder'
  <2> SUFFICES ASSUME NEW m \in LiveLevels
               PROVE  /\ IsSortedRing(OrdersAt(m), Arrival, NextOrder, PrevOrder,
                                orders_at_price_pool_[m].first_me_order_)
                      /\ \A o, q2 \in OrdersAt(m) :
                            o < q2 => order_pool_'[o].priority_ < order_pool_'[q2].priority_
    BY <1>3, <1>4 DEF OrdersInTimeOrder, Arrival
  <2>1. \A o \in OrdersAt(m) : order_pool_'[o].priority_ = order_pool_[o].priority_
    BY <1>2, <1>4
  <2> QED
    BY <2>1 DEF BookOK, OrdersInTimeOrder
<1>10. NotCrossed'
  BY <1>2, <1>3 DEF BookOK, NotCrossed
<1> QED
  BY <1>3, <1>5, <1>6, <1>7, <1>8, <1>9, <1>10 DEF BookOK

\* A step that leaves the book's variables alone leaves the book in order.
LEMMA BookUnchanged ==
    ASSUME BookOK, UNCHANGED book
    PROVE  BookOK' /\ LiveOrders' = LiveOrders
<1>1. /\ LiveOrders' = LiveOrders /\ LiveLevels' = LiveLevels
      /\ NextOrder' = NextOrder /\ PrevOrder' = PrevOrder
      /\ NextEntry' = NextEntry /\ PrevEntry' = PrevEntry
      /\ \A p : GetOrdersAtPrice(p)' = GetOrdersAtPrice(p)
  BY DEF book, LiveOrders, LiveLevels, NextOrder, PrevOrder, NextEntry, PrevEntry,
         GetOrdersAtPrice
<1>2. /\ \A m : OrdersAt(m)' = OrdersAt(m)
      /\ \A s : LevelsOf(s)' = LevelsOf(s)
  BY <1>1 DEF book, OrdersAt, LevelsOf
<1>3. BookTypeOK' /\ IndicesSound' /\ LevelsMatchOrders' /\ NotCrossed'
  BY <1>1 DEF book, BookOK, BookTypeOK, IndicesSound, LevelsMatchOrders, NotCrossed
<1>4. LevelsSorted'
  BY <1>1, <1>2 DEF book, BookOK, LevelsSorted, Rank
<1>5. OrdersInTimeOrder'
  BY <1>1, <1>2 DEF book, BookOK, OrdersInTimeOrder, Arrival
<1> QED
  BY <1>1, <1>3, <1>4, <1>5 DEF BookOK

\* The first order of a side's best level is live, on that side, and no order of
\* the side has a better price.
LEMMA BestIsFirst ==
    ASSUME BookOK, NEW side \in Sides, best_by_price[side] # Null
    PROVE  LET best == best_by_price[side]
               id == orders_at_price_pool_[best].first_me_order_
           IN  /\ id \in LiveOrders
               /\ order_pool_[id].side_ = side
               /\ order_pool_[id].price_ = best
               /\ best \in Prices
               /\ \A x \in LiveOrders : order_pool_[x].side_ = side =>
                     Rank(side)[best] <= Rank(side)[order_pool_[x].price_]
<1> DEFINE best == best_by_price[side]
           id == orders_at_price_pool_[best].first_me_order_
<1>1. IsSortedRing(LevelsOf(side), Rank(side), NextEntry, PrevEntry, best)
  BY BestIsNull
<1>2. best \in LevelsOf(side) /\ best \in LiveLevels /\ best \in Prices
  BY <1>1, LevelsOfLive DEF IsSortedRing, BookOK, LevelsOf
<1>3. IsSortedRing(OrdersAt(best), Arrival, NextOrder, PrevOrder, id)
  BY <1>2 DEF BookOK, OrdersInTimeOrder
<1>4. id \in OrdersAt(best)
  BY <1>3 DEF IsSortedRing
<1>5. id \in LiveOrders /\ order_pool_[id].price_ = best
  BY <1>4 DEF OrdersAt
<1>6. order_pool_[id].side_ = side
  BY <1>2, <1>5 DEF BookOK, LevelsMatchOrders, LevelsOf
<1>7. ASSUME NEW x \in LiveOrders, order_pool_[x].side_ = side
      PROVE  Rank(side)[best] <= Rank(side)[order_pool_[x].price_]
  <2>1. order_pool_[x].price_ \in LevelsOf(side)
    BY <1>7, OrderHasLevel DEF LevelsOf, LiveLevels
  <2> QED
    BY <1>1, <2>1 DEF IsSortedRing
<1> QED
  BY <1>2, <1>5, <1>6, <1>7

\* What a client has asked for, what is left of it, and its place in the line.
SameTerms(x) ==
    /\ order_pool_'[x].client_id_ = order_pool_[x].client_id_
    /\ order_pool_'[x].client_order_id_ = order_pool_[x].client_order_id_
    /\ order_pool_'[x].side_ = order_pool_[x].side_
    /\ order_pool_'[x].price_ = order_pool_[x].price_
    /\ order_pool_'[x].qty_ = order_pool_[x].qty_
    /\ order_pool_'[x].priority_ = order_pool_[x].priority_

\* removeOrder touches nothing of the other orders but their links.
LEMMA RemoveOrderKeeps ==
    ASSUME BookTypeOK, NEW id, RemoveOrder(id)
    PROVE  \A x \in OrderIds \ {id} : SameTerms(x)
<1>1. \/ order_pool_' = [order_pool_ EXCEPT ![id] = FreeOrder]
      \/ \E p, n : order_pool_' = [order_pool_ EXCEPT ![p].next_order_ = n,
                                      ![n].prev_order_ = p, ![id] = FreeOrder]
  BY DEF RemoveOrder
<1>2. \A x \in OrderIds : order_pool_[x] \in Order \cup {FreeOrder}
  BY DEF BookTypeOK
<1>3. CASE order_pool_' = [order_pool_ EXCEPT ![id] = FreeOrder]
  BY ONLY <1>2, <1>3, BookTypeOK DEF BookTypeOK, SameTerms
<1>4. ASSUME NEW p, NEW n,
             order_pool_' = [order_pool_ EXCEPT ![p].next_order_ = n,
                                ![n].prev_order_ = p, ![id] = FreeOrder]
      PROVE  \A x \in OrderIds \ {id} : SameTerms(x)
  BY ONLY <1>2, <1>4, BookTypeOK DEF BookTypeOK, SameTerms, Order, FreeOrder
<1> QED
  BY <1>1, <1>3, <1>4

\* Neither does addOrder; the new order has the terms of the request.
LEMMA AddOrderKeeps ==
    ASSUME BookTypeOK, NEW r, NEW id \in OrderIds, AddOrder(r, id)
    PROVE  /\ \A x \in OrderIds \ {id} : SameTerms(x)
           /\ order_pool_'[id].client_id_ = r.client_id_
           /\ order_pool_'[id].client_order_id_ = r.client_order_id_
           /\ order_pool_'[id].side_ = r.side_
           /\ order_pool_'[id].price_ = r.price_
           /\ order_pool_'[id].qty_ = r.leaves_qty
           /\ order_pool_'[id].priority_ = GetNextPriority(r.price_)
<1>1. \E p, n : \E o :
         /\ o = [client_id_ |-> r.client_id_, client_order_id_ |-> r.client_order_id_,
                 side_ |-> r.side_, price_ |-> r.price_, qty_ |-> r.leaves_qty,
                 priority_ |-> GetNextPriority(r.price_), prev_order_ |-> p, next_order_ |-> n]
         /\ \/ order_pool_' = [order_pool_ EXCEPT ![id] = o]
            \/ order_pool_' = [order_pool_ EXCEPT ![id] = o, ![p].next_order_ = id,
                                                  ![n].prev_order_ = id]
  BY Zenon DEF AddOrder
<1>2. \A x \in OrderIds : order_pool_[x] \in Order \cup {FreeOrder}
  BY DEF BookTypeOK
<1> QED
  BY <1>1, <1>2 DEF BookTypeOK, SameTerms, Order, FreeOrder

\* Ids are given out in order, and the request being matched has the last one.
RequestOK ==
    /\ \A x \in LiveOrders : x < next_market_order_id_
    /\ Matching =>
          /\ incoming.market_order_id_ < next_market_order_id_
          /\ \A x \in LiveOrders : x < incoming.market_order_id_

\* The inductive invariant, whether or not clients reuse their ids.
IInv == TypeOK /\ BookOK /\ RequestOK

\* If they do not, an order in the book is found under its name, and the request
\* being matched is the only one of its name.
NamesOK ==
    /\ AllMapped
    /\ Matching => cid_oid_to_order_[incoming.client_id_][incoming.client_order_id_] = Null

\* What does not cross the best price of the other side crosses none of its orders.
LEMMA RestIsAddable ==
    ASSUME IInv, Matching, incoming.leaves_qty > 0, ~CanMatch
    PROVE  Addable(incoming, incoming.market_order_id_)
<1>1. incoming \in Request
  BY DEF IInv, TypeOK, Matching
<1> DEFINE side == incoming.side_
           other == Opposite(side)
           best == best_by_price[other]
<1>2. /\ side \in Sides /\ other \in Sides /\ incoming.price_ \in Prices
      /\ \A s \in Sides : s # side => s = other
  BY <1>1 DEF Request, Sides, Opposite
<1>3. ASSUME NEW x \in LiveOrders, order_pool_[x].side_ # side
      PROVE  IF side = "BUY" THEN incoming.price_ < order_pool_[x].price_
             ELSE order_pool_[x].price_ < incoming.price_
  <2>1. order_pool_[x].side_ = other /\ order_pool_[x].price_ \in Prices
    BY <1>2, <1>3, LiveOrderType DEF IInv, BookOK, Order
  <2>2. best # Null
    <3>1. order_pool_[x].price_ \in LevelsOf(other)
      BY <2>1, OrderHasLevel DEF IInv, LevelsOf, LiveLevels
    <3> QED
      BY <1>2, <3>1, BestIsNull DEF IInv
  <2>3. /\ order_pool_[BestOpposite].price_ = best /\ best \in Prices
        /\ Rank(other)[best] <= Rank(other)[order_pool_[x].price_]
    BY <1>2, <2>1, <2>2, BestIsFirst DEF IInv, BestOpposite
  <2>4. Better(other, incoming.price_, best)
    BY <2>2, <2>3 DEF CanMatch
  <2>5. /\ other = "BUY" => incoming.price_ > best /\ 0 - best <= 0 - order_pool_[x].price_
        /\ other = "SELL" => incoming.price_ < best /\ best <= order_pool_[x].price_
    BY <2>1, <2>3, <2>4 DEF Better, Rank
  <2>6. incoming.price_ \in Nat /\ best \in Nat /\ order_pool_[x].price_ \in Nat
    BY <1>2, <2>1, <2>3, PricesAreNumbers
  <2> QED
    BY <1>2, <2>5, <2>6 DEF Opposite, Sides
<1> QED
  BY <1>1, <1>3 DEF IInv, RequestOK, Addable, Request

\* The invariant holds of the empty book.
LEMMA InitIInv == Init => IInv
<1> SUFFICES ASSUME Init PROVE IInv
  OBVIOUS
<1>1. LiveOrders = {} /\ LiveLevels = {} /\ \A s \in Sides : LevelsOf(s) = {}
  BY DEF Init, LiveOrders, LiveLevels, LevelsOf, FreeOrder, FreeLevel, Sides
<1>2. BookTypeOK
  BY DEF Init, BookTypeOK
<1>3. IndicesSound
  BY <1>1 DEF Init, IndicesSound, LevelIndices
<1>4. LevelsMatchOrders /\ LevelsSorted /\ OrdersInTimeOrder /\ NotCrossed
  BY <1>1 DEF Init, LevelsMatchOrders, LevelsSorted, OrdersInTimeOrder, NotCrossed
<1>5. next_market_order_id_ \in 1 .. MaxOrderId + 1 /\ incoming = NoRequest /\ exited = FALSE
  BY MEOrderBookAssumption DEF Init
<1>6. TypeOK
  BY <1>2, <1>5 DEF TypeOK, BookTypeOK
<1>7. RequestOK
  BY <1>1, <1>5 DEF RequestOK, Matching
<1> QED
  BY <1>2, <1>3, <1>4, <1>6, <1>7 DEF IInv, BookOK

\* Every request, every iteration of the matching loop and every end of add()
\* preserves it.
LEMMA NextIInv ==
    ASSUME NoAliasing, IInv, [NextReusing]_vars
    PROVE  IInv'
<1>0. /\ BookOK /\ BookTypeOK
      /\ next_market_order_id_ \in 1 .. MaxOrderId + 1 /\ MaxOrderId \in Nat
      /\ incoming \in Request \cup {NoRequest}
      /\ exited \in BOOLEAN
      /\ \A x \in LiveOrders : x \in OrderIds /\ x < next_market_order_id_
  BY MEOrderBookAssumption DEF IInv, BookOK, TypeOK, RequestOK, LiveOrders
\* What is left to show once the book is known to be in order.
<1>1. ASSUME BookOK', next_market_order_id_' \in 1 .. MaxOrderId + 1,
             incoming' \in Request \cup {NoRequest}, exited' \in BOOLEAN, RequestOK'
      PROVE  IInv'
  BY <1>1 DEF IInv, TypeOK, BookOK, BookTypeOK
<1>2. ASSUME NEW c \in Clients, NEW o \in Oids, NEW side \in Sides,
             NEW p \in Prices, NEW q \in Qtys, Accept(c, o, side, p, q)
      PROVE  IInv'
  <2>1. BookOK' /\ LiveOrders' = LiveOrders
    BY <1>0, <1>2, BookUnchanged DEF Accept
  <2>2. /\ incoming' \in Request
        /\ incoming'.market_order_id_ = next_market_order_id_
    BY <1>0, <1>2, MEOrderBookAssumption DEF Accept, Request, OrderIds
  <2>3. /\ next_market_order_id_' = next_market_order_id_ + 1
        /\ next_market_order_id_' \in 1 .. MaxOrderId + 1
    BY <1>0, <1>2 DEF Accept
  <2>4. exited' = exited
    BY <1>2 DEF Accept
  <2>5. RequestOK'
    BY <1>0, <2>1, <2>2, <2>3, <2>4 DEF RequestOK, OrderIds
  <2> QED
    BY <1>0, <1>1, <2>1, <2>2, <2>3, <2>4, <2>5
<1>3. ASSUME Match
      PROVE  IInv'
  <2> DEFINE id == BestOpposite
             order == order_pool_[id]
             fill_qty == FillQty(incoming.leaves_qty, order.qty_)
             left == order.qty_ - fill_qty
  <2>1. incoming \in Request /\ Matching /\ Opposite(incoming.side_) \in Sides
        /\ best_by_price[Opposite(incoming.side_)] # Null
    BY <1>0, <1>3 DEF Match, Matching, CanMatch, Request, Opposite, Sides
  <2>2. id \in LiveOrders /\ order \in Order
    BY <1>0, <2>1, BestIsFirst, LiveOrderType DEF BestOpposite
  <2>3. fill_qty \in Nat /\ fill_qty <= incoming.leaves_qty /\ left \in Nat
    BY <2>1, <2>2 DEF FillQty, Request, Order
  <2>4. /\ incoming' = [incoming EXCEPT !.leaves_qty = @ - fill_qty]
        /\ IF left = 0 THEN RemoveOrder(id)
           ELSE /\ order_pool_' = [order_pool_ EXCEPT ![id].qty_ = left]
                /\ UNCHANGED <<orders_at_price_pool_, price_orders_at_price_,
                               best_by_price, cid_oid_to_order_>>
        /\ UNCHANGED <<next_market_order_id_, exited>>
    BY <1>3 DEF Match
  <2> HIDE DEF id, order, fill_qty, left
  <2>5. BookOK' /\ LiveOrders' \subseteq LiveOrders
    <3>1. CASE left = 0
      BY <1>0, <2>2, <2>4, <3>1, RemoveOrderCorrect
    <3>2. CASE left # 0
      BY <1>0, <2>2, <2>3, <2>4, <3>2, ReduceOrderCorrect
    <3> QED
      BY <3>1, <3>2
  <2>6. /\ incoming' \in Request
        /\ incoming'.market_order_id_ = incoming.market_order_id_
        /\ incoming'.client_id_ = incoming.client_id_
        /\ incoming'.client_order_id_ = incoming.client_order_id_
        /\ incoming.client_id_ \in Clients /\ incoming.client_order_id_ \in Oids
    BY <2>1, <2>3, <2>4 DEF Request
  <2>8. RequestOK'
    BY <1>0, <2>1, <2>4, <2>5, <2>6 DEF IInv, RequestOK
  <2> QED
    BY <1>0, <1>1, <2>4, <2>5, <2>6, <2>8
<1>4. ASSUME Rest
      PROVE  IInv'
  <2>1. Addable(incoming, incoming.market_order_id_)
    BY <1>4, RestIsAddable DEF Rest
  <2>2. BookOK' /\ LiveOrders' = LiveOrders \cup {incoming.market_order_id_}
    BY <1>0, <1>4, <2>1, AddOrderCorrect DEF Rest
  <2>3. incoming' = NoRequest /\ UNCHANGED <<next_market_order_id_, exited>>
    BY <1>4 DEF Rest
  <2>4. RequestOK'
    BY <1>0, <1>4, <2>2, <2>3 DEF IInv, RequestOK, Matching, Rest
  <2> QED
    BY <1>0, <1>1, <2>2, <2>3, <2>4
<1>5. ASSUME UNCHANGED <<book, next_market_order_id_>>, exited' \in BOOLEAN,
             incoming' = incoming \/ incoming' = NoRequest
      PROVE  IInv'
  <2>1. BookOK' /\ LiveOrders' = LiveOrders
    BY <1>0, <1>5, BookUnchanged
  <2>2. RequestOK'
    BY <1>5, <2>1 DEF IInv, RequestOK, Matching, book
  <2> QED
    BY <1>0, <1>1, <1>5, <2>1, <2>2
<1>6. ASSUME NEW c \in Clients, NEW o \in Oids, CancelLive(c, o)
      PROVE  IInv'
  <2> DEFINE id == cid_oid_to_order_[c][o]
  <2>1. id \in LiveOrders /\ RemoveOrder(id) /\ ~Matching
        /\ UNCHANGED <<next_market_order_id_, incoming, exited>>
    BY <1>0, <1>6 DEF CancelLive, BookOK, IndicesSound
  <2>2. BookOK' /\ LiveOrders' \subseteq LiveOrders
    BY <1>0, <2>1, RemoveOrderCorrect
  <2>3. RequestOK'
    BY <1>0, <2>1, <2>2 DEF RequestOK, Matching
  <2> QED
    BY <1>0, <1>1, <2>1, <2>2, <2>3
<1>7. CASE RunOutOfSpace
  BY <1>5, <1>7 DEF RunOutOfSpace
<1>8. CASE Done
  BY <1>0, <1>5, <1>8 DEF Done
<1>9. ASSUME NEW c \in Clients, NEW o \in Oids, CancelUnknown(c, o)
      PROVE  IInv'
  BY <1>0, <1>5, <1>9 DEF CancelUnknown
<1>10. CASE UNCHANGED vars
  BY <1>0, <1>5, <1>10 DEF vars
<1> QED
  BY <1>2, <1>3, <1>4, <1>6, <1>7, <1>8, <1>9, <1>10 DEF NextReusing, Proceed, Cancel

\* Clients that do not reuse ids are a special case.
LEMMA NextIsReusing == Next => NextReusing
BY DEF Next, NextReusing, Add

\* The first and the last lemma on the map: removeOrder clears the entry of its
\* order and no other, addOrder sets that of the new order.
LEMMA RemoveOrderUnmaps ==
    ASSUME BookOK, NEW id \in LiveOrders, RemoveOrder(id)
    PROVE  \A c \in Clients, o \in Oids :
              cid_oid_to_order_'[c][o] =
                  IF c = order_pool_[id].client_id_ /\ o = order_pool_[id].client_order_id_
                  THEN Null ELSE cid_oid_to_order_[c][o]
<1>1. order_pool_[id] \in Order
      /\ cid_oid_to_order_ \in [Clients -> [Oids -> OrderIds \cup {Null}]]
  BY LiveOrderType DEF BookOK, BookTypeOK
<1>2. order_pool_[id].client_id_ \in Clients /\ order_pool_[id].client_order_id_ \in Oids
  BY <1>1 DEF Order
<1>3. cid_oid_to_order_' = [cid_oid_to_order_ EXCEPT
         ![order_pool_[id].client_id_][order_pool_[id].client_order_id_] = Null]
  BY DEF RemoveOrder, Unmap
<1> QED
  BY ONLY <1>1, <1>2, <1>3

LEMMA RemoveOrderNames ==
    ASSUME NoAliasing, BookOK, AllMapped, NEW id \in LiveOrders, RemoveOrder(id)
    PROVE  AllMapped'
<1> SUFFICES ASSUME NEW x \in LiveOrders'
             PROVE  cid_oid_to_order_'[order_pool_'[x].client_id_]
                                      [order_pool_'[x].client_order_id_] = x
  BY DEF AllMapped
<1>1. x \in LiveOrders /\ x # id /\ x \in OrderIds /\ order_pool_[x] \in Order
  BY RemoveOrderCorrect, LiveOrderType DEF BookOK
<1>2. /\ order_pool_'[x].client_id_ = order_pool_[x].client_id_
      /\ order_pool_'[x].client_order_id_ = order_pool_[x].client_order_id_
  BY <1>1, RemoveOrderKeeps DEF BookOK, SameTerms
<1>3. /\ cid_oid_to_order_[order_pool_[x].client_id_][order_pool_[x].client_order_id_] = x
      /\ cid_oid_to_order_[order_pool_[id].client_id_][order_pool_[id].client_order_id_] = id
  BY <1>1 DEF AllMapped
<1> QED
  BY <1>1, <1>2, <1>3, RemoveOrderUnmaps DEF Order

LEMMA AddOrderNames ==
    ASSUME NoAliasing, BookOK, AllMapped, NEW r, NEW id, Addable(r, id), AddOrder(r, id),
           cid_oid_to_order_[r.client_id_][r.client_order_id_] = Null
    PROVE  AllMapped'
<1> SUFFICES ASSUME NEW x \in LiveOrders'
             PROVE  cid_oid_to_order_'[order_pool_'[x].client_id_]
                                      [order_pool_'[x].client_order_id_] = x
  BY DEF AllMapped
<1>1. /\ id \in OrderIds /\ r.client_id_ \in Clients /\ r.client_order_id_ \in Oids
      /\ cid_oid_to_order_ \in [Clients -> [Oids -> OrderIds \cup {Null}]]
      /\ cid_oid_to_order_' = [cid_oid_to_order_ EXCEPT
                                  ![r.client_id_][r.client_order_id_] = id]
  <2>1. r \in Request /\ id \in OrderIds /\ BookTypeOK
    BY DEF BookOK, Addable
  <2>2. cid_oid_to_order_' = [cid_oid_to_order_ EXCEPT
                                 ![r.client_id_][r.client_order_id_] = id]
    BY Zenon DEF AddOrder
  <2> QED
    BY ONLY <2>1, <2>2 DEF BookTypeOK, Request
<1>2. \A c \in Clients, o \in Oids :
         cid_oid_to_order_'[c][o] =
             IF c = r.client_id_ /\ o = r.client_order_id_ THEN id ELSE cid_oid_to_order_[c][o]
  BY ONLY <1>1
<1>3. CASE x = id
  BY <1>1, <1>2, <1>3, AddOrderKeeps DEF BookOK
<1>4. CASE x # id
  <2>1. x \in LiveOrders /\ x \in OrderIds /\ order_pool_[x] \in Order
    BY <1>4, AddOrderCorrect, LiveOrderType DEF BookOK
  <2>2. /\ order_pool_'[x].client_id_ = order_pool_[x].client_id_
        /\ order_pool_'[x].client_order_id_ = order_pool_[x].client_order_id_
    BY <1>1, <1>4, <2>1, AddOrderKeeps DEF BookOK, SameTerms
  <2>3. cid_oid_to_order_[order_pool_[x].client_id_][order_pool_[x].client_order_id_] = x
        /\ x # Null
    BY <2>1, NullNotUsed DEF AllMapped
  <2> QED
    BY <1>2, <2>1, <2>2, <2>3 DEF Order
<1> QED
  BY <1>3, <1>4

\* Without reuse every step keeps the names.
LEMMA NextNames ==
    ASSUME NoAliasing, IInv, NamesOK, [Next]_vars PROVE NamesOK'
<1>1. ASSUME NEW c \in Clients, NEW o \in Oids, NEW side \in Sides,
             NEW p \in Prices, NEW q \in Qtys, Add(c, o, side, p, q)
      PROVE  NamesOK'
  <2>1. /\ UNCHANGED book /\ cid_oid_to_order_[c][o] = Null
        /\ incoming'.client_id_ = c /\ incoming'.client_order_id_ = o
    BY <1>1 DEF Add, Accept
  <2> QED
    BY <2>1 DEF NamesOK, AllMapped, LiveOrders, book
<1>2. ASSUME UNCHANGED book, incoming' = incoming \/ incoming' = NoRequest PROVE NamesOK'
  BY <1>2 DEF NamesOK, AllMapped, LiveOrders, book, Matching
<1>3. ASSUME Match PROVE NamesOK'
  <2>1. PICK id, left : /\ id = BestOpposite
                        /\ left = order_pool_[id].qty_ -
                                    FillQty(incoming.leaves_qty, order_pool_[id].qty_)
    OBVIOUS
  <2>2. /\ Matching /\ incoming \in Request /\ Opposite(incoming.side_) \in Sides
        /\ best_by_price[Opposite(incoming.side_)] # Null /\ BookOK
    BY <1>3 DEF IInv, TypeOK, Match, Matching, CanMatch, Request, Opposite, Sides
  <2>3. id \in LiveOrders
    BY <2>1, <2>2, BestIsFirst DEF BestOpposite
  <2>4. /\ incoming'.client_id_ = incoming.client_id_
        /\ incoming'.client_order_id_ = incoming.client_order_id_
        /\ IF left = 0 THEN RemoveOrder(id)
           ELSE /\ order_pool_' = [order_pool_ EXCEPT ![id].qty_ = left]
                /\ UNCHANGED cid_oid_to_order_
    BY <1>3, <2>1, <2>2 DEF Match, Request
  <2>5. CASE left = 0
    <3>1. AllMapped'
      BY <2>2, <2>3, <2>4, <2>5, RemoveOrderNames DEF NamesOK
    <3>2. incoming.client_id_ \in Clients /\ incoming.client_order_id_ \in Oids
      BY <2>2 DEF Request
    <3> QED
      BY <2>2, <2>3, <2>4, <2>5, <3>1, <3>2, RemoveOrderUnmaps DEF NamesOK
  <2>6. CASE left # 0
    <3>1. \A x \in OrderIds : /\ order_pool_'[x].side_ = order_pool_[x].side_
                              /\ order_pool_'[x].client_id_ = order_pool_[x].client_id_
                              /\ order_pool_'[x].client_order_id_ = order_pool_[x].client_order_id_
      BY <2>2, <2>4, <2>6 DEF BookOK, BookTypeOK, Order, FreeOrder
    <3>2. AllMapped'
      BY <2>4, <2>6, <3>1 DEF NamesOK, AllMapped, LiveOrders
    <3> QED
      BY <2>2, <2>4, <2>6, <3>2 DEF NamesOK
  <2> QED
    BY <2>5, <2>6
<1>4. ASSUME Rest PROVE NamesOK'
  <2>1. /\ Addable(incoming, incoming.market_order_id_) /\ BookOK /\ ~Matching'
        /\ AddOrder(incoming, incoming.market_order_id_)
        /\ cid_oid_to_order_[incoming.client_id_][incoming.client_order_id_] = Null
    BY <1>4, RestIsAddable DEF Rest, IInv, NamesOK, Matching
  <2> QED
    BY <2>1, AddOrderNames DEF NamesOK
<1>5. ASSUME NEW c \in Clients, NEW o \in Oids, CancelLive(c, o) PROVE NamesOK'
  <2>1. PICK id : id = cid_oid_to_order_[c][o]
    OBVIOUS
  <2>2. id \in LiveOrders /\ RemoveOrder(id) /\ BookOK /\ ~Matching'
    BY <1>5, <2>1 DEF CancelLive, IInv, BookOK, IndicesSound, Matching
  <2> QED
    BY <2>2, RemoveOrderNames DEF NamesOK
<1>6. CASE Proceed
  BY <1>2, <1>3, <1>4, <1>6 DEF Proceed, RunOutOfSpace, Done
<1>7. CASE Cancel
  BY <1>2, <1>5, <1>7 DEF Cancel, CancelUnknown
<1>8. CASE UNCHANGED vars
  BY <1>2, <1>8 DEF vars
<1> QED
  BY <1>1, <1>6, <1>7, <1>8 DEF Next

\* The book is in order at all times.
LEMMA IInvReusing == ASSUME NoAliasing PROVE SpecReusing => []IInv
<1>1. Init => IInv
  BY InitIInv
<1>2. IInv /\ [NextReusing]_vars => IInv'
  BY NextIInv
<1> QED
  BY <1>1, <1>2, PTL DEF SpecReusing

LEMMA IInvAlways == ASSUME NoAliasing PROVE Spec => [](IInv /\ NamesOK)
<1>1. Init => IInv /\ NamesOK
  <2>1. Init => NamesOK
    BY DEF Init, NamesOK, AllMapped, LiveOrders, FreeOrder, Matching
  <2> QED
    BY <2>1, InitIInv
<1>2. IInv /\ NamesOK /\ [Next]_vars => (IInv /\ NamesOK)'
  BY NextIInv, NextNames, NextIsReusing
<1> QED
  BY <1>1, <1>2, PTL DEF Spec

\* A client that uses an id again while its order rests does no harm but to
\* itself: cancel() and the rest of the book go on as they should.
THEOREM ReuseIsSound == ASSUME NoAliasing PROVE SpecReusing => []SoundWithReuse
<1>1. IInv => SoundWithReuse
  BY DEF IInv, BookOK, IndicesSound, SoundWithReuse
<1> QED
  BY <1>1, IInvReusing, PTL

\* Whatever is asked of the book, each pool object in use is complete: no order
\* in it is empty and no pointer null.
THEOREM TypeCorrect == ASSUME NoAliasing PROVE Spec => []TypeOK
<1>1. IInv => TypeOK
  BY DEF IInv
<1> QED
  BY <1>1, IInvAlways, PTL

\* The maps from client order ids and prices find every live object and nothing
\* else: removeOrder and removeOrdersAtPrice leave no pointer dangling.
THEOREM IndicesAlwaysExact == ASSUME NoAliasing PROVE Spec => []IndicesExact
<1>1. IInv /\ NamesOK => IndicesExact
  BY DEF IInv, BookOK, NamesOK, AllMapped, IndicesSound, IndicesExact
<1> QED
  BY <1>1, IInvAlways, PTL

\* A price has a level exactly while orders rest there, all on one side.
THEOREM LevelsAlwaysMatch == ASSUME NoAliasing PROVE Spec => []LevelsMatchOrders
<1>1. IInv => LevelsMatchOrders
  BY DEF IInv, BookOK
<1> QED
  BY <1>1, IInvAlways, PTL

\* addOrdersAtPrice and removeOrdersAtPrice keep the levels of each side in one
\* ring in price order: its walk finds the place of any new price.
THEOREM LevelsAlwaysSorted == ASSUME NoAliasing PROVE Spec => []LevelsSorted
<1>1. IInv => LevelsSorted
  BY DEF IInv, BookOK
<1> QED
  BY <1>1, IInvAlways, PTL

\* addOrder and removeOrder keep the orders of a level in one ring in time order.
THEOREM OrdersAlwaysInTimeOrder == ASSUME NoAliasing PROVE Spec => []OrdersInTimeOrder
<1>1. IInv => OrdersInTimeOrder
  BY DEF IInv, BookOK
<1> QED
  BY <1>1, IInvAlways, PTL

\* checkForMatch leaves no bid at or above an ask.
THEOREM NeverCrossed == ASSUME NoAliasing PROVE Spec => []NotCrossed
<1>1. IInv => NotCrossed
  BY DEF IInv, BookOK
<1> QED
  BY <1>1, IInvAlways, PTL
----------------------------------------------------------------------------
(* The book implements PriceTimeBook, step by step.                        *)

\* A resting order, and the request, as PriceTimeBook sees them.
Line(id) ==
    [id |-> id, client |-> order_pool_[id].client_id_,
     oid |-> order_pool_[id].client_order_id_, side |-> order_pool_[id].side_,
     price |-> order_pool_[id].price_, qty |-> order_pool_[id].qty_]
Taker ==
    [id |-> incoming.market_order_id_, client |-> incoming.client_id_,
     oid |-> incoming.client_order_id_, side |-> IF Matching THEN incoming.side_ ELSE "NONE",
     price |-> incoming.price_, qty |-> incoming.leaves_qty]

LEMMA RestingIsLines ==
    /\ resting = {Line(id) : id \in LiveOrders}
    /\ resting' = {Line(id)' : id \in LiveOrders'}
    /\ \A x, y : Line(x) = Line(y) => x = y
BY DEF resting, Line

\* The first order of the best level is the first in line: its price is the best,
\* and of those at that price it came first.
LEMMA BestPrecedes ==
    ASSUME BookOK, NEW side \in Sides, best_by_price[side] # Null,
           NEW id, id = orders_at_price_pool_[best_by_price[side]].first_me_order_,
           NEW x \in LiveOrders, x # id, order_pool_[x].side_ = side
    PROVE  Priority!Precedes(Line(id), Line(x))
<1> DEFINE best == best_by_price[side]
<1>1. /\ id \in LiveOrders /\ order_pool_[id].side_ = side
      /\ order_pool_[id].price_ = best /\ best \in Prices
      /\ Rank(side)[best] <= Rank(side)[order_pool_[x].price_]
  BY BestIsFirst
<1>2. /\ order_pool_[x].price_ \in Prices /\ x \in OrderIds /\ id \in OrderIds
  BY <1>1, LiveOrderType DEF BookOK, Order
<1>3. best \in Nat /\ order_pool_[x].price_ \in Nat /\ x \in Nat /\ id \in Nat
  BY <1>1, <1>2, PricesAreNumbers DEF OrderIds
<1> HIDE DEF best
<1>4. CASE order_pool_[x].price_ = best
  <2>1. x \in OrdersAt(best) /\ best \in LiveLevels
    BY <1>1, <1>4, OrderHasLevel DEF OrdersAt
  <2>2. IsSortedRing(OrdersAt(best), Arrival, NextOrder, PrevOrder, id)
    BY <2>1 DEF BookOK, OrdersInTimeOrder, best
  <2>3. Arrival[id] <= Arrival[x]
    BY <2>1, <2>2 DEF IsSortedRing
  <2>4. id < x
    BY <1>2, <1>3, <2>3 DEF Arrival
  <2> QED
    BY <1>1, <1>4, <2>4 DEF Priority!Precedes, Line
<1>5. CASE order_pool_[x].price_ # best
  <2>1. Better(side, best, order_pool_[x].price_)
    BY <1>1, <1>2, <1>3, <1>5 DEF Better, Rank, Sides
  <2> QED
    BY <1>1, <2>1 DEF Priority!Precedes, Priority!Better, Better, Line
<1> QED
  BY <1>4, <1>5

\* Between requests PriceTimeBook has none either, and while there is one it has it.
LEMMA TakerIs ==
    ASSUME IInv
    PROVE  /\ ~Matching => Taker = Priority!NoOrder
           /\ Matching => /\ incoming \in Request
                          /\ Taker.side = incoming.side_ /\ Taker # Priority!NoOrder
<1>1. CASE ~Matching
  <2>1. incoming = NoRequest
    BY <1>1 DEF Matching
  <2>2. /\ incoming.client_id_ = 0 /\ incoming.client_order_id_ = 0 /\ incoming.price_ = 0
        /\ incoming.leaves_qty = 0 /\ incoming.market_order_id_ = 0
    BY <2>1 DEF NoRequest, Null
  <2> QED
    BY ONLY <1>1, <2>2, Zenon DEF Taker, Priority!NoOrder, Priority!Order
<1>2. CASE Matching
  <2>1. incoming \in Request
    BY <1>2 DEF IInv, TypeOK, Matching
  <2>2. Taker.side = incoming.side_ /\ Priority!NoOrder.side = "NONE"
    BY <1>2 DEF Taker, Priority!NoOrder, Priority!Order
  <2> QED
    BY <1>2, <2>1, <2>2 DEF Request, Sides
<1> QED
  BY <1>1, <1>2

\* add() is accepted.
LEMMA AddImplements ==
    ASSUME NoAliasing, IInv, NEW c \in Clients, NEW o \in Oids, NEW side \in Sides,
           NEW p \in Prices, NEW q \in Qtys, Accept(c, o, side, p, q)
    PROVE  Priority!Next
<1>1. ~Matching /\ UNCHANGED book
      /\ incoming' = [client_id_ |-> c, client_order_id_ |-> o, side_ |-> side,
                      price_ |-> p, leaves_qty |-> q,
                      market_order_id_ |-> next_market_order_id_]
      /\ next_market_order_id_' = next_market_order_id_ + 1
  BY DEF Accept
<1>2. Taker = Priority!NoOrder
  BY <1>1, TakerIs
<1>3. Matching'
  BY <1>1 DEF Matching, NoRequest, Sides
<1>4. Taker' = Priority!Order(next_market_order_id_, c, o, side, p, q)
  BY <1>1, <1>3 DEF Taker, Priority!Order
<1>5. UNCHANGED resting
  BY <1>1 DEF book, resting, LiveOrders
<1>6. Priority!Accept(c, o, side, p, q)
  BY <1>1, <1>2, <1>4, <1>5 DEF Priority!Accept, Taker
<1> QED
  BY <1>6 DEF Priority!Next, Sides

\* The terms of an order that has not been touched read the same after the step.
LEMMA SameLine == ASSUME NEW x, SameTerms(x) PROVE Line(x)' = Line(x)
BY DEF SameTerms, Line

\* An iteration of checkForMatch's loop: the trade is with the first in line.
LEMMA MatchImplements ==
    ASSUME NoAliasing, IInv, Match PROVE Priority!Next
<1> DEFINE other == Opposite(incoming.side_)
<1>0. PICK id : id = BestOpposite
  OBVIOUS
<1>a. PICK order, fill_qty :
        order = order_pool_[id] /\ fill_qty = FillQty(incoming.leaves_qty, order.qty_)
  OBVIOUS
<1>b. PICK left : left = order.qty_ - fill_qty
  OBVIOUS
<1>1. /\ BookOK /\ BookTypeOK /\ Matching /\ CanMatch
      /\ incoming \in Request /\ Taker.side = incoming.side_
      /\ other \in Sides /\ best_by_price[other] # Null
  BY TakerIs DEF IInv, BookOK, Match, Matching, CanMatch, Request, Opposite, Sides
<1>2. /\ id \in LiveOrders /\ id \in OrderIds /\ order \in Order /\ order.side_ = other
      /\ id = orders_at_price_pool_[best_by_price[other]].first_me_order_
  BY <1>0, <1>a, <1>1, BestIsFirst, LiveOrderType DEF BestOpposite
<1>3. fill_qty \in Nat /\ left \in Nat
      /\ fill_qty = (IF Taker.qty < Line(id).qty THEN Taker.qty ELSE Line(id).qty)
  <2>1. order.qty_ \in Nat /\ incoming.leaves_qty \in Nat
    BY <1>1, <1>2 DEF Request, Order
  <2>2. Taker.qty = incoming.leaves_qty /\ Line(id).qty = order.qty_
    BY <1>a DEF Taker, Line
  <2> QED
    BY ONLY <1>a, <1>b, <2>1, <2>2 DEF FillQty
<1>4. /\ incoming' = [incoming EXCEPT !.leaves_qty = @ - fill_qty]
      /\ IF left = 0 THEN RemoveOrder(id)
         ELSE /\ order_pool_' = [order_pool_ EXCEPT ![id].qty_ = left]
              /\ UNCHANGED <<orders_at_price_pool_, price_orders_at_price_,
                             best_by_price, cid_oid_to_order_>>
      /\ UNCHANGED next_market_order_id_
  BY <1>0, <1>a, <1>b DEF Match
<1>5. Priority!FirstInLine(Taker, Line(id))
  <2>1. Line(id) \in resting
    BY <1>2, RestingIsLines
  <2>2. Line(id).side = Priority!Opposite(Taker.side)
    BY <1>a, <1>1, <1>2 DEF Line, Priority!Opposite, Opposite
  <2>3. ASSUME NEW s \in resting, s.side = Line(id).side, s # Line(id)
        PROVE  Priority!Precedes(Line(id), s)
    <3>1. PICK x \in LiveOrders : s = Line(x)
      BY <2>3, RestingIsLines
    <3>2. x # id /\ order_pool_[x].side_ = other
      BY <1>a, <1>2, <2>3, <3>1 DEF Line
    <3> QED
      BY <1>1, <1>2, <3>1, <3>2, BestPrecedes
  <2> QED
    BY <2>1, <2>2, <2>3 DEF Priority!FirstInLine
<1>6. Priority!Crosses(Taker, Line(id))
  BY <1>0, <1>a, <1>1, <1>2 DEF Priority!Crosses, Priority!Opposite, Priority!Better, CanMatch, Better,
                    Opposite, Taker, Line
<1>7. Taker' = [Taker EXCEPT !.qty = @ - fill_qty]
  <2>1. Matching'
    BY <1>1, <1>4 DEF Matching, NoRequest, Request, Sides
  <2> QED
    BY <1>1, <1>4, <2>1 DEF Taker, Request
<1>8. resting' = (resting \ {Line(id)}) \cup
                   (IF fill_qty = Line(id).qty THEN {}
                    ELSE {[Line(id) EXCEPT !.qty = @ - fill_qty]})
  <2>0. /\ \A x \in LiveOrders : x # id => Line(x) # Line(id)
        /\ LiveOrders \subseteq OrderIds
        /\ left = 0 <=> fill_qty = Line(id).qty
    <3>1. order_pool_[id].qty_ \in Nat /\ Line(id).qty = order_pool_[id].qty_
      BY <1>a, <1>2 DEF Line, Order
    <3>2. left = 0 <=> fill_qty = Line(id).qty
      BY <1>a, <1>b, <1>3, <3>1
    <3> QED
      BY <3>2, RestingIsLines DEF LiveOrders
  <2>1. CASE left = 0
    <3>1. LiveOrders' = LiveOrders \ {id} /\ \A x \in OrderIds \ {id} : SameTerms(x)
      BY <1>1, <1>2, <1>4, <2>1, RemoveOrderCorrect, RemoveOrderKeeps
    <3>2. \A x \in LiveOrders' : Line(x)' = Line(x)
      BY <2>0, <3>1, SameLine
    <3>3. resting' = {Line(x) : x \in LiveOrders \ {id}}
      BY <3>1, <3>2, RestingIsLines
    <3> QED
      BY <2>0, <2>1, <3>3, RestingIsLines
  <2>2. CASE left # 0
    <3>1. LiveOrders' = LiveOrders
      BY <1>1, <1>2, <1>3, <1>4, <2>2, ReduceOrderCorrect
    <3>2. /\ \A x \in OrderIds \ {id} : SameTerms(x)
          /\ Line(id)' = [Line(id) EXCEPT !.qty = left]
      <4>1. order_pool_' = [order_pool_ EXCEPT ![id].qty_ = left]
        BY <1>4, <2>2
      <4>2. order_pool_ \in [OrderIds -> Order \cup {FreeOrder}]
            /\ id \in OrderIds /\ order_pool_[id] \in Order
        BY <1>a, <1>1, <1>2 DEF BookTypeOK
      <4>3. /\ \A x \in OrderIds \ {id} : order_pool_'[x] = order_pool_[x]
            /\ order_pool_'[id] = [order_pool_[id] EXCEPT !.qty_ = left]
        BY ONLY <4>1, <4>2
      <4>4. \A x \in OrderIds \ {id} : SameTerms(x)
        BY ONLY <4>3 DEF SameTerms
      <4>5. Line(id)' = [Line(id) EXCEPT !.qty = left]
        BY ONLY <4>2, <4>3 DEF Line, Order
      <4> QED
        BY <4>4, <4>5
    <3>3. \A x \in LiveOrders \ {id} : Line(x)' = Line(x)
      BY <2>0, <3>2, SameLine
    <3>4. [Line(id) EXCEPT !.qty = left] = [Line(id) EXCEPT !.qty = @ - fill_qty]
      BY <1>a, <1>b DEF Line
    <3>5. resting' = {Line(x) : x \in LiveOrders \ {id}} \cup {[Line(id) EXCEPT !.qty = left]}
      <4>1. resting' = {Line(x)' : x \in LiveOrders}
        BY <3>1, RestingIsLines
      <4> QED
        BY <1>2, <3>2, <3>3, <4>1
    <3>6. {Line(x) : x \in LiveOrders \ {id}} = resting \ {Line(id)}
      BY <2>0, RestingIsLines
    <3> QED
      BY <2>0, <2>2, <3>4, <3>5, <3>6
  <2> QED
    BY <2>1, <2>2
<1>9. Taker.qty > 0
  BY <1>1 DEF CanMatch, Taker
<1>10. Priority!Trade(Line(id))
  <2> DEFINE r == Line(id)
  <2> HIDE DEF r
  <2> QED
    BY <1>3, <1>4, <1>5, <1>6, <1>7, <1>8, <1>9 DEF Priority!Trade, Taker
<1> QED
  BY <1>5, <1>10 DEF Priority!Next, Priority!FirstInLine

\* What is left of the order rests once it crosses no other.
LEMMA RestImplements ==
    ASSUME NoAliasing, IInv, Rest PROVE Priority!Next
<1>0. PICK id : id = incoming.market_order_id_
  OBVIOUS
<1>1. /\ BookOK /\ BookTypeOK /\ Matching /\ incoming \in Request
      /\ Taker.side = incoming.side_ /\ Taker # Priority!NoOrder
      /\ incoming.leaves_qty > 0
      /\ Addable(incoming, id) /\ AddOrder(incoming, id)
      /\ incoming' = NoRequest /\ UNCHANGED next_market_order_id_
  BY <1>0, TakerIs, RestIsAddable DEF IInv, BookOK, Rest
<1>2. /\ LiveOrders' = LiveOrders \cup {id} /\ id \in OrderIds /\ id \notin LiveOrders
      /\ LiveOrders \subseteq OrderIds
  BY <1>1, AddOrderCorrect DEF Addable, LiveOrders, OrderIds
<1>3. Line(id)' = Taker
  <2>1. /\ order_pool_'[id].client_id_ = incoming.client_id_
        /\ order_pool_'[id].client_order_id_ = incoming.client_order_id_
        /\ order_pool_'[id].side_ = incoming.side_
        /\ order_pool_'[id].price_ = incoming.price_
        /\ order_pool_'[id].qty_ = incoming.leaves_qty
    BY <1>1, <1>2, AddOrderKeeps
  <2> QED
    BY <1>0, <1>1, <2>1 DEF Line, Taker
<1>4. \A x \in LiveOrders : Line(x)' = Line(x)
  BY <1>1, <1>2, AddOrderKeeps, SameLine
<1>5. resting' = resting \cup {Taker}
  <2>1. resting' = {Line(x)' : x \in LiveOrders \cup {id}}
    BY <1>2, RestingIsLines
  <2> QED
    BY <1>3, <1>4, <2>1, RestingIsLines
<1>6. ASSUME NEW r \in resting PROVE ~Priority!Crosses(Taker, r)
  <2>1. PICK x \in LiveOrders : r = Line(x)
    BY RestingIsLines
  <2>2. order_pool_[x].price_ \in Nat /\ incoming.price_ \in Nat
        /\ order_pool_[x].side_ \in Sides /\ incoming.side_ \in Sides
    BY <1>1, LiveOrderType, PricesAreNumbers DEF Order, Request
  <2>3. order_pool_[x].side_ # incoming.side_ =>
           IF incoming.side_ = "BUY" THEN incoming.price_ < order_pool_[x].price_
           ELSE order_pool_[x].price_ < incoming.price_
    BY <1>1 DEF Addable
  <2>4. r.side = order_pool_[x].side_ /\ r.price = order_pool_[x].price_
        /\ Taker.price = incoming.price_
    BY <2>1 DEF Line, Taker
  <2> QED
    BY <1>1, <2>2, <2>3, <2>4 DEF Priority!Crosses, Priority!Opposite, Priority!Better, Sides
<1>7. Taker' = Priority!NoOrder
  BY <1>1, Zenon DEF Matching, NoRequest, Taker, Priority!NoOrder, Priority!Order, Null
<1>8. Priority!Rest
  BY <1>1, <1>5, <1>6, <1>7 DEF Priority!Rest, Taker
<1> QED
  BY <1>8 DEF Priority!Next

\* cancel() takes out the order it names.
LEMMA CancelImplements ==
    ASSUME NoAliasing, IInv, NEW c \in Clients, NEW o \in Oids, CancelLive(c, o)
    PROVE  Priority!Next
<1>0. PICK id : id = cid_oid_to_order_[c][o]
  OBVIOUS
<1>1. /\ BookOK /\ BookTypeOK /\ ~Matching /\ id \in LiveOrders /\ RemoveOrder(id)
      /\ UNCHANGED <<incoming, next_market_order_id_>>
  BY <1>0 DEF IInv, BookOK, CancelLive, IndicesSound
<1>2. LiveOrders' = LiveOrders \ {id} /\ \A x \in OrderIds \ {id} : SameTerms(x)
  BY <1>1, RemoveOrderCorrect, RemoveOrderKeeps
<1>3. \A x \in LiveOrders \ {id} : Line(x)' = Line(x)
  BY <1>2, SameLine DEF LiveOrders
<1>4. resting' = resting \ {Line(id)}
  <2>1. resting' = {Line(x) : x \in LiveOrders \ {id}}
    BY <1>2, <1>3, RestingIsLines
  <2> QED
    BY <2>1, RestingIsLines
<1>5. Taker = Priority!NoOrder /\ Taker' = Taker
  BY <1>1, TakerIs DEF Taker, Matching
<1>6. Line(id) \in resting
  BY <1>1, RestingIsLines
<1>7. Priority!Cancel(Line(id))
  BY <1>1, <1>4, <1>5, <1>6 DEF Priority!Cancel, Taker
<1> QED
  BY <1>6, <1>7 DEF Priority!Next

\* Every step of the book is a step of PriceTimeBook or changes nothing of it.
LEMMA StepImplements ==
    ASSUME NoAliasing, IInv, [NextReusing]_vars
    PROVE  [Priority!Next]_(Priority!vars)
<1>1. ASSUME UNCHANGED <<book, incoming, next_market_order_id_>>
      PROVE  UNCHANGED Priority!vars
  <2>1. UNCHANGED resting
    BY <1>1 DEF book, resting, LiveOrders
  <2>2. UNCHANGED Taker
    BY <1>1 DEF Taker, Matching
  <2> QED
    BY <1>1, <2>1, <2>2 DEF Priority!vars, Taker
<1>2. ASSUME Done PROVE Priority!Next
  <2>1. /\ Taker # Priority!NoOrder /\ Taker.qty = 0 /\ UNCHANGED <<book, next_market_order_id_>>
        /\ incoming' = NoRequest
    BY <1>2, TakerIs DEF Done, Taker
  <2>2. Taker' = Priority!NoOrder
    BY <2>1, Zenon DEF Matching, NoRequest, Taker, Priority!NoOrder, Priority!Order, Null
  <2>3. UNCHANGED resting
    BY <2>1 DEF book, resting, LiveOrders
  <2>4. Priority!Done
    BY <2>1, <2>2, <2>3 DEF Priority!Done, Taker
  <2> QED
    BY <2>4 DEF Priority!Next
<1>3. CASE NextReusing
  <2>1. CASE Proceed
    BY <1>1, <1>2, <2>1, MatchImplements, RestImplements DEF Proceed, RunOutOfSpace
  <2>2. CASE Cancel
    BY <1>1, <2>2, CancelImplements DEF Cancel, CancelUnknown
  <2> QED
    BY <1>3, <2>1, <2>2, AddImplements DEF NextReusing
<1>4. CASE UNCHANGED vars
  BY <1>1, <1>4 DEF vars
<1> QED
  BY <1>3, <1>4

\* It begins with nothing in it.
LEMMA InitImplements == Init => Priority!Init
<1> SUFFICES ASSUME Init PROVE Priority!Init
  OBVIOUS
<1>1. LiveOrders = {}
  BY DEF Init, LiveOrders, FreeOrder
<1>2. resting = {}
  BY <1>1, RestingIsLines
<1>3. Taker = Priority!NoOrder
  BY InitIInv, TakerIs DEF Init, Matching
<1> QED
  BY <1>2, <1>3 DEF Init, Priority!Init, Taker

\* checkForMatch, addOrder, removeOrder and their lists, maps and pools together
\* are a price-time priority book.
THEOREM PriceTimePriority == ASSUME NoAliasing PROVE Spec => ImplementsPriceTimeBook
<1>1. IInv /\ [Next]_vars => [Priority!Next]_(Priority!vars)
  BY StepImplements, NextIsReusing
<1> QED
  BY <1>1, InitImplements, IInvAlways, PTL DEF Spec, ImplementsPriceTimeBook, Priority!Spec

\* And they are one even if clients use the ids of live orders again: an order
\* that cancel() can no longer name is still filled in its turn.
THEOREM PriceTimePriorityWithReuse ==
    ASSUME NoAliasing PROVE SpecReusing => ImplementsPriceTimeBook
<1>1. IInv /\ [NextReusing]_vars => [Priority!Next]_(Priority!vars)
  BY StepImplements
<1> QED
  BY <1>1, InitImplements, IInvReusing, PTL
     DEF SpecReusing, ImplementsPriceTimeBook, Priority!Spec
----------------------------------------------------------------------------
(* To each client the book is a ClientExchange, step by step.              *)

Open(c) == {View(id) : id \in OwnOrders(c)} \cup OwnRequest(c)

\* What a client hears of no, one or two responses.
Own(c, r) == IF r.client_id_ = c THEN <<Heard(r)>> ELSE <<>>
LEMMA HeardOfFew ==
    ASSUME NEW c
    PROVE  /\ HeardBy(c, <<>>) = <<>>
           /\ \A a : HeardBy(c, <<a>>) = Own(c, a)
           /\ \A a, b : HeardBy(c, <<a, b>>) = Own(c, a) \o Own(c, b)
<1> SUFFICES ASSUME NEW a, NEW b
             PROVE  /\ HeardBy(c, <<>>) = <<>>
                    /\ HeardBy(c, <<a>>) = Own(c, a)
                    /\ HeardBy(c, <<a, b>>) = Own(c, a) \o Own(c, b)
  OBVIOUS
<1> DEFINE Step(f, rs, i) == IF i = 0 THEN <<>>
                             ELSE IF rs[i].client_id_ # c THEN f[i - 1]
                             ELSE Append(f[i - 1], Heard(rs[i]))
           Is(f, rs) == f = [i \in 0 .. Len(rs) |-> Step(f, rs, i)]
           first == IF a.client_id_ # c THEN <<>> ELSE Append(<<>>, Heard(a))
           second == IF b.client_id_ # c THEN first ELSE Append(first, Heard(b))
<1>1. ASSUME NEW rs, NEW g, Is(g, rs) PROVE \E f : Is(f, rs) /\ HeardBy(c, rs) = f[Len(rs)]
  <2>1. PICK f : f = CHOOSE h : Is(h, rs)
    OBVIOUS
  <2>2. HeardBy(c, rs) = f[Len(rs)]
    BY <2>1 DEF HeardBy
  <2>3. Is(f, rs)
    <3> HIDE DEF Is
    <3> QED
      BY <1>1, <2>1
  <2> QED
    BY <2>2, <2>3
<1>2. HeardBy(c, <<>>) = <<>>
  <2>1. PICK rs : rs = <<>>
    OBVIOUS
  <2>2. Is([i \in 0 .. 0 |-> <<>>], rs) /\ Len(rs) = 0
    BY <2>1
  <2>3. PICK f : Is(f, rs) /\ HeardBy(c, rs) = f[0]
    <3> HIDE DEF Is
    <3> QED
      BY <1>1, <2>2
  <2>4. f[0] = <<>>
    BY <2>2, <2>3
  <2> QED
    BY <2>1, <2>3, <2>4
<1>3. HeardBy(c, <<a>>) = first
  <2>1. PICK rs : rs = <<a>>
    OBVIOUS
  <2>2. Len(rs) = 1 /\ rs[1] = a
    BY <2>1
  <2>0. Is([i \in 0 .. 1 |-> IF i = 0 THEN <<>> ELSE first], rs)
    BY <2>2
  <2>3. PICK f : Is(f, rs) /\ HeardBy(c, rs) = f[1]
    <3> HIDE DEF Is
    <3> QED
      BY <1>1, <2>0, <2>2
  <2>4. f[0] = <<>>
    BY <2>2, <2>3
  <2>5. f[1] = IF rs[1].client_id_ # c THEN <<>> ELSE Append(<<>>, Heard(rs[1]))
    BY <2>2, <2>3, <2>4
  <2> QED
    BY <2>1, <2>2, <2>3, <2>4, <2>5
<1>4. HeardBy(c, <<a, b>>) = second
  <2>1. PICK rs : rs = <<a, b>>
    OBVIOUS
  <2>2. Len(rs) = 2 /\ rs[1] = a /\ rs[2] = b
    BY <2>1
  <2>3. PICK x, y : x = first /\ y = second
    OBVIOUS
  <2>4. /\ x = IF rs[1].client_id_ # c THEN <<>> ELSE Append(<<>>, Heard(rs[1]))
        /\ y = IF rs[2].client_id_ # c THEN x ELSE Append(x, Heard(rs[2]))
    BY <2>2, <2>3
  <2>5. Is([i \in 0 .. 2 |-> IF i = 0 THEN <<>> ELSE IF i = 1 THEN x ELSE y], rs)
    BY <2>2, <2>4
  <2>6. PICK f : Is(f, rs) /\ HeardBy(c, rs) = f[2]
    <3> HIDE DEF Is
    <3> QED
      BY <1>1, <2>2, <2>5
  <2>7. f[0] = <<>> /\ f[1] = x /\ f[2] = y
    <3>1. f[0] = <<>>
      BY <2>2, <2>6
    <3>2. f[1] = x
      BY <2>2, <2>4, <2>6, <3>1
    <3> QED
      BY <2>2, <2>4, <2>6, <3>1, <3>2
  <2> QED
    BY <2>1, <2>3, <2>6, <2>7
<1>5. /\ Append(<<>>, Heard(a)) = <<Heard(a)>>
      /\ \A p, q : \A s \in {<<>>, <<p>>} : s \o <<>> = s /\ s \o <<q>> = Append(s, q)
  OBVIOUS
<1>6. first \in {<<>>, <<Heard(a)>>} /\ first = Own(c, a)
  BY <1>5 DEF Own
<1> HIDE DEF first
<1>7. second = Own(c, a) \o Own(c, b)
  BY <1>5, <1>6 DEF Own
<1> QED
  BY <1>2, <1>3, <1>4, <1>6, <1>7

\* A client of whose orders nothing changes and that is told nothing.
LEMMA NothingForClient ==
    ASSUME NEW c, Open(c)' = Open(c), HeardBy(c, responses)' = <<>>
    PROVE  Client(c)!Next
BY DEF Open, Client!Next, Client!Become, Client!Nothing

\* A client's orders have names of their own.
LEMMA NamesDiffer ==
    ASSUME IInv, NamesOK, NEW c
    PROVE  /\ \A x, y \in OwnOrders(c) : View(x).order_id_ = View(y).order_id_ => x = y
           /\ Matching /\ incoming.client_id_ = c =>
                 \A x \in OwnOrders(c) : View(x).order_id_ # incoming.client_order_id_
           /\ \A o \in Oids : c \in Clients /\ cid_oid_to_order_[c][o] = Null =>
                 \A x \in OwnOrders(c) : View(x).order_id_ # o
<1>1. \A x \in OwnOrders(c) :
         /\ x \in OrderIds /\ x # Null
         /\ cid_oid_to_order_[c][View(x).order_id_] = x
  BY NullNotUsed DEF NamesOK, AllMapped, OwnOrders, View, LiveOrders
<1> QED
  BY <1>1 DEF NamesOK

\* What the view of an order depends on.
LEMMA SameView ==
    ASSUME NEW x, SameTerms(x)
    PROVE  View(x)' = View(x) /\ order_pool_'[x].client_id_ = order_pool_[x].client_id_
BY DEF SameTerms, View

\* The orders of a client after a step, from those it had and those that stay.
LEMMA OwnOrdersAre ==
    ASSUME NEW c
    PROVE  OwnOrders(c)' = {x \in LiveOrders' : order_pool_'[x].client_id_ = c}
BY DEF OwnOrders

\* add() is accepted.
LEMMA AddForClient ==
    ASSUME IInv, NamesOK, NEW d \in Clients, NEW o \in Oids, NEW side \in Sides,
           NEW p \in Prices, NEW q \in Qtys, Add(d, o, side, p, q), NEW c \in Clients
    PROVE  Client(c)!Next
<1> DEFINE new == [side_ |-> side, order_id_ |-> o, price_ |-> p, qty_ |-> q]
           told == Response("ACCEPTED", d, o, next_market_order_id_, side, p, 0, q)
<1>1. /\ incoming = NoRequest /\ UNCHANGED book /\ cid_oid_to_order_[d][o] = Null
      /\ incoming' = [client_id_ |-> d, client_order_id_ |-> o, side_ |-> side,
                      price_ |-> p, leaves_qty |-> q,
                      market_order_id_ |-> next_market_order_id_]
      /\ responses' = <<told>>
  BY DEF Add, Accept, Matching
<1>2. OwnRequest(c) = {}
  BY <1>1 DEF OwnRequest, NoRequest
<1>3. {View(id) : id \in OwnOrders(c)}' = {View(id) : id \in OwnOrders(c)}
  BY <1>1 DEF book, View, OwnOrders, LiveOrders
<1>4. OwnRequest(c)' = IF d = c /\ q > 0 THEN {new} ELSE {}
  BY <1>1 DEF OwnRequest
<1>5. HeardBy(c, responses)' = IF d = c THEN <<Heard(told)>> ELSE <<>>
  <2>1. told.client_id_ = d
    BY DEF Response
  <2> HIDE DEF told
  <2>2. HeardBy(c, responses)' = Own(c, told)
    BY ONLY <1>1, HeardOfFew
  <2> QED
    BY ONLY <2>1, <2>2 DEF Own
<1>6. CASE d # c
  BY <1>2, <1>3, <1>4, <1>5, <1>6, NothingForClient DEF Open
<1>7. CASE d = c
  <2>1. \A v \in Open(c) : v.order_id_ # o
    BY <1>1, <1>2, <1>7, NamesDiffer DEF Open
  <2>2. Open(c)' = Open(c) \cup (IF q = 0 THEN {} ELSE {new})
    BY <1>2, <1>3, <1>4, <1>7, MEOrderBookAssumption DEF Open
  <2>3. Heard(told) = [type_ |-> "ACCEPTED", side_ |-> side, order_id_ |-> o,
                       price_ |-> p, exec_qty_ |-> 0, leaves_qty_ |-> q]
    BY DEF Heard, Response
  <2>4. new \in Client(c)!Orders /\ new.order_id_ = o
    BY DEF Client!Orders, Sides
  <2>5. Client(c)!Accept(new)
    BY <1>5, <1>7, <2>1, <2>2, <2>3
       DEF Client!Accept, Client!Named, Client!Become, Client!Accepted, Client!Response, Open
  <2> QED
    BY <2>4, <2>5 DEF Client!Next
<1> QED
  BY <1>6, <1>7
\* What is left of an order when a trade has taken some of it, and what is said.
LEMMA FillHeard ==
    ASSUME NEW c, NEW client, NEW o, NEW id, NEW side, NEW price, NEW qty, NEW left
    PROVE  LET r == Response("FILLED", client, o, id, side, price, qty, left)
           IN  /\ r.client_id_ = client
               /\ Heard(r) = [type_ |-> "FILLED", side_ |-> side, order_id_ |-> o,
                              price_ |-> price, exec_qty_ |-> qty, leaves_qty_ |-> left]
BY DEF Response, Heard

\* A trade as a client sees it, who may be the one party, the other, both or none:
\* from what it had open, what it has afterwards and what it hears.
TradeSeenBy(c, rest, taker, maker, taking, making, fill_qty, left) ==
    /\ fill_qty \in Nat \ {0}
    /\ maker.qty_ \in Nat /\ taker.qty_ \in Nat
    /\ fill_qty <= taker.qty_ /\ fill_qty <= maker.qty_
    /\ left = maker.qty_ - fill_qty
    /\ maker.price_ \in Prices
    /\ taker.side_ # maker.side_
    /\ Client(c)!AtOrBetter(maker, maker.price_)
    /\ Client(c)!AtOrBetter(taker, maker.price_)
    /\ \A v \in rest : /\ making = c => v.order_id_ # maker.order_id_
                       /\ taking = c => v.order_id_ # taker.order_id_
    /\ taking = c /\ making = c => maker.order_id_ # taker.order_id_
    /\ taker = [side_ |-> taker.side_, order_id_ |-> taker.order_id_,
                price_ |-> taker.price_, qty_ |-> taker.qty_]
    /\ maker = [side_ |-> maker.side_, order_id_ |-> maker.order_id_,
                price_ |-> maker.price_, qty_ |-> maker.qty_]
    /\ Open(c) = rest \cup (IF making = c THEN {maker} ELSE {})
                      \cup (IF taking = c THEN {taker} ELSE {})
    /\ Open(c)' = rest \cup (IF making = c /\ left # 0
                             THEN {[maker EXCEPT !.qty_ = left]} ELSE {})
                       \cup (IF taking = c /\ fill_qty # taker.qty_
                             THEN {[taker EXCEPT !.qty_ = @ - fill_qty]} ELSE {})
    /\ HeardBy(c, responses)' =
          (IF taking = c THEN Client(c)!Response("FILLED", taker, maker.price_, fill_qty,
                                                 taker.qty_ - fill_qty) ELSE <<>>)
          \o (IF making = c THEN Client(c)!Response("FILLED", maker, maker.price_, fill_qty,
                                                    left) ELSE <<>>)
LEMMA TradeForClient ==
    ASSUME NEW c, NEW rest, NEW taker, NEW maker, NEW taking, NEW making, NEW fill_qty, NEW left,
           TradeSeenBy(c, rest, taker, maker, taking, making, fill_qty, left)
    PROVE  Client(c)!Next
<1> DEFINE price == maker.price_
           toTaker == Client(c)!Response("FILLED", taker, price, fill_qty, taker.qty_ - fill_qty)
           toMaker == Client(c)!Response("FILLED", maker, price, fill_qty, left)
           takerLeft == IF fill_qty = taker.qty_ THEN {}
                        ELSE {[taker EXCEPT !.qty_ = @ - fill_qty]}
           makerLeft == IF fill_qty = maker.qty_ THEN {}
                        ELSE {[maker EXCEPT !.qty_ = @ - fill_qty]}
<1>1. /\ \E m : toTaker = <<m>>
      /\ \E m : toMaker = <<m>>
  BY Zenon DEF Client!Response
<1>2. /\ toTaker \o <<>> = toTaker /\ <<>> \o toMaker = toMaker /\ <<>> \o <<>> = <<>>
  <2>1. \A m : <<m>> \o <<>> = <<m>> /\ <<>> \o <<m>> = <<m>> /\ <<>> \o <<>> = <<>>
    OBVIOUS
  <2> HIDE DEF toTaker, toMaker
  <2> QED
    BY <1>1, <2>1
<1>3. /\ (IF making = c /\ left # 0 THEN {[maker EXCEPT !.qty_ = left]} ELSE {}) =
            IF making = c THEN makerLeft ELSE {}
      /\ (IF taking = c /\ fill_qty # taker.qty_ THEN {[taker EXCEPT !.qty_ = @ - fill_qty]}
          ELSE {}) = IF taking = c THEN takerLeft ELSE {}
  BY DEF TradeSeenBy
<1>4. /\ Open(c)' = rest \cup (IF making = c THEN makerLeft ELSE {})
                         \cup (IF taking = c THEN takerLeft ELSE {})
      /\ HeardBy(c, responses)' = (IF taking = c THEN toTaker ELSE <<>>)
                                  \o (IF making = c THEN toMaker ELSE <<>>)
  BY <1>3 DEF TradeSeenBy
<1>5. /\ Client(c)!Filled(Open(c), taker, price, fill_qty) =
            [open |-> (Open(c) \ {taker}) \cup takerLeft, sent |-> toTaker]
      /\ Client(c)!Filled(Open(c), maker, price, fill_qty) =
            [open |-> (Open(c) \ {maker}) \cup makerLeft, sent |-> toMaker]
      /\ Client(c)!FilledBoth(Open(c), taker, maker, price, fill_qty) =
            [open |-> (((Open(c) \ {taker}) \cup takerLeft) \ {maker}) \cup makerLeft,
             sent |-> toTaker \o toMaker]
  <2>1. /\ \A orders : Client(c)!Filled(orders, taker, price, fill_qty) =
              [open |-> (orders \ {taker}) \cup takerLeft, sent |-> toTaker]
        /\ \A orders : Client(c)!Filled(orders, maker, price, maker.qty_ - left) =
              [open |-> (orders \ {maker}) \cup
                           IF maker.qty_ - left = maker.qty_ THEN {}
                           ELSE {[maker EXCEPT !.qty_ = @ - (maker.qty_ - left)]},
               sent |-> Client(c)!Response("FILLED", maker, price, maker.qty_ - left,
                                           maker.qty_ - (maker.qty_ - left))]
    BY DEF Client!Filled
  <2>2. maker.qty_ - left = fill_qty /\ maker.qty_ - (maker.qty_ - left) = left
    BY DEF TradeSeenBy
  <2>3. \A orders : Client(c)!Filled(orders, maker, price, fill_qty) =
              [open |-> (orders \ {maker}) \cup makerLeft, sent |-> toMaker]
    BY ONLY <2>1, <2>2
  <2> HIDE DEF takerLeft, makerLeft, toTaker, toMaker, price
  <2>4. PICK first, second :
          /\ first = Client(c)!Filled(Open(c), taker, price, fill_qty)
          /\ second = Client(c)!Filled(first.open, maker, price, fill_qty)
    OBVIOUS
  <2>5. /\ first.open = (Open(c) \ {taker}) \cup takerLeft /\ first.sent = toTaker
        /\ second.open = (first.open \ {maker}) \cup makerLeft /\ second.sent = toMaker
    BY <2>1, <2>3, <2>4
  <2>6. Client(c)!FilledBoth(Open(c), taker, maker, price, fill_qty) =
           [open |-> second.open, sent |-> first.sent \o second.sent]
    BY ONLY <2>4, Zenon DEF Client!FilledBoth
  <2> QED
    BY <2>1, <2>3, <2>5, <2>6
<1>6. /\ taking = c => taker \notin rest
      /\ making = c => maker \notin rest
      /\ taking = c /\ making = c => maker # taker /\ maker \notin takerLeft
  BY DEF TradeSeenBy
<1>7. ASSUME NEW outcome, outcome \in Client(c)!Trades(Open(c), price),
             Open(c)' = outcome.open, HeardBy(c, responses)' = outcome.sent
      PROVE  Client(c)!Next
  BY <1>7 DEF Client!Next, Client!Trade, Client!Become, Open, TradeSeenBy
<1>8. fill_qty \in 1 .. taker.qty_ /\ fill_qty \in 1 .. maker.qty_
  BY DEF TradeSeenBy
<1>9. /\ taking = c => Client(c)!Filled(Open(c), taker, price, fill_qty) \in Client(c)!Trades(Open(c), price)
      /\ making = c => Client(c)!Filled(Open(c), maker, price, fill_qty) \in Client(c)!Trades(Open(c), price)
      /\ taking = c /\ making = c => Client(c)!FilledBoth(Open(c), taker, maker, price, fill_qty)
                            \in Client(c)!Trades(Open(c), price)
  <2> DEFINE at == {o \in Open(c) : Client(c)!AtOrBetter(o, price)}
  <2>1. (taking = c => taker \in at) /\ (making = c => maker \in at)
    BY DEF TradeSeenBy
  <2>2. \A o \in at : \A qty \in 1 .. o.qty_ :
           Client(c)!Filled(Open(c), o, price, qty) \in Client(c)!Trades(Open(c), price)
    BY DEF Client!Trades
  <2>3. \A o \in at, p \in at : \A qty \in 1 .. o.qty_ : p.side_ # o.side_ /\ qty <= p.qty_ =>
           Client(c)!FilledBoth(Open(c), o, p, price, qty) \in Client(c)!Trades(Open(c), price)
    BY DEF Client!Trades
  <2> HIDE DEF at
  <2> QED
    BY <1>8, <2>1, <2>2, <2>3 DEF TradeSeenBy
<1> HIDE DEF price, toTaker, toMaker, takerLeft, makerLeft
<1>10. CASE taking = c /\ making = c
  <2>1. ((((Open(c) \ {taker}) \cup takerLeft) \ {maker}) \cup makerLeft) = Open(c)'
    BY <1>4, <1>6, <1>10 DEF TradeSeenBy
  <2>2. HeardBy(c, responses)' = toTaker \o toMaker
    BY <1>4, <1>10
  <2>3. PICK outcome : outcome = Client(c)!FilledBoth(Open(c), taker, maker, price, fill_qty)
    OBVIOUS
  <2>4. outcome \in Client(c)!Trades(Open(c), price)
    BY <1>9, <1>10, <2>3
  <2>5. outcome = [open |-> Open(c)', sent |-> HeardBy(c, responses)']
    BY ONLY <1>5, <2>1, <2>2, <2>3, Zenon
  <2>6. outcome.open = Open(c)' /\ outcome.sent = HeardBy(c, responses)'
    BY ONLY <2>5
  <2> QED
    BY <1>7, <2>4, <2>6
<1>11. CASE taking = c /\ making # c
  <2>1. (Open(c) \ {taker}) \cup takerLeft = Open(c)'
    BY <1>4, <1>6, <1>11 DEF TradeSeenBy
  <2>2. HeardBy(c, responses)' = toTaker
    BY <1>2, <1>4, <1>11
  <2>3. PICK outcome : outcome = Client(c)!Filled(Open(c), taker, price, fill_qty)
    OBVIOUS
  <2>4. outcome \in Client(c)!Trades(Open(c), price)
    BY <1>9, <1>11, <2>3
  <2>5. outcome = [open |-> Open(c)', sent |-> HeardBy(c, responses)']
    BY ONLY <1>5, <2>1, <2>2, <2>3, Zenon
  <2>6. outcome.open = Open(c)' /\ outcome.sent = HeardBy(c, responses)'
    BY ONLY <2>5
  <2> QED
    BY <1>7, <2>4, <2>6
<1>12. CASE making = c /\ taking # c
  <2>1. (Open(c) \ {maker}) \cup makerLeft = Open(c)'
    BY <1>4, <1>6, <1>12 DEF TradeSeenBy
  <2>2. HeardBy(c, responses)' = toMaker
    BY <1>2, <1>4, <1>12
  <2>3. PICK outcome : outcome = Client(c)!Filled(Open(c), maker, price, fill_qty)
    OBVIOUS
  <2>4. outcome \in Client(c)!Trades(Open(c), price)
    BY <1>9, <1>12, <2>3
  <2>5. outcome = [open |-> Open(c)', sent |-> HeardBy(c, responses)']
    BY ONLY <1>5, <2>1, <2>2, <2>3, Zenon
  <2>6. outcome.open = Open(c)' /\ outcome.sent = HeardBy(c, responses)'
    BY ONLY <2>5
  <2> QED
    BY <1>7, <2>4, <2>6
<1>13. CASE taking # c /\ making # c
  <2>1. Open(c)' = rest /\ Open(c) = rest
    BY <1>4, <1>13 DEF TradeSeenBy
  <2>2. HeardBy(c, responses)' = <<>>
    BY <1>2, <1>4, <1>13
  <2> QED
    BY <2>1, <2>2, NothingForClient
<1> QED
  BY <1>10, <1>11, <1>12, <1>13

\* A trade: both parties' orders are reduced by the same quantity, and each hears
\* of it.
LEMMA MatchForClient ==
    ASSUME NoAliasing, IInv, NamesOK, Match, NEW c \in Clients
    PROVE  Client(c)!Next
<1> DEFINE other == Opposite(incoming.side_)
<1>0. PICK id, order, fill_qty, left :
        /\ id = BestOpposite
        /\ order = order_pool_[id]
        /\ fill_qty = FillQty(incoming.leaves_qty, order.qty_)
        /\ left = order.qty_ - fill_qty
  OBVIOUS
<1>1. /\ BookOK /\ BookTypeOK /\ Matching /\ CanMatch /\ incoming \in Request
      /\ other \in Sides /\ best_by_price[other] # Null /\ other # incoming.side_
  BY TakerIs DEF IInv, BookOK, Match, Matching, CanMatch, Request, Opposite, Sides
<1>2. /\ id \in LiveOrders /\ id \in OrderIds /\ order \in Order /\ order.side_ = other
      /\ order_pool_[id] = order
  BY <1>0, <1>1, BestIsFirst, LiveOrderType DEF BestOpposite
<1>3. /\ order.qty_ \in Nat \ {0} /\ incoming.leaves_qty \in Nat \ {0}
      /\ fill_qty \in Nat \ {0} /\ left \in Nat
      /\ fill_qty <= incoming.leaves_qty /\ fill_qty <= order.qty_
      /\ left = 0 <=> fill_qty = order.qty_
  BY <1>0, <1>1, <1>2 DEF FillQty, Request, Order, CanMatch
<1>4. /\ incoming' = [incoming EXCEPT !.leaves_qty = @ - fill_qty]
      /\ responses' = Fills(incoming, order, fill_qty)
      /\ IF left = 0 THEN RemoveOrder(id)
         ELSE /\ order_pool_' = [order_pool_ EXCEPT ![id].qty_ = left]
              /\ UNCHANGED <<orders_at_price_pool_, price_orders_at_price_,
                             best_by_price, cid_oid_to_order_>>
  BY <1>0 DEF Match
<1>5. /\ \A x \in LiveOrders \ {id} : SameTerms(x)
      /\ LiveOrders' = IF left = 0 THEN LiveOrders \ {id} ELSE LiveOrders
      /\ left # 0 => /\ View(id)' = [View(id) EXCEPT !.qty_ = left]
                     /\ order_pool_'[id].client_id_ = order.client_id_
  <2>1. LiveOrders \subseteq OrderIds
    BY DEF LiveOrders
  <2>2. CASE left = 0
    BY <1>1, <1>2, <1>4, <2>1, <2>2, RemoveOrderCorrect, RemoveOrderKeeps
  <2>3. CASE left # 0
    <3>1. LiveOrders' = LiveOrders
      BY <1>1, <1>2, <1>3, <1>4, <2>3, ReduceOrderCorrect
    <3>2. /\ \A x \in OrderIds \ {id} : order_pool_'[x] = order_pool_[x]
          /\ order_pool_'[id] = [order EXCEPT !.qty_ = left]
      BY <1>1, <1>2, <1>4, <2>3 DEF BookTypeOK
    <3>3. \A x \in OrderIds \ {id} : SameTerms(x)
      BY ONLY <3>2 DEF SameTerms
    <3>4. View(id)' = [View(id) EXCEPT !.qty_ = left]
          /\ order_pool_'[id].client_id_ = order.client_id_
      BY ONLY <1>2, <3>2 DEF View, Order
    <3> QED
      BY <2>1, <2>3, <3>1, <3>3, <3>4
  <2> QED
    BY <2>2, <2>3
<1>6. PICK rest, taker, maker :
        /\ rest = {View(x) : x \in OwnOrders(c) \ {id}}
        /\ taker = [side_ |-> incoming.side_, order_id_ |-> incoming.client_order_id_,
                    price_ |-> incoming.price_, qty_ |-> incoming.leaves_qty]
        /\ maker = View(id)
  OBVIOUS
<1>7. PICK taking, making : taking = incoming.client_id_ /\ making = order.client_id_
  OBVIOUS
<1>8. Open(c) = rest \cup (IF making = c THEN {maker} ELSE {}) \cup (IF taking = c THEN {taker} ELSE {})
  <2>1. OwnRequest(c) = IF taking = c THEN {taker} ELSE {}
    BY <1>3, <1>6, <1>7 DEF OwnRequest
  <2>2. id \in OwnOrders(c) <=> making = c
    BY <1>2, <1>7 DEF OwnOrders
  <2>3. {View(x) : x \in OwnOrders(c)} = rest \cup IF making = c THEN {maker} ELSE {}
    BY <1>6, <2>2
  <2> QED
    BY <2>1, <2>3 DEF Open
<1>9. Open(c)' = rest \cup (IF making = c /\ left # 0 THEN {[maker EXCEPT !.qty_ = left]} ELSE {})
                      \cup (IF taking = c /\ fill_qty # taker.qty_
                            THEN {[taker EXCEPT !.qty_ = @ - fill_qty]} ELSE {})
  <2>1. OwnRequest(c)' = IF taking = c /\ fill_qty # taker.qty_
                         THEN {[taker EXCEPT !.qty_ = @ - fill_qty]} ELSE {}
    <3>1. /\ incoming'.client_id_ = incoming.client_id_
          /\ incoming'.client_order_id_ = incoming.client_order_id_
          /\ incoming'.side_ = incoming.side_
          /\ incoming'.price_ = incoming.price_
          /\ incoming'.leaves_qty = incoming.leaves_qty - fill_qty
      BY <1>1, <1>4 DEF Request
    <3>2. incoming'.leaves_qty > 0 <=> fill_qty # taker.qty_
      BY <1>3, <1>6, <3>1
    <3>3. OwnRequest(c)' =
             IF taking = c /\ fill_qty # taker.qty_
             THEN {[side_ |-> incoming.side_, order_id_ |-> incoming.client_order_id_,
                    price_ |-> incoming.price_, qty_ |-> incoming.leaves_qty - fill_qty]}
             ELSE {}
      BY <1>7, <3>1, <3>2 DEF OwnRequest
    <3>4. [taker EXCEPT !.qty_ = @ - fill_qty] =
             [side_ |-> incoming.side_, order_id_ |-> incoming.client_order_id_,
              price_ |-> incoming.price_, qty_ |-> incoming.leaves_qty - fill_qty]
      BY <1>6
    <3> QED
      BY <3>3, <3>4
  <2>2. OwnOrders(c)' = (OwnOrders(c) \ {id}) \cup IF making = c /\ left # 0 THEN {id} ELSE {}
    BY <1>2, <1>5, <1>7, SameView, OwnOrdersAre DEF OwnOrders
  <2>3. \A x \in OwnOrders(c) \ {id} : View(x)' = View(x)
    BY <1>5, SameView DEF OwnOrders
  <2>4. {View(x) : x \in OwnOrders(c)}' =
           rest \cup IF making = c /\ left # 0 THEN {[maker EXCEPT !.qty_ = left]} ELSE {}
    <3>1. {View(x) : x \in OwnOrders(c)}' = {View(x)' : x \in OwnOrders(c)'}
      OBVIOUS
    <3> QED
      BY <1>5, <1>6, <2>2, <2>3, <3>1
  <2> QED
    BY <2>1, <2>4 DEF Open
<1>10. /\ \A v \in rest : (making = c => v.order_id_ # maker.order_id_)
                          /\ (taking = c => v.order_id_ # taker.order_id_)
       /\ taking = c /\ making = c => maker.order_id_ # taker.order_id_
  <2>1. /\ \A x, y \in OwnOrders(c) : View(x).order_id_ = View(y).order_id_ => x = y
        /\ taking = c => \A x \in OwnOrders(c) : View(x).order_id_ # taker.order_id_
    BY <1>1, <1>6, <1>7, NamesDiffer
  <2>2. making = c => id \in OwnOrders(c)
    BY <1>2, <1>7 DEF OwnOrders
  <2> QED
    BY <1>6, <2>1, <2>2
<1>11. HeardBy(c, responses)' =
          (IF taking = c THEN Client(c)!Response("FILLED", taker, maker.price_, fill_qty,
                                           taker.qty_ - fill_qty) ELSE <<>>)
          \o (IF making = c THEN Client(c)!Response("FILLED", maker, maker.price_, fill_qty, left)
              ELSE <<>>)
  <2>1. PICK first, second :
          /\ first = Response("FILLED", incoming.client_id_, incoming.client_order_id_,
                              incoming.market_order_id_, incoming.side_, order.price_,
                              fill_qty, incoming.leaves_qty - fill_qty)
          /\ second = Response("FILLED", order.client_id_, order.client_order_id_,
                               incoming.market_order_id_, order.side_, order.price_,
                               fill_qty, left)
    OBVIOUS
  <2>2. responses' = <<first, second>>
    BY <1>0, <1>4, <2>1 DEF Fills
  <2>3. /\ first.client_id_ = incoming.client_id_ /\ second.client_id_ = order.client_id_
        /\ Heard(first) = [type_ |-> "FILLED", side_ |-> taker.side_,
                           order_id_ |-> taker.order_id_, price_ |-> maker.price_,
                           exec_qty_ |-> fill_qty, leaves_qty_ |-> taker.qty_ - fill_qty]
        /\ Heard(second) = [type_ |-> "FILLED", side_ |-> maker.side_,
                            order_id_ |-> maker.order_id_, price_ |-> maker.price_,
                            exec_qty_ |-> fill_qty, leaves_qty_ |-> left]
    BY <1>2, <1>6, <2>1, FillHeard DEF View
  <2>4. HeardBy(c, responses)' = (IF taking = c THEN <<Heard(first)>> ELSE <<>>)
                                 \o (IF making = c THEN <<Heard(second)>> ELSE <<>>)
    <3>1. HeardBy(c, <<first, second>>) = Own(c, first) \o Own(c, second)
      BY HeardOfFew
    <3> QED
      BY <1>7, <2>2, <2>3, <3>1 DEF Own
  <2> QED
    BY <2>3, <2>4 DEF Client!Response
<1>12. /\ taker = [side_ |-> taker.side_, order_id_ |-> taker.order_id_,
                   price_ |-> taker.price_, qty_ |-> taker.qty_]
       /\ maker = [side_ |-> maker.side_, order_id_ |-> maker.order_id_,
                   price_ |-> maker.price_, qty_ |-> maker.qty_]
       /\ maker.qty_ \in Nat \ {0} /\ taker.qty_ \in Nat \ {0}
       /\ maker.qty_ = order.qty_ /\ taker.qty_ = incoming.leaves_qty
       /\ maker.price_ \in Prices /\ maker.price_ \in Nat
       /\ taker.side_ # maker.side_
       /\ Client(c)!AtOrBetter(maker, maker.price_)
       /\ Client(c)!AtOrBetter(taker, maker.price_)
  <2>1. order.price_ \in Nat /\ order.price_ \in Prices /\ incoming.price_ \in Nat
    BY <1>1, <1>2, PricesAreNumbers DEF Order, Request
  <2>2. /\ maker.side_ = other /\ maker.price_ = order.price_ /\ maker.qty_ = order.qty_
        /\ taker.side_ = incoming.side_ /\ taker.price_ = incoming.price_
        /\ taker.qty_ = incoming.leaves_qty
    BY <1>2, <1>6 DEF View
  <2>3. ~Better(other, incoming.price_, order.price_)
    BY <1>0, <1>1 DEF CanMatch
  <2>4. incoming.side_ \in Sides
    BY <1>1 DEF Request
  <2> QED
    BY <1>1, <1>3, <1>6, <2>1, <2>2, <2>3, <2>4 DEF View, Client!AtOrBetter, Better, Opposite, Sides
<1>13. /\ fill_qty \in Nat \ {0} /\ fill_qty <= taker.qty_ /\ fill_qty <= maker.qty_
       /\ left = maker.qty_ - fill_qty /\ (left = 0 <=> fill_qty = maker.qty_)
  BY <1>0, <1>3, <1>12
<1> HIDE DEF other
<1> QED
  <2>1. TradeSeenBy(c, rest, taker, maker, taking, making, fill_qty, left)
    BY ONLY <1>8, <1>9, <1>10, <1>11, <1>12, <1>13 DEF TradeSeenBy
  <2> QED
    BY <2>1, TradeForClient
\* What is left of an order goes on being the client's when it is put into the book.
LEMMA RestForClient ==
    ASSUME NoAliasing, IInv, Rest, NEW c \in Clients PROVE Client(c)!Next
<1>0. PICK id : id = incoming.market_order_id_
  OBVIOUS
<1>1. /\ BookTypeOK /\ incoming.leaves_qty > 0
      /\ Addable(incoming, id) /\ AddOrder(incoming, id)
      /\ incoming' = NoRequest /\ responses' = <<>>
  BY <1>0, RestIsAddable DEF IInv, BookOK, Rest
<1>2. /\ LiveOrders' = LiveOrders \cup {id} /\ id \in OrderIds /\ id \notin LiveOrders
      /\ LiveOrders \subseteq OrderIds
  <2>1. LiveOrders' = LiveOrders \cup {id}
    BY <1>1, AddOrderCorrect DEF IInv
  <2>2. LiveOrders \subseteq OrderIds /\ LiveOrders \subseteq Nat
    BY DEF LiveOrders, OrderIds
  <2> QED
    BY <1>1, <2>1, <2>2 DEF Addable
<1>3. /\ \A x \in LiveOrders : SameTerms(x)
      /\ order_pool_'[id].client_id_ = incoming.client_id_
      /\ View(id)' = [side_ |-> incoming.side_, order_id_ |-> incoming.client_order_id_,
                      price_ |-> incoming.price_, qty_ |-> incoming.leaves_qty]
  BY <1>1, <1>2, AddOrderKeeps DEF View
<1>4. OwnOrders(c)' = OwnOrders(c) \cup IF incoming.client_id_ = c THEN {id} ELSE {}
  BY <1>2, <1>3, SameView, OwnOrdersAre DEF OwnOrders
<1>5. \A x \in OwnOrders(c) : View(x)' = View(x)
  BY <1>3, SameView DEF OwnOrders
<1>6. OwnRequest(c) = IF incoming.client_id_ = c THEN {View(id)'} ELSE {}
  BY <1>1, <1>3 DEF OwnRequest
<1>7. OwnRequest(c)' = {}
  BY <1>1 DEF OwnRequest, NoRequest
<1>8. {View(x) : x \in OwnOrders(c)}' = {View(x) : x \in OwnOrders(c)} \cup OwnRequest(c)
  <2>1. {View(x) : x \in OwnOrders(c)}' = {View(x)' : x \in OwnOrders(c)'}
    OBVIOUS
  <2> QED
    BY <1>4, <1>5, <1>6, <2>1
<1>9. Open(c)' = Open(c)
  BY <1>7, <1>8 DEF Open
<1>10. HeardBy(c, responses)' = <<>>
  BY <1>1, HeardOfFew
<1> QED
  BY <1>9, <1>10, NothingForClient

\* The end of add(), or of the process: nothing is left that could be open.
LEMMA EndForClient ==
    ASSUME Done \/ RunOutOfSpace, NEW c \in Clients PROVE Client(c)!Next
<1>1. /\ UNCHANGED book /\ responses' = <<>>
      /\ UNCHANGED incoming \/ (incoming.leaves_qty = 0 /\ incoming' = NoRequest)
  BY DEF Done, RunOutOfSpace
<1>2. {View(x) : x \in OwnOrders(c)}' = {View(x) : x \in OwnOrders(c)}
  BY <1>1 DEF book, View, OwnOrders, LiveOrders
<1>3. OwnRequest(c)' = OwnRequest(c)
  <2>1. CASE UNCHANGED incoming
    BY <2>1 DEF OwnRequest
  <2>2. CASE incoming.leaves_qty = 0 /\ incoming'.leaves_qty = 0
    BY <2>2 DEF OwnRequest
  <2> QED
    BY <1>1, <2>1, <2>2 DEF NoRequest
<1>4. HeardBy(c, responses)' = <<>>
  BY <1>1, HeardOfFew
<1> QED
  BY <1>2, <1>3, <1>4, NothingForClient DEF Open

\* cancel() of a live order takes it from its client.
LEMMA CancelForClient ==
    ASSUME NoAliasing, IInv, NamesOK, NEW d \in Clients, NEW o \in Oids, CancelLive(d, o),
           NEW c \in Clients
    PROVE  Client(c)!Next
<1>0. PICK id, order : id = cid_oid_to_order_[d][o] /\ order = order_pool_[id]
  OBVIOUS
<1>1. PICK told : told = Response("CANCELED", d, o, id, order.side_, order.price_, Null, order.qty_)
  OBVIOUS
<1>2. /\ BookOK /\ BookTypeOK /\ incoming = NoRequest /\ incoming' = NoRequest
      /\ RemoveOrder(id) /\ responses' = <<told>>
      /\ id \in LiveOrders /\ order.client_id_ = d /\ order.client_order_id_ = o
  BY <1>0, <1>1 DEF IInv, BookOK, CancelLive, Matching, IndicesSound
<1>3. /\ LiveOrders' = LiveOrders \ {id} /\ \A x \in LiveOrders \ {id} : SameTerms(x)
  BY <1>2, RemoveOrderCorrect, RemoveOrderKeeps DEF LiveOrders
<1>4. OwnOrders(c)' = OwnOrders(c) \ {id} /\ \A x \in OwnOrders(c) \ {id} : View(x)' = View(x)
  BY <1>3, SameView, OwnOrdersAre DEF OwnOrders
<1>5. Open(c) = {View(x) : x \in OwnOrders(c)} /\ Open(c)' = {View(x) : x \in OwnOrders(c) \ {id}}
  <2>1. OwnRequest(c) = {} /\ OwnRequest(c)' = {}
    BY <1>2 DEF OwnRequest, NoRequest
  <2>2. {View(x) : x \in OwnOrders(c)}' = {View(x)' : x \in OwnOrders(c)'}
    OBVIOUS
  <2> QED
    BY <1>4, <2>1, <2>2 DEF Open
<1>6. told.client_id_ = d
  BY <1>1 DEF Response
<1>7. HeardBy(c, responses)' = Own(c, told)
  BY <1>2, HeardOfFew
<1>8. CASE d # c
  <2>1. id \notin OwnOrders(c)
    BY <1>0, <1>2, <1>8 DEF OwnOrders
  <2>2. Open(c)' = Open(c)
    BY <1>5, <2>1
  <2> QED
    BY <1>6, <1>7, <1>8, <2>2, NothingForClient DEF Own
<1>9. CASE d = c
  <2>1. id \in OwnOrders(c)
    BY <1>0, <1>2, <1>9 DEF OwnOrders
  <2>2. PICK mine : mine = View(id)
    OBVIOUS
  <2>3. \A x \in OwnOrders(c) : x # id => View(x).order_id_ # o
    BY <1>0, <1>2, <2>1, NamesDiffer DEF View
  <2>4. /\ mine.order_id_ = o /\ mine.side_ = order.side_ /\ mine.price_ = order.price_
        /\ mine.qty_ = order.qty_
    BY <1>0, <1>2, <2>2 DEF View
  <2>5. Client(c)!Named(Open(c), o) = {mine}
    BY <1>5, <2>1, <2>2, <2>3, <2>4 DEF Client!Named
  <2>6. Open(c)' = Open(c) \ {mine}
    BY <1>5, <2>1, <2>2, <2>3, <2>4
  <2>7. HeardBy(c, responses)' = Client(c)!Response("CANCELED", mine, mine.price_, Null, mine.qty_)
    <3>1. Heard(told) = [type_ |-> "CANCELED", side_ |-> order.side_, order_id_ |-> o,
                         price_ |-> order.price_, exec_qty_ |-> Null, leaves_qty_ |-> order.qty_]
      BY <1>1 DEF Heard, Response
    <3> QED
      BY <1>6, <1>7, <1>9, <2>4, <3>1 DEF Own, Client!Response
  <2>8. PICK outcome : outcome = Client(c)!CancelTaken(Open(c), o)
    OBVIOUS
  <2>9. /\ outcome.open = Open(c) \ {mine}
        /\ outcome.sent = Client(c)!Response("CANCELED", mine, mine.price_, Null, mine.qty_)
    BY ONLY <2>5, <2>8 DEF Client!CancelTaken
  <2>10. Client(c)!Become(outcome)
    BY <2>6, <2>7, <2>9 DEF Client!Become, Open
  <2> QED
    BY <2>8, <2>10 DEF Client!Next, Open
<1> QED
  BY <1>8, <1>9

\* And of an order that is not in the book is rejected.
LEMMA RejectForClient ==
    ASSUME IInv, NamesOK, NEW d \in Clients, NEW o \in Oids, CancelUnknown(d, o),
           NEW c \in Clients
    PROVE  Client(c)!Next
<1>1. PICK told : told = Response("CANCEL_REJECTED", d, o, Null, "INVALID", Null, Null, Null)
  OBVIOUS
<1>2. /\ cid_oid_to_order_[d][o] = Null /\ incoming = NoRequest
      /\ responses' = <<told>> /\ UNCHANGED <<book, incoming>>
  BY <1>1 DEF CancelUnknown, Matching
<1>3. Open(c)' = Open(c)
  BY <1>2 DEF book, Open, View, OwnOrders, OwnRequest, LiveOrders
<1>4. /\ told.client_id_ = d
      /\ Heard(told) = [type_ |-> "CANCEL_REJECTED", side_ |-> "INVALID", order_id_ |-> o,
                        price_ |-> Null, exec_qty_ |-> Null, leaves_qty_ |-> Null]
  BY <1>1 DEF Response, Heard
<1>5. HeardBy(c, responses)' = Own(c, told)
  BY <1>2, HeardOfFew
<1>6. CASE d # c
  BY <1>3, <1>4, <1>5, <1>6, NothingForClient DEF Own
<1>7. CASE d = c
  <2>1. OwnRequest(c) = {}
    BY <1>2 DEF OwnRequest, NoRequest
  <2>2. Client(c)!Named(Open(c), o) = {}
    BY <1>2, <1>7, <2>1, NamesDiffer DEF Open, Client!Named
  <2>3. PICK outcome : outcome = Client(c)!CancelTaken(Open(c), o)
    OBVIOUS
  <2>4. /\ outcome.open = Open(c)
        /\ outcome.sent = Client(c)!Response("CANCEL_REJECTED",
                             [side_ |-> "INVALID", order_id_ |-> o], Null, Null, Null)
    BY ONLY <2>2, <2>3 DEF Client!CancelTaken
  <2>5. Client(c)!Become(outcome)
    BY <1>3, <1>4, <1>5, <1>7, <2>4 DEF Client!Become, Client!Response, Own, Open
  <2> QED
    BY <2>3, <2>5 DEF Client!Next, Open
<1> QED
  BY <1>6, <1>7

LEMMA StepForClient ==
    ASSUME NoAliasing, IInv, NamesOK, [Next]_vars
    PROVE  \A c \in Clients : [Client(c)!Next]_(Client(c)!vars)
<1> SUFFICES ASSUME NEW c \in Clients PROVE [Client(c)!Next]_(Client(c)!vars)
  OBVIOUS
<1>1. CASE UNCHANGED vars
  BY <1>1 DEF vars, book, Client!vars, View, OwnOrders, OwnRequest, LiveOrders
<1>2. ASSUME NEW d \in Clients, NEW o \in Oids, NEW side \in Sides, NEW p \in Prices,
             NEW q \in Qtys, Add(d, o, side, p, q)
      PROVE  Client(c)!Next
  BY <1>2, AddForClient
<1>3. CASE Proceed
  BY <1>3, MatchForClient, RestForClient, EndForClient DEF Proceed
<1>4. CASE Cancel
  BY <1>4, CancelForClient, RejectForClient DEF Cancel
<1> QED
  BY <1>1, <1>2, <1>3, <1>4 DEF Next

LEMMA InitForClient == Init => \A c \in Clients : Client(c)!Init
<1> SUFFICES ASSUME Init, NEW c \in Clients PROVE Client(c)!Init
  OBVIOUS
<1>1. OwnOrders(c) = {} /\ OwnRequest(c) = {}
  BY DEF Init, OwnOrders, OwnRequest, LiveOrders, FreeOrder, NoRequest
<1>2. HeardBy(c, responses) = <<>>
  BY HeardOfFew DEF Init
<1> QED
  BY <1>1, <1>2 DEF Client!Init

\* Whoever the clients are, and whatever the others do, each is dealt with as
\* Strategy assumes: add(), cancel() and match() report to the owner of an order
\* what becomes of it, to the unit, and to nobody else.
THEOREM EachClientIsDealtWith ==
    ASSUME NoAliasing PROVE Spec => ImplementsClientExchange
<1>1. IInv /\ NamesOK /\ [Next]_vars => [\A c \in Clients : [Client(c)!Next]_(Client(c)!vars)]_vars
  BY StepForClient
<1> QED
  BY <1>1, InitForClient, IInvAlways, PTL DEF Spec, ImplementsClientExchange
----------------------------------------------------------------------------
(* What the market updates of a step say is what the step does to the book. *)

\* An order reads the same after the step to those who know it from the updates.
Untouched(S) ==
    \A x \in S :
        /\ order_pool_'[x].side_ = order_pool_[x].side_
        /\ order_pool_'[x].price_ = order_pool_[x].price_
        /\ order_pool_'[x].qty_ = order_pool_[x].qty_
        /\ order_pool_'[x].priority_ = order_pool_[x].priority_

TradeTold(u) ==
    \E side \in Sides : \E price, qty \in Nat : u = Update("TRADE", Null, side, price, qty, 0)

RemovalTold(id, u) ==
    /\ id \in LiveOrders /\ LiveOrders' = LiveOrders \ {id} /\ Untouched(LiveOrders \ {id})
    /\ \E qty, priority \in Nat :
          u = Update("CANCEL", id, order_pool_[id].side_, order_pool_[id].price_, qty, priority)

ReductionTold(id, u) ==
    /\ id \in LiveOrders /\ LiveOrders' = LiveOrders /\ Untouched(LiveOrders \ {id})
    /\ order_pool_'[id].side_ = order_pool_[id].side_
    /\ order_pool_'[id].price_ = order_pool_[id].price_
    /\ order_pool_'[id].priority_ = order_pool_[id].priority_
    /\ u = Update("MODIFY", id, order_pool_[id].side_, order_pool_[id].price_,
                  order_pool_'[id].qty_, order_pool_[id].priority_)

AdditionTold(id, u) ==
    /\ id \notin LiveOrders /\ LiveOrders' = LiveOrders \cup {id} /\ Untouched(LiveOrders)
    /\ id < next_market_order_id_
    /\ Cardinality(LiveOrders) + 1 # ME_MAX_ORDER_IDS
    /\ u = Update("ADD", id, order_pool_'[id].side_, order_pool_'[id].price_,
                  order_pool_'[id].qty_, order_pool_'[id].priority_)

UpdatesTell ==
    \/ updates' = <<>> /\ LiveOrders' = LiveOrders /\ Untouched(LiveOrders)
    \/ \E id \in OrderIds : \E u :
          updates' = <<u>> /\ (RemovalTold(id, u) \/ AdditionTold(id, u))
    \/ \E id \in OrderIds : \E t, u :
          /\ updates' = <<t, u>> /\ TradeTold(t)
          /\ RemovalTold(id, u) \/ ReductionTold(id, u)

\* Orders whose terms are the same are untouched.
LEMMA SameIsUntouched ==
    ASSUME NEW S, \A x \in S : SameTerms(x) PROVE Untouched(S)
BY DEF SameTerms, Untouched

LEMMA MatchTells == ASSUME NoAliasing, IInv, Match PROVE UpdatesTell
<1> DEFINE other == Opposite(incoming.side_)
<1>0. PICK id : id = BestOpposite
  OBVIOUS
<1>a. PICK order, fill_qty :
        order = order_pool_[id] /\ fill_qty = FillQty(incoming.leaves_qty, order.qty_)
  OBVIOUS
<1>b. PICK left : left = order.qty_ - fill_qty
  OBVIOUS
<1>1. /\ BookOK /\ BookTypeOK /\ incoming \in Request
      /\ other \in Sides /\ best_by_price[other] # Null
  BY DEF IInv, BookOK, TypeOK, Match, Matching, CanMatch, Request, Opposite, Sides
<1>2. /\ id \in LiveOrders /\ id \in OrderIds /\ order \in Order
  BY <1>0, <1>a, <1>1, BestIsFirst, LiveOrderType DEF BestOpposite
<1>3. fill_qty \in Nat /\ left \in Nat /\ order.qty_ \in Nat /\ order.priority_ \in Nat
      /\ order.price_ \in Nat /\ order.side_ \in Sides /\ incoming.side_ \in Sides
  <2>1. order.qty_ \in Nat /\ incoming.leaves_qty \in Nat /\ order.price_ \in Prices
        /\ order.priority_ \in Nat /\ order.side_ \in Sides /\ incoming.side_ \in Sides
    BY <1>1, <1>2 DEF Request, Order
  <2>2. order.price_ \in Nat
    BY <2>1, PricesAreNumbers
  <2> QED
    BY ONLY <1>a, <1>b, <2>1, <2>2 DEF FillQty
<1>4. /\ IF left = 0 THEN RemoveOrder(id)
         ELSE /\ order_pool_' = [order_pool_ EXCEPT ![id].qty_ = left]
              /\ UNCHANGED <<orders_at_price_pool_, price_orders_at_price_,
                             best_by_price, cid_oid_to_order_>>
      /\ updates' =
            <<Update("TRADE", Null, incoming.side_, order.price_, fill_qty, 0),
              IF left = 0
              THEN Update("CANCEL", id, order.side_, order.price_, order.qty_, 0)
              ELSE Update("MODIFY", id, order.side_, order.price_, left, order.priority_)>>
  BY <1>0, <1>a, <1>b DEF Match
<1>5. PICK t : t = Update("TRADE", Null, incoming.side_, order.price_, fill_qty, 0)
  OBVIOUS
<1>6. TradeTold(t)
  BY <1>3, <1>5 DEF TradeTold
<1>7. CASE left = 0
  <2>1. PICK u : u = Update("CANCEL", id, order.side_, order.price_, order.qty_, 0)
    OBVIOUS
  <2>2. LiveOrders' = LiveOrders \ {id} /\ Untouched(LiveOrders \ {id})
    <3>1. LiveOrders' = LiveOrders \ {id} /\ \A x \in OrderIds \ {id} : SameTerms(x)
      BY <1>1, <1>2, <1>4, <1>7, RemoveOrderCorrect, RemoveOrderKeeps
    <3> QED
      BY <3>1, SameIsUntouched DEF LiveOrders
  <2>3. RemovalTold(id, u)
    BY <1>a, <1>2, <1>3, <2>1, <2>2 DEF RemovalTold
  <2>4. updates' = <<t, u>>
    BY <1>4, <1>5, <1>7, <2>1
  <2> QED
    BY <1>2, <1>6, <2>3, <2>4 DEF UpdatesTell
<1>8. CASE left # 0
  <2>1. PICK u : u = Update("MODIFY", id, order.side_, order.price_, left, order.priority_)
    OBVIOUS
  <2>2. LiveOrders' = LiveOrders
    BY <1>1, <1>2, <1>3, <1>4, <1>8, ReduceOrderCorrect
  <2>3. /\ \A x \in OrderIds \ {id} : order_pool_'[x] = order_pool_[x]
        /\ order_pool_'[id] = [order EXCEPT !.qty_ = left]
    <3>1. order_pool_' = [order_pool_ EXCEPT ![id].qty_ = left]
      BY <1>4, <1>8
    <3>2. order_pool_ \in [OrderIds -> Order \cup {FreeOrder}]
      BY <1>1 DEF BookTypeOK
    <3> QED
      BY ONLY <1>a, <1>2, <3>1, <3>2
  <2>4. Untouched(LiveOrders \ {id})
    BY <2>3 DEF Untouched, LiveOrders
  <2>5. /\ order_pool_'[id].side_ = order.side_
        /\ order_pool_'[id].price_ = order.price_
        /\ order_pool_'[id].priority_ = order.priority_
        /\ order_pool_'[id].qty_ = left
    BY ONLY <1>2, <2>3 DEF Order
  <2>6. ReductionTold(id, u)
    BY <1>a, <1>2, <2>1, <2>2, <2>4, <2>5 DEF ReductionTold
  <2>7. updates' = <<t, u>>
    BY <1>4, <1>5, <1>8, <2>1
  <2> QED
    BY <1>2, <1>6, <2>6, <2>7 DEF UpdatesTell
<1> QED
  BY <1>7, <1>8

LEMMA RestTells == ASSUME NoAliasing, IInv, Rest PROVE UpdatesTell
<1>0. PICK id : id = incoming.market_order_id_
  OBVIOUS
<1>1. /\ BookOK /\ BookTypeOK /\ incoming \in Request
      /\ Addable(incoming, id) /\ AddOrder(incoming, id)
      /\ id < next_market_order_id_
      /\ Cardinality(LiveOrders) + 1 # ME_MAX_ORDER_IDS
  BY <1>0, RestIsAddable DEF IInv, BookOK, TypeOK, Matching, RequestOK, Rest, PoolsRunOut
<1>2. /\ LiveOrders' = LiveOrders \cup {id} /\ id \in OrderIds /\ id \notin LiveOrders
      /\ LiveOrders \subseteq OrderIds
  BY <1>1, AddOrderCorrect DEF Addable, LiveOrders, OrderIds
<1>3. Untouched(LiveOrders)
  BY <1>1, <1>2, AddOrderKeeps, SameIsUntouched
<1>4. PICK u : u = Update("ADD", id, incoming.side_, incoming.price_, incoming.leaves_qty,
                          GetNextPriority(incoming.price_))
  OBVIOUS
<1>5. /\ order_pool_'[id].side_ = incoming.side_
      /\ order_pool_'[id].price_ = incoming.price_
      /\ order_pool_'[id].qty_ = incoming.leaves_qty
      /\ order_pool_'[id].priority_ = GetNextPriority(incoming.price_)
  BY <1>1, <1>2, AddOrderKeeps
<1>6. AdditionTold(id, u)
  BY <1>1, <1>2, <1>3, <1>4, <1>5 DEF AdditionTold
<1>7. updates' = <<u>>
  BY <1>0, <1>4 DEF Rest
<1> QED
  BY <1>2, <1>6, <1>7 DEF UpdatesTell

LEMMA CancelTells ==
    ASSUME NoAliasing, IInv, NEW c \in Clients, NEW o \in Oids, CancelLive(c, o)
    PROVE  UpdatesTell
<1>0. PICK id : id = cid_oid_to_order_[c][o]
  OBVIOUS
<1>1. /\ BookOK /\ BookTypeOK /\ id \in LiveOrders /\ RemoveOrder(id)
  BY <1>0 DEF IInv, BookOK, CancelLive, IndicesSound
<1>2. LiveOrders' = LiveOrders \ {id} /\ \A x \in OrderIds \ {id} : SameTerms(x)
  BY <1>1, RemoveOrderCorrect, RemoveOrderKeeps
<1>3. Untouched(LiveOrders \ {id}) /\ id \in OrderIds
  BY <1>1, <1>2, SameIsUntouched DEF LiveOrders
<1>4. PICK u : u = Update("CANCEL", id, order_pool_[id].side_, order_pool_[id].price_, 0,
                          order_pool_[id].priority_)
  OBVIOUS
<1>5. order_pool_[id].priority_ \in Nat
  BY <1>1, LiveOrderType DEF Order
<1>6. RemovalTold(id, u)
  BY <1>1, <1>2, <1>3, <1>4, <1>5 DEF RemovalTold
<1>7. updates' = <<u>>
  BY <1>0, <1>4 DEF CancelLive
<1> QED
  BY <1>3, <1>6, <1>7 DEF UpdatesTell

\* Whoever applies the updates to the orders of the book before a step has those
\* of the book after it; and an order is added only when the pool has a block left.
LEMMA StepTells == ASSUME NoAliasing, IInv, NextReusing PROVE UpdatesTell
<1>1. ASSUME UNCHANGED book, updates' = <<>> PROVE UpdatesTell
  BY <1>1 DEF UpdatesTell, book, LiveOrders, Untouched
<1>2. CASE Proceed
  BY <1>1, <1>2, MatchTells, RestTells DEF Proceed, RunOutOfSpace, Done
<1>3. CASE Cancel
  BY <1>1, <1>3, CancelTells DEF Cancel, CancelUnknown
<1>4. ASSUME NEW c, NEW o, NEW side, NEW p, NEW q, Accept(c, o, side, p, q) PROVE UpdatesTell
  BY <1>1, <1>4 DEF Accept
<1> QED
  BY <1>2, <1>3, <1>4 DEF NextReusing
=============================================================================
