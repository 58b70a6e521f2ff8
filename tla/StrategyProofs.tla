--------------------------- MODULE StrategyProofs ---------------------------
(***************************************************************************)
(* The order manager's one order on a side is all there is, and the        *)
(* position cannot leave its limit: for every set of prices and clips and  *)
(* however many orders are sent.                                           *)
(***************************************************************************)
EXTENDS Strategy, RecursionProofs

(* The sum of a sequence.                                                   *)

Adds(numbers) == [i \in 1 .. Len(numbers) |-> [sum \in Int |-> sum + numbers[i]]]

UpTo(numbers) ==
    CHOOSE f : f = [i \in 0 .. Len(numbers) |-> IF i = 0 THEN 0 ELSE f[i - 1] + numbers[i]]

\* The sums up to each place are there.
LEMMA UpToDef ==
    ASSUME NEW numbers \in Seq(Int)
    PROVE  /\ UpTo(numbers) \in [0 .. Len(numbers) -> Int]
           /\ Recursive(UpTo(numbers), Len(numbers), 0, Adds(numbers))
           /\ UpTo(numbers)[0] = 0
           /\ \A i \in 1 .. Len(numbers) :
                 UpTo(numbers)[i] = UpTo(numbers)[i - 1] + numbers[i]
           /\ Total(numbers) = UpTo(numbers)[Len(numbers)]
<1> DEFINE n == Len(numbers)
           Sums(f) == f = [i \in 0 .. n |-> IF i = 0 THEN 0 ELSE f[i - 1] + numbers[i]]
<1>1. n \in Nat /\ Adds(numbers) \in [1 .. n -> [Int -> Int]] /\ 0 \in Int
  BY DEF Adds
<1> HIDE DEF n
<1>2. PICK f \in [0 .. n -> Int] : Recursive(f, n, 0, Adds(numbers))
  BY <1>1, RecursionExists
<1>3. Sums(f)
  <2>1. \A i \in 0 .. n : i # 0 => f[i - 1] \in Int /\ i \in 1 .. n
    BY <1>1, <1>2
  <2>2. \A i \in 0 .. n : i # 0 => Adds(numbers)[i][f[i - 1]] = f[i - 1] + numbers[i]
    BY <2>1 DEF Adds, n
  <2>3. \A i \in 0 .. n : f[i] = IF i = 0 THEN 0 ELSE Adds(numbers)[i][f[i - 1]]
    BY <1>2 DEF Recursive
  <2>4. \A i \in 0 .. n : f[i] = IF i = 0 THEN 0 ELSE f[i - 1] + numbers[i]
    BY <2>2, <2>3
  <2>5. f = [i \in 0 .. n |-> f[i]]
    OBVIOUS
  <2> QED
    BY <2>4, <2>5
<1>4. Sums(UpTo(numbers))
  BY <1>3 DEF UpTo, n
<1>5. UpTo(numbers) = f
  <2> DEFINE g == UpTo(numbers)
  <2>1. ASSUME {i \in 0 .. n : g[i] # f[i]} # {} PROVE FALSE
    <3> DEFINE D == {i \in 0 .. n : g[i] # f[i]}
    <3>1. PICK k \in D : \A j \in D : k <= j
      <4>1. D \subseteq Nat
        BY <1>1
      <4>2. D # {}
        BY <2>1
      <4> HIDE DEF D
      <4> QED
        BY <4>1, <4>2, LeastNatural
    <3>2. k \in 0 .. n /\ k # 0
      BY <1>1, <1>3, <1>4
    <3>3. k - 1 \in 0 .. n /\ k - 1 \notin D
      <4> HIDE DEF D
      <4> QED
        BY <1>1, <3>1, <3>2
    <3>4. g[k] = g[k - 1] + numbers[k] /\ f[k] = f[k - 1] + numbers[k]
      BY <1>3, <1>4, <3>2
    <3> QED
      BY <3>1, <3>3, <3>4
  <2>2. g = [i \in 0 .. n |-> g[i]] /\ f = [i \in 0 .. n |-> f[i]]
    BY <1>4
  <2> QED
    BY <2>1, <2>2
<1>6. Total(numbers) = UpTo(numbers)[n]
  BY DEF Total, UpTo, n
<1>7. /\ UpTo(numbers)[0] = 0
      /\ \A i \in 1 .. n : UpTo(numbers)[i] = UpTo(numbers)[i - 1] + numbers[i]
  <2>1. PICK u : u = UpTo(numbers)
    OBVIOUS
  <2>2. u = [i \in 0 .. n |-> IF i = 0 THEN 0 ELSE u[i - 1] + numbers[i]]
    BY <1>4, <2>1
  <2>3. 0 \in 0 .. n /\ \A i \in 1 .. n : i \in 0 .. n /\ i # 0
    BY <1>1
  <2>4. u[0] = 0 /\ \A i \in 1 .. n : u[i] = u[i - 1] + numbers[i]
    BY <2>2, <2>3
  <2> QED
    BY <2>1, <2>4
<1> QED
  BY <1>2, <1>5, <1>6, <1>7 DEF n

\* Nothing adds up to 0, and a sum of integers is one.
LEMMA TotalEmpty == Total(<<>>) = 0
<1>1. <<>> \in Seq(Int) /\ Len(<<>>) = 0
  OBVIOUS
<1> QED
  BY <1>1, UpToDef

LEMMA TotalInt ==
    ASSUME NEW numbers \in Seq(Int) PROVE Total(numbers) \in Int
<1>1. Len(numbers) \in 0 .. Len(numbers)
  OBVIOUS
<1> QED
  BY <1>1, UpToDef

\* One number more.
LEMMA TotalAppend ==
    ASSUME NEW numbers \in Seq(Int), NEW x \in Int
    PROVE  Total(Append(numbers, x)) = Total(numbers) + x
<1> DEFINE more == Append(numbers, x)
           n == Len(numbers)
<1>1. more \in Seq(Int) /\ Len(more) = n + 1 /\ n \in Nat /\ more[n + 1] = x
      /\ \A i \in 1 .. n : more[i] = numbers[i]
  OBVIOUS
<1>2. \A i \in 1 .. n : Adds(numbers)[i] = Adds(more)[i]
  BY <1>1 DEF Adds
<1>3. \A i \in 0 .. n : UpTo(numbers)[i] = UpTo(more)[i]
  <2>1. Recursive(UpTo(numbers), n, 0, Adds(numbers))
    BY UpToDef
  <2>2. Recursive(UpTo(more), n + 1, 0, Adds(more))
    <3> HIDE DEF more
    <3> QED
      BY <1>1, UpToDef
  <2>3. n \in Nat /\ n + 1 \in Nat /\ n <= n + 1
    BY <1>1
  <2> HIDE DEF more, n
  <2> QED
    BY ONLY <1>2, <2>1, <2>2, <2>3, RecursionUnique
<1>4. UpTo(more)[n + 1] = UpTo(more)[n] + x
  <2> HIDE DEF more
  <2>1. n + 1 \in 1 .. Len(more) /\ n + 1 - 1 = n
    BY <1>1
  <2>2. \A i \in 1 .. Len(more) : UpTo(more)[i] = UpTo(more)[i - 1] + more[i]
    BY <1>1, UpToDef
  <2> QED
    BY <1>1, <2>1, <2>2
<1>5. Total(more) = UpTo(more)[n + 1] /\ Total(numbers) = UpTo(numbers)[n]
  <2> HIDE DEF more
  <2> QED
    BY <1>1, UpToDef
<1> QED
  BY <1>1, <1>3, <1>4, <1>5

\* The first number less.
LEMMA TotalTail ==
    ASSUME NEW numbers \in Seq(Int), numbers # <<>>
    PROVE  Total(Tail(numbers)) = Total(numbers) - numbers[1]
<1> DEFINE rest == Tail(numbers)
           n == Len(numbers)
<1>1. rest \in Seq(Int) /\ Len(rest) = n - 1 /\ n \in Nat \ {0} /\ numbers[1] \in Int
      /\ \A i \in 1 .. n - 1 : rest[i] = numbers[i + 1]
  OBVIOUS
<1>2. PICK f : f = UpTo(numbers)
  OBVIOUS
<1>3. PICK g : g = UpTo(rest)
  OBVIOUS
<1>4. /\ f \in [0 .. n -> Int] /\ f[0] = 0 /\ Total(numbers) = f[n]
      /\ \A i \in 1 .. n : f[i] = f[i - 1] + numbers[i]
  BY <1>2, UpToDef
<1>5. /\ g \in [0 .. n - 1 -> Int] /\ g[0] = 0 /\ Total(rest) = g[n - 1]
      /\ \A i \in 1 .. n - 1 : g[i] = g[i - 1] + rest[i]
  <2> HIDE DEF rest
  <2> QED
    BY <1>1, <1>3, UpToDef
<1> HIDE DEF rest, n
<1> DEFINE D == {i \in 0 .. n - 1 : g[i] # f[i + 1] - numbers[1]}
<1>6. ASSUME D # {} PROVE FALSE
  <2>1. PICK k \in D : \A j \in D : k <= j
    <3>1. D \subseteq Nat
      BY <1>1
    <3> HIDE DEF D
    <3> QED
      BY <1>6, <3>1, LeastNatural
  <2>2. k \in 0 .. n - 1 /\ k # 0
    <3>1. f[0 + 1] = f[0] + numbers[1]
      BY <1>1, <1>4
    <3> QED
      BY <1>1, <1>4, <1>5, <3>1
  <2>3. k - 1 \in 0 .. n - 1 /\ k - 1 \notin D
    <3> HIDE DEF D
    <3> QED
      BY <1>1, <2>1, <2>2
  <2>4. g[k - 1] = f[k] - numbers[1]
    BY <1>1, <2>2, <2>3
  <2>5. k \in 1 .. n - 1 /\ k + 1 \in 1 .. n /\ k + 1 - 1 = k
    BY <1>1, <2>2
  <2>6. g[k] = g[k - 1] + numbers[k + 1]
    BY <1>1, <1>5, <2>5
  <2>7. f[k + 1] = f[k] + numbers[k + 1]
    BY <1>4, <2>5
  <2>8. f[k] \in Int /\ numbers[k + 1] \in Int
    <3>1. \A i \in 1 .. n : numbers[i] \in Int
      BY DEF n
    <3>2. k \in 0 .. n
      BY <1>1, <2>2
    <3> QED
      BY <1>4, <2>5, <3>1, <3>2
  <2> QED
    BY <1>1, <2>1, <2>4, <2>6, <2>7, <2>8
<1>7. n - 1 \in 0 .. n - 1 /\ n - 1 + 1 = n
  BY <1>1
<1>8. g[n - 1] = f[n] - numbers[1]
  BY <1>6, <1>7
<1> QED
  BY <1>4, <1>5, <1>8 DEF rest

\* No number of a sequence of naturals is more than their sum.
LEMMA TotalBounds ==
    ASSUME NEW numbers \in Seq(Nat)
    PROVE  Total(numbers) \in Nat /\ \A i \in DOMAIN numbers : numbers[i] <= Total(numbers)
<1> DEFINE n == Len(numbers)
<1>1. numbers \in Seq(Int) /\ n \in Nat /\ \A i \in 1 .. n : numbers[i] \in Nat
  OBVIOUS
<1>2. PICK f : f = UpTo(numbers)
  OBVIOUS
<1>3. /\ f \in [0 .. n -> Int] /\ f[0] = 0 /\ Total(numbers) = f[n]
      /\ \A i \in 1 .. n : f[i] = f[i - 1] + numbers[i]
  BY <1>1, <1>2, UpToDef
<1> DEFINE Good(k) == f[k] \in Nat /\ \A i \in 1 .. k : numbers[i] <= f[k]
           D == {k \in 0 .. n : ~Good(k)}
<1> HIDE DEF n
<1>4. ASSUME D # {} PROVE FALSE
  <2>1. PICK k \in D : \A j \in D : k <= j
    <3>1. D \subseteq Nat
      BY <1>1
    <3> HIDE DEF D
    <3> QED
      BY <1>4, <3>1, LeastNatural
  <2>2. k \in 0 .. n /\ k # 0
    BY <1>1, <1>3
  <2>3. k - 1 \in 0 .. n /\ k - 1 \notin D
    <3> HIDE DEF D
    <3> QED
      BY <1>1, <2>1, <2>2
  <2>4. Good(k - 1)
    BY <2>3
  <2>5. k \in 1 .. n /\ f[k] = f[k - 1] + numbers[k] /\ numbers[k] \in Nat
    BY <1>1, <1>3, <2>2
  <2>6. f[k] \in Nat
    BY <2>4, <2>5
  <2>7. \A i \in 1 .. k : numbers[i] <= f[k]
    <3> SUFFICES ASSUME NEW i \in 1 .. k PROVE numbers[i] <= f[k]
      OBVIOUS
    <3>1. CASE i = k
      BY <2>4, <2>5, <3>1
    <3>2. CASE i \in 1 .. k - 1
      <4>1. numbers[i] \in Nat /\ numbers[i] <= f[k - 1]
        BY <1>1, <2>2, <2>4, <3>2
      <4> QED
        BY <2>4, <2>5, <4>1
    <3> QED
      BY <2>2, <3>1, <3>2
  <2> QED
    BY <2>1, <2>6, <2>7
<1>5. Good(n)
  BY <1>1, <1>4
<1> QED
  BY <1>3, <1>5 DEF n
\* Nothing counted adds up to nothing.
LEMMA TotalZero ==
    ASSUME NEW numbers \in Seq(Int), \A i \in 1 .. Len(numbers) : numbers[i] = 0
    PROVE  Total(numbers) = 0
<1> DEFINE n == Len(numbers)
<1>1. n \in Nat
  OBVIOUS
<1>2. PICK f : f = UpTo(numbers)
  OBVIOUS
<1>3. /\ f \in [0 .. n -> Int] /\ f[0] = 0 /\ Total(numbers) = f[n]
      /\ \A i \in 1 .. n : f[i] = f[i - 1] + 0
  BY <1>2, UpToDef
<1> DEFINE D == {k \in 0 .. n : f[k] # 0}
<1> HIDE DEF n
<1>4. ASSUME D # {} PROVE FALSE
  <2>1. PICK k \in D : \A j \in D : k <= j
    <3>1. D \subseteq Nat
      BY <1>1
    <3> HIDE DEF D
    <3> QED
      BY <1>4, <3>1, LeastNatural
  <2>2. k \in 1 .. n
    BY <1>1, <1>3
  <2>3. k - 1 \in 0 .. n /\ k - 1 \notin D
    <3> HIDE DEF D
    <3> QED
      BY <1>1, <2>1, <2>2
  <2> QED
    BY <1>3, <2>1, <2>2, <2>3
<1>5. n \in 0 .. n
  BY <1>1
<1>6. f[n] = 0
  BY <1>4, <1>5
<1> QED
  BY ONLY <1>3, <1>6

\* A sequence with one place less and the places moved down is the tail.
LEMMA TailPlaceByPlace ==
    ASSUME NEW a \in Seq(Int), NEW b \in Seq(Int), Len(a) > 0, Len(b) = Len(a) - 1,
           \A i \in 1 .. Len(b) : b[i] = a[i + 1]
    PROVE  b = Tail(a)
OBVIOUS

\* What is counted of the members of a sequence: with one more, and with the first
\* one less.
Counted(sent, by) == [i \in 1 .. Len(sent) |-> by[sent[i]]]

LEMMA CountedSums ==
    ASSUME NEW M, NEW by \in [M -> Nat], NEW sent \in Seq(M)
    PROVE  /\ Total(Counted(sent, by)) \in Nat
           /\ \A i \in 1 .. Len(sent) : by[sent[i]] <= Total(Counted(sent, by))
           /\ \A m \in M : Total(Counted(Append(sent, m), by)) = Total(Counted(sent, by)) + by[m]
           /\ sent # <<>> =>
                Total(Counted(Tail(sent), by)) = Total(Counted(sent, by)) - by[Head(sent)]
           /\ (\A i \in 1 .. Len(sent) : by[sent[i]] = 0) => Total(Counted(sent, by)) = 0
<1> DEFINE n == Len(sent)
<1>1. n \in Nat /\ \A i \in 1 .. n : sent[i] \in M
  OBVIOUS
<1>2. PICK a : a = Counted(sent, by)
  OBVIOUS
<1>3. a \in Seq(Nat) /\ a \in Seq(Int) /\ Len(a) = n /\ \A i \in 1 .. n : a[i] = by[sent[i]]
  <2>1. a = [i \in 1 .. n |-> by[sent[i]]] /\ \A i \in 1 .. n : by[sent[i]] \in Nat
    BY <1>1, <1>2 DEF Counted
  <2> HIDE DEF n
  <2>2. a \in Seq(Nat)
    BY <1>1, <2>1
  <2> QED
    BY <1>1, <2>1, <2>2
<1>4. ASSUME NEW m \in M
      PROVE  Total(Counted(Append(sent, m), by)) = Total(a) + by[m]
  <2>1. PICK b : b = Counted(Append(sent, m), by)
    OBVIOUS
  <2>2. b = [i \in 1 .. n + 1 |-> by[Append(sent, m)[i]]]
    BY <2>1 DEF Counted
  <2>3. \A i \in 1 .. n + 1 : by[Append(sent, m)[i]] = IF i = n + 1 THEN by[m] ELSE by[sent[i]]
    BY <1>1
  <2>4. by[m] \in Int
    OBVIOUS
  <2> HIDE DEF n
  <2>5. b = [i \in 1 .. n + 1 |-> IF i = n + 1 THEN by[m] ELSE a[i]]
    <3>1. \A i \in 1 .. n + 1 : i # n + 1 => by[sent[i]] = a[i]
      BY <1>1, <1>3
    <3>2. \A i \in 1 .. n + 1 :
            by[Append(sent, m)[i]] = IF i = n + 1 THEN by[m] ELSE a[i]
      BY <2>3, <3>1
    <3> QED
      BY <2>2, <3>2
  <2>6. b \in Seq(Int) /\ Len(b) = Len(a) + 1 /\ b[Len(a) + 1] = by[m]
        /\ \A i \in 1 .. Len(a) : b[i] = a[i]
    BY <1>1, <1>3, <2>4, <2>5
  <2>7. b = Append(a, by[m])
    BY <1>3, <2>4, <2>6
  <2> QED
    BY <1>3, <2>1, <2>4, <2>7, TotalAppend
<1>5. ASSUME sent # <<>>
      PROVE  Total(Counted(Tail(sent), by)) = Total(a) - by[Head(sent)]
  <2>1. PICK b : b = Counted(Tail(sent), by)
    OBVIOUS
  <2>2. n > 0 /\ Len(Tail(sent)) = n - 1 /\ Head(sent) = sent[1]
        /\ \A i \in 1 .. n - 1 : Tail(sent)[i] = sent[i + 1]
    BY <1>1, <1>5
  <2>3. b = [i \in 1 .. n - 1 |-> by[Tail(sent)[i]]]
    BY <2>1, <2>2 DEF Counted
  <2> HIDE DEF n
  <2>4. \A i \in 1 .. n - 1 : by[Tail(sent)[i]] = a[i + 1] /\ a[i + 1] \in Int
    BY <1>1, <1>3, <2>2
  <2>5. b = [i \in 1 .. n - 1 |-> a[i + 1]]
    BY <2>3, <2>4
  <2>6. b \in Seq(Int) /\ Len(b) = Len(a) - 1 /\ \A i \in 1 .. Len(b) : b[i] = a[i + 1]
    BY <1>1, <1>3, <2>2, <2>4, <2>5
  <2>7. b = Tail(a) /\ a # <<>> /\ a[1] = by[Head(sent)]
    <3>1. a[1] = by[Head(sent)]
      BY <1>1, <1>3, <2>2
    <3>2. a # <<>> /\ Len(a) > 0
      BY <1>1, <1>3, <2>2
    <3> QED
      BY <1>3, <2>6, <3>1, <3>2, TailPlaceByPlace
  <2> QED
    BY <1>3, <2>1, <2>7, TotalTail
<1>6. Total(a) \in Nat /\ \A i \in DOMAIN a : a[i] <= Total(a)
  BY <1>3, TotalBounds
<1>7. (\A i \in 1 .. n : by[sent[i]] = 0) => Total(a) = 0
  <2> HIDE DEF n
  <2> QED
    BY <1>3, TotalZero
<1> QED
  BY <1>1, <1>2, <1>3, <1>4, <1>5, <1>6, <1>7
----------------------------------------------------------------------------
(* The messages on their way, and what is outstanding.                      *)

Quantities == Nat \cup {Price_INVALID}

OMOrders ==
    [order_id_ : 0 .. MaxOrders, price_ : Prices \cup {Price_INVALID}, qty_ : Nat,
     order_state_ : {"INVALID", "PENDING_NEW", "LIVE", "PENDING_CANCEL", "DEAD"}]

Requests ==
    {r \in [type_ : {"NEW", "CANCEL"}, side_ : Sides, order_id_ : 0 .. MaxOrders,
            price_ : Prices \cup {Price_INVALID}, qty_ : Nat] :
        r.type_ = "NEW" => r.order_id_ > 0 /\ r.price_ \in Prices /\ r.qty_ > 0}

Responses ==
    {r \in [type_ : {"ACCEPTED", "CANCELED", "FILLED", "CANCEL_REJECTED"},
            side_ : Sides \cup {Manager!INVALID_SIDE}, order_id_ : 0 .. MaxOrders,
            price_ : Prices \cup {Price_INVALID},
            exec_qty_ : Quantities, leaves_qty_ : Quantities] :
        /\ r.side_ = Manager!INVALID_SIDE <=> r.type_ = "CANCEL_REJECTED"
        /\ r.type_ = "FILLED" => r.exec_qty_ \in Nat \ {0} /\ r.price_ \in Prices}

OpenOrders ==
    [side_ : Sides, order_id_ : 1 .. MaxOrders, price_ : Prices, qty_ : Nat \ {0}]

AskedBy(r, s) == IF r.type_ = "NEW" /\ r.side_ = s THEN r.qty_ ELSE 0
ExecutedBy(r, s) == IF r.type_ = "FILLED" /\ r.side_ = s THEN r.exec_qty_ ELSE 0

\* What is asked for grows with a request sent, and shrinks with one taken.
LEMMA AskedSums ==
    ASSUME NEW s, NEW sent \in Seq(Requests)
    PROVE  /\ Asked(sent, s) \in Nat
           /\ \A i \in 1 .. Len(sent) : AskedBy(sent[i], s) <= Asked(sent, s)
           /\ \A r \in Requests : Asked(Append(sent, r), s) = Asked(sent, s) + AskedBy(r, s)
           /\ sent # <<>> => Asked(Tail(sent), s) = Asked(sent, s) - AskedBy(Head(sent), s)
           /\ (\A i \in 1 .. Len(sent) : AskedBy(sent[i], s) = 0) => Asked(sent, s) = 0
<1>1. PICK by : by = [r \in Requests |-> AskedBy(r, s)]
  OBVIOUS
<1>2. by \in [Requests -> Nat]
  BY <1>1 DEF AskedBy, Requests
<1>3. ASSUME NEW m \in Seq(Requests) PROVE Asked(m, s) = Total(Counted(m, by))
  <2>1. \A i \in 1 .. Len(m) : m[i] \in Requests
    OBVIOUS
  <2>2. \A i \in 1 .. Len(m) : by[m[i]] = AskedBy(m[i], s)
    BY <1>1, <2>1
  <2>3. DOMAIN m = 1 .. Len(m)
    OBVIOUS
  <2>4. [i \in DOMAIN m |->
            IF m[i].type_ = "NEW" /\ m[i].side_ = s THEN m[i].qty_ ELSE 0] =
        [i \in 1 .. Len(m) |-> by[m[i]]]
    BY <2>2, <2>3 DEF AskedBy
  <2> QED
    BY <2>4 DEF Asked, Counted
<1>4. \A i \in 1 .. Len(sent) : sent[i] \in Requests
  OBVIOUS
<1>5. /\ \A r \in Requests : Append(sent, r) \in Seq(Requests)
      /\ sent # <<>> => Tail(sent) \in Seq(Requests) /\ Head(sent) \in Requests
  OBVIOUS
<1>6. \A r \in Requests : by[r] = AskedBy(r, s)
  BY <1>1
<1> QED
  BY <1>2, <1>3, <1>4, <1>5, <1>6, CountedSums

\* What has been executed grows with a response sent, and shrinks with one handled.
LEMMA ExecutedSums ==
    ASSUME NEW s, NEW sent \in Seq(Responses)
    PROVE  /\ Executed(sent, s) \in Nat
           /\ \A i \in 1 .. Len(sent) : ExecutedBy(sent[i], s) <= Executed(sent, s)
           /\ \A r \in Responses :
                 Executed(Append(sent, r), s) = Executed(sent, s) + ExecutedBy(r, s)
           /\ sent # <<>> =>
                 Executed(Tail(sent), s) = Executed(sent, s) - ExecutedBy(Head(sent), s)
           /\ (\A i \in 1 .. Len(sent) : ExecutedBy(sent[i], s) = 0) => Executed(sent, s) = 0
<1>1. PICK by : by = [r \in Responses |-> ExecutedBy(r, s)]
  OBVIOUS
<1>2. by \in [Responses -> Nat]
  BY <1>1 DEF ExecutedBy, Responses
<1>3. ASSUME NEW m \in Seq(Responses) PROVE Executed(m, s) = Total(Counted(m, by))
  <2>1. \A i \in 1 .. Len(m) : m[i] \in Responses
    OBVIOUS
  <2>2. \A i \in 1 .. Len(m) : by[m[i]] = ExecutedBy(m[i], s)
    BY <1>1, <2>1
  <2>3. DOMAIN m = 1 .. Len(m)
    OBVIOUS
  <2>4. [i \in DOMAIN m |->
            IF m[i].type_ = "FILLED" /\ m[i].side_ = s THEN m[i].exec_qty_ ELSE 0] =
        [i \in 1 .. Len(m) |-> by[m[i]]]
    BY <2>2, <2>3 DEF ExecutedBy
  <2> QED
    BY <2>4 DEF Executed, Counted
<1>4. \A i \in 1 .. Len(sent) : sent[i] \in Responses
  OBVIOUS
<1>5. /\ \A r \in Responses : Append(sent, r) \in Seq(Responses)
      /\ sent # <<>> => Tail(sent) \in Seq(Responses) /\ Head(sent) \in Responses
  OBVIOUS
<1>6. \A r \in Responses : by[r] = ExecutedBy(r, s)
  BY <1>1
<1> QED
  BY <1>2, <1>3, <1>4, <1>5, <1>6, CountedSums
----------------------------------------------------------------------------
(* The invariant.  Per side there is one order: it is asked for, or open in *)
(* the book, and what is heard of it begins with its acceptance and ends    *)
(* with its cancelation.                                                    *)

Left(sent, book, answers, s) == Asked(sent, s) + OpenQty(book, s) + Executed(answers, s)

Typed(os, nid, rq, op, rs) ==
    /\ os \in [Sides \cup {Manager!INVALID_SIDE} -> OMOrders]
    /\ os[Manager!INVALID_SIDE] = Manager!NoOMOrder
    /\ nid \in 1 .. MaxOrders + 1
    /\ rq \in Seq(Requests) /\ rs \in Seq(Responses) /\ op \subseteq OpenOrders

\* The sides' orders have numbers of their own.
Numbered(os, nid) ==
    /\ \A s \in Sides : os[s].order_id_ < nid
    /\ os[BUY].order_id_ = os[SELL].order_id_ => os[BUY].order_id_ = 0

IsNew(r, s) == r.type_ = "NEW" /\ r.side_ = s
Silent(rs, s) == \A i \in 1 .. Len(rs) : rs[i].side_ # s

\* An order asked for is the manager's and nothing is known of it yet.
AskedOnce(o, rq, op, rs, s) ==
    \A i \in 1 .. Len(rq) : IsNew(rq[i], s) =>
        /\ o.order_state_ = "PENDING_NEW" /\ rq[i].order_id_ = o.order_id_
        /\ OpenOn(op, s) = {} /\ Silent(rs, s)
        /\ \A j \in 1 .. Len(rq) : IsNew(rq[j], s) => j = i

OpenOnce(o, op, s) ==
    \A p \in op : p.side_ = s =>
        /\ p.order_id_ = o.order_id_
        /\ \A q \in op : q.side_ = s => p = q

\* Its acceptance is the first that is heard of it.
AcceptedFirst(o, rs, s) ==
    \A i \in 1 .. Len(rs) : rs[i].type_ = "ACCEPTED" /\ rs[i].side_ = s =>
        /\ o.order_state_ = "PENDING_NEW"
        /\ \A j \in 1 .. Len(rs) : j < i => rs[j].side_ # s

\* Its cancelation is the last.
CanceledLast(op, rs, s) ==
    \A i \in 1 .. Len(rs) : rs[i].type_ = "CANCELED" /\ rs[i].side_ = s =>
        /\ OpenOn(op, s) = {}
        /\ \A j \in 1 .. Len(rs) : i < j => rs[j].side_ # s

CanceledIn(rs, s) == \E i \in 1 .. Len(rs) : rs[i].type_ = "CANCELED" /\ rs[i].side_ = s

Agrees(o, rq, op, rs, s) ==
    IF Manager!Idle(o) THEN Left(rq, op, rs, s) = 0 /\ ~CanceledIn(rs, s)
    ELSE /\ o.qty_ > 0
         /\ IF CanceledIn(rs, s) THEN Left(rq, op, rs, s) < o.qty_
            ELSE Left(rq, op, rs, s) = o.qty_

OneOrder(o, rq, op, rs, s) ==
    /\ AskedOnce(o, rq, op, rs, s)
    /\ OpenOnce(o, op, s)
    /\ AcceptedFirst(o, rs, s)
    /\ CanceledLast(op, rs, s)
    /\ Agrees(o, rq, op, rs, s)

Sound(os, nid, rq, op, rs) ==
    /\ Typed(os, nid, rq, op, rs)
    /\ Numbered(os, nid)
    /\ \A s \in Sides : OneOrder(os[s], rq, op, rs, s)

Limited(position, rq, op, rs) ==
    /\ position + Left(rq, op, rs, BUY) <= max_position_
    /\ position - Left(rq, op, rs, SELL) >= -max_position_

IInv ==
    /\ Sound(orders, next_order_id_, requests, open, responses)
    /\ position_ \in Int /\ volume_ \in Nat
    /\ Limited(position_, requests, open, responses)
----------------------------------------------------------------------------
LEMMA SidesAre ==
    /\ Sides = {1, -1} /\ BUY = 1 /\ SELL = -1 /\ BUY \in Sides /\ SELL \in Sides
    /\ BUY # SELL /\ Manager!INVALID_SIDE = 0 /\ 0 \notin Sides
BY DEF Sides, BUY, SELL, Manager!Sides, Manager!BUY, Manager!SELL, Manager!INVALID_SIDE

\* What is open on a side.
LEMMA OpenQtyIs ==
    ASSUME NEW s, NEW op, op \subseteq OpenOrders, \A p, q \in op : p.side_ = s /\ q.side_ = s => p = q
    PROVE  /\ OpenQty(op, s) \in Nat
           /\ OpenOn(op, s) = {} => OpenQty(op, s) = 0
           /\ \A p \in op : p.side_ = s => OpenQty(op, s) = p.qty_ /\ p.qty_ \in Nat \ {0}
<1>1. \A p \in op : p.qty_ \in Nat \ {0}
  BY DEF OpenOrders
<1>2. CASE OpenOn(op, s) = {}
  BY <1>2 DEF OpenQty, OpenOn
<1>3. CASE OpenOn(op, s) # {}
  <2>1. PICK p \in OpenOn(op, s) : p = CHOOSE o \in OpenOn(op, s) : TRUE
    BY <1>3
  <2>2. OpenQty(op, s) = p.qty_
    BY <1>3, <2>1 DEF OpenQty
  <2> QED
    BY <1>1, <1>3, <2>1, <2>2 DEF OpenOn
<1> QED
  BY <1>2, <1>3

\* What is left of an order is a natural number, and no part of it is more.
LEMMA LeftIs ==
    ASSUME NEW os, NEW nid, NEW rq, NEW op, NEW rs, NEW s \in Sides,
           Sound(os, nid, rq, op, rs)
    PROVE  /\ Asked(rq, s) \in Nat /\ OpenQty(op, s) \in Nat /\ Executed(rs, s) \in Nat
           /\ Left(rq, op, rs, s) = Asked(rq, s) + OpenQty(op, s) + Executed(rs, s)
           /\ Left(rq, op, rs, s) \in Nat
<1>1. rq \in Seq(Requests) /\ rs \in Seq(Responses) /\ op \subseteq OpenOrders
      /\ \A p, q \in op : p.side_ = s /\ q.side_ = s => p = q
  BY DEF Sound, Typed, OneOrder, OpenOnce
<1>2. Asked(rq, s) \in Nat
  BY <1>1, AskedSums
<1>3. Executed(rs, s) \in Nat
  BY <1>1, ExecutedSums
<1>4. OpenQty(op, s) \in Nat
  BY <1>1, OpenQtyIs
<1> QED
  BY <1>2, <1>3, <1>4 DEF Left

\* Of an order that is dead there is nothing, anywhere.
LEMMA NothingOfTheDead ==
    ASSUME NEW os, NEW nid, NEW rq, NEW op, NEW rs, NEW s \in Sides,
           Sound(os, nid, rq, op, rs), Manager!Idle(os[s])
    PROVE  /\ \A i \in 1 .. Len(rq) : ~IsNew(rq[i], s)
           /\ OpenOn(op, s) = {}
           /\ Silent(rs, s)
           /\ Left(rq, op, rs, s) = 0
<1>1. OneOrder(os[s], rq, op, rs, s) /\ os[s].order_state_ # "PENDING_NEW"
  BY DEF Sound, Manager!Idle
<1>2. \A i \in 1 .. Len(rq) : ~IsNew(rq[i], s)
  BY <1>1 DEF OneOrder, AskedOnce
<1>3. Left(rq, op, rs, s) = 0 /\ ~CanceledIn(rs, s)
  BY <1>1 DEF OneOrder, Agrees
<1>4. OpenQty(op, s) = 0 /\ Executed(rs, s) = 0
  BY <1>3, LeftIs
<1>5. OpenOn(op, s) = {}
  <2>0. op \subseteq OpenOrders /\ \A p, q \in op : p.side_ = s /\ q.side_ = s => p = q
    BY <1>1 DEF Sound, Typed, OneOrder, OpenOnce
  <2>1. \A p \in op : p.side_ = s => OpenQty(op, s) = p.qty_ /\ p.qty_ \in Nat \ {0}
    BY <2>0, OpenQtyIs
  <2>2. ASSUME NEW p \in op, p.side_ = s PROVE FALSE
    BY <1>4, <2>1, <2>2
  <2> QED
    BY <2>2 DEF OpenOn
<1>6. rs \in Seq(Responses)
  BY DEF Sound, Typed
<1>7. \A i \in 1 .. Len(rs) : rs[i].side_ # s
  <2> SUFFICES ASSUME NEW i \in 1 .. Len(rs), rs[i].side_ = s PROVE FALSE
    OBVIOUS
  <2>1. rs[i] \in Responses
    BY <1>6
  <2>2. rs[i].type_ # "CANCELED" /\ rs[i].type_ # "ACCEPTED"
    BY <1>1, <1>3 DEF CanceledIn, OneOrder, AcceptedFirst
  <2>3. rs[i].type_ # "CANCEL_REJECTED"
    BY <2>1, SidesAre DEF Responses
  <2>4. rs[i].type_ = "FILLED" /\ rs[i].exec_qty_ \in Nat \ {0}
    BY <2>1, <2>2, <2>3 DEF Responses
  <2>5. ExecutedBy(rs[i], s) <= Executed(rs, s)
    BY <1>6, ExecutedSums
  <2> QED
    BY <1>4, <2>4, <2>5 DEF ExecutedBy
<1> QED
  BY <1>2, <1>3, <1>5, <1>7 DEF Silent
----------------------------------------------------------------------------
(* The manager's steps.                                                     *)

Now(os, nid, e, rq) ==
    [orders |-> os, next_order_id_ |-> nid, exited |-> e, requests |-> rq]

NewOM(nid, price, qty) ==
    [order_id_ |-> nid, price_ |-> price, qty_ |-> qty, order_state_ |-> "PENDING_NEW"]

NewRequest(s, nid, price, qty) ==
    [type_ |-> "NEW", side_ |-> s, order_id_ |-> nid, price_ |-> price, qty_ |-> qty]

Put(os, s, o) == [os EXCEPT ![s] = o]

Canceling(o) == [o EXCEPT !.order_state_ = "PENDING_CANCEL"]

CancelRequest(s, o) ==
    [type_ |-> "CANCEL", side_ |-> s, order_id_ |-> o.order_id_,
     price_ |-> o.price_, qty_ |-> o.qty_]

\* What a new order asks for is all that is left to be done on its side.
LEMMA NewOrderLeft ==
    ASSUME NEW os, NEW nid, NEW rq, NEW op, NEW rs, NEW s \in Sides,
           Sound(os, nid, rq, op, rs), Manager!Idle(os[s]), nid <= MaxOrders,
           NEW price \in Prices, NEW qty \in Clips, NEW t \in Sides
    PROVE  Left(Append(rq, NewRequest(s, nid, price, qty)), op, rs, t) =
             IF t = s THEN qty ELSE Left(rq, op, rs, t)
<1>1. PICK r : r = NewRequest(s, nid, price, qty)
  OBVIOUS
<1>2. nid \in 1 .. MaxOrders /\ rq \in Seq(Requests) /\ qty \in Nat \ {0}
  BY StrategyAssumption DEF Sound, Typed
<1>3. r \in Requests /\ r.type_ = "NEW" /\ r.side_ = s /\ r.qty_ = qty
  BY <1>1, <1>2 DEF Requests, NewRequest
<1>4. Left(Append(rq, r), op, rs, t) = IF t = s THEN qty ELSE Left(rq, op, rs, t)
  <2>1. Asked(Append(rq, r), t) = Asked(rq, t) + AskedBy(r, t)
    BY <1>2, <1>3, AskedSums
  <2>2. AskedBy(r, t) = IF t = s THEN qty ELSE 0
    BY <1>3 DEF AskedBy
  <2>3. Asked(rq, t) \in Nat /\ OpenQty(op, t) \in Nat /\ Executed(rs, t) \in Nat
    BY LeftIs
  <2>4. t = s => Left(rq, op, rs, t) = 0
    BY NothingOfTheDead
  <2> QED
    BY <1>2, <2>1, <2>2, <2>3, <2>4 DEF Left
<1> QED
  BY <1>1, <1>4

\* A new order: nothing is left of the one before.
LEMMA NewOrderSound ==
    ASSUME NEW os, NEW nid, NEW rq, NEW op, NEW rs, NEW s \in Sides,
           Sound(os, nid, rq, op, rs), Manager!Idle(os[s]), nid <= MaxOrders,
           NEW price \in Prices, NEW qty \in Clips
    PROVE  Sound(Put(os, s, NewOM(nid, price, qty)), nid + 1,
                 Append(rq, NewRequest(s, nid, price, qty)), op, rs)
<1> PICK o : o = NewOM(nid, price, qty)
  OBVIOUS
<1> PICK r : r = NewRequest(s, nid, price, qty)
  OBVIOUS
<1> /\ o = [order_id_ |-> nid, price_ |-> price, qty_ |-> qty, order_state_ |-> "PENDING_NEW"]
    /\ r = [type_ |-> "NEW", side_ |-> s, order_id_ |-> nid, price_ |-> price, qty_ |-> qty]
  BY DEF NewOM, NewRequest
<1>1. PICK os2 : os2 = Put(os, s, o) /\ os2 = [os EXCEPT ![s] = o]
  BY DEF Put
<1>2. PICK rq2 : rq2 = Append(rq, r)
  OBVIOUS
<1>3. qty \in Nat \ {0} /\ nid \in 1 .. MaxOrders /\ MaxOrders \in Nat
  BY StrategyAssumption DEF Sound, Typed
<1>4. o \in OMOrders /\ r \in Requests
  BY <1>3 DEF OMOrders, Requests
<1>5. Typed(os, nid, rq, op, rs) /\ Numbered(os, nid)
      /\ \A t \in Sides : OneOrder(os[t], rq, op, rs, t)
  BY DEF Sound
<1>6. os2[s] = o /\ (\A t \in Sides \ {s} : os2[t] = os[t])
  BY <1>1, <1>5 DEF Typed
<1>7. /\ rq \in Seq(Requests) /\ Len(rq) \in Nat /\ Len(rq2) = Len(rq) + 1
      /\ \A i \in 1 .. Len(rq) : rq2[i] = rq[i]
      /\ rq2[Len(rq) + 1] = r
  BY <1>2, <1>4, <1>5 DEF Typed
<1>8. Typed(os2, nid + 1, rq2, op, rs)
  <2>1. os2 \in [Sides \cup {Manager!INVALID_SIDE} -> OMOrders]
        /\ os2[Manager!INVALID_SIDE] = Manager!NoOMOrder
    <3>1. os \in [Sides \cup {Manager!INVALID_SIDE} -> OMOrders]
          /\ os[Manager!INVALID_SIDE] = Manager!NoOMOrder /\ s # Manager!INVALID_SIDE
      BY <1>5, SidesAre DEF Typed
    <3>2. os2 = [os EXCEPT ![s] = o]
      BY <1>1
    <3> QED
      BY ONLY <1>4, <3>1, <3>2
  <2>2. rq2 \in Seq(Requests)
    BY ONLY <1>2, <1>4, <1>7
  <2> QED
    BY <1>3, <1>5, <2>1, <2>2 DEF Typed
<1>9. Numbered(os2, nid + 1)
  <2>1. \A t \in Sides : os[t].order_id_ < nid /\ os[t].order_id_ \in Nat
    BY <1>5 DEF Numbered, Typed, OMOrders
  <2>2. os2[s].order_id_ = nid /\ \A t \in Sides \ {s} : os2[t].order_id_ < nid
    BY <1>6, <2>1
  <2>3. \A t \in Sides : os2[t].order_id_ < nid + 1
    BY <1>3, <1>6, <2>1, <2>2
  <2>4. os2[BUY].order_id_ # os2[SELL].order_id_
    BY <1>3, <2>1, <2>2, SidesAre
  <2> QED
    BY <2>3, <2>4 DEF Numbered
<1>10. /\ \A i \in 1 .. Len(rq) : ~IsNew(rq[i], s)
       /\ OpenOn(op, s) = {} /\ Silent(rs, s)
       /\ Left(rq, op, rs, s) = 0
  BY NothingOfTheDead
<1>11. ASSUME NEW t \in Sides
       PROVE  Left(rq2, op, rs, t) = Left(rq, op, rs, t) + (IF t = s THEN qty ELSE 0)
  <2>1. Asked(rq2, t) = Asked(rq, t) + AskedBy(r, t)
    BY <1>2, <1>4, <1>7, AskedSums
  <2>2. AskedBy(r, t) = IF t = s THEN qty ELSE 0
    BY DEF AskedBy
  <2>3. Asked(rq, t) \in Nat /\ OpenQty(op, t) \in Nat /\ Executed(rs, t) \in Nat
    BY LeftIs
  <2> QED
    BY <1>3, <2>1, <2>2, <2>3 DEF Left
<1>12. ASSUME NEW t \in Sides PROVE OneOrder(os2[t], rq2, op, rs, t)
  <2>0. \A i \in 1 .. Len(rq2) : IsNew(rq2[i], t) =>
            (t = s /\ i = Len(rq) + 1) \/ (t # s /\ i \in 1 .. Len(rq) /\ IsNew(rq[i], t))
    <3> SUFFICES ASSUME NEW i \in 1 .. Len(rq2), IsNew(rq2[i], t)
                 PROVE  (t = s /\ i = Len(rq) + 1) \/ (t # s /\ i \in 1 .. Len(rq) /\ IsNew(rq[i], t))
      OBVIOUS
    <3>1. CASE i = Len(rq) + 1
      BY <1>7, <3>1 DEF IsNew
    <3>2. CASE i \in 1 .. Len(rq)
      BY <1>7, <1>10, <3>2
    <3> QED
      BY <1>7, <3>1, <3>2
  <2>1. CASE t = s
    <3>1. AskedOnce(o, rq2, op, rs, s)
      BY <1>7, <1>10, <2>0, <2>1 DEF AskedOnce
    <3>2. OpenOnce(o, op, s) /\ AcceptedFirst(o, rs, s) /\ CanceledLast(op, rs, s)
      BY <1>10 DEF OpenOnce, OpenOn, AcceptedFirst, CanceledLast, Silent
    <3>3. ~CanceledIn(rs, s)
      BY <1>10 DEF CanceledIn, Silent
    <3>4. Left(rq2, op, rs, s) = qty
      BY <1>3, <1>10, <1>11
    <3>5. Agrees(o, rq2, op, rs, s)
      BY <1>3, <3>3, <3>4 DEF Agrees, Manager!Idle
    <3> QED
      BY <1>6, <2>1, <3>1, <3>2, <3>5 DEF OneOrder
  <2>2. CASE t # s
    <3>1. OneOrder(os[t], rq, op, rs, t) /\ os2[t] = os[t]
      BY <1>5, <1>6, <2>2
    <3>2. AskedOnce(os[t], rq2, op, rs, t)
      BY <1>7, <2>0, <2>2, <3>1 DEF OneOrder, AskedOnce
    <3>3. Left(rq2, op, rs, t) = Left(rq, op, rs, t)
      BY <1>11, <2>2, LeftIs
    <3> QED
      BY <3>1, <3>2, <3>3 DEF OneOrder, Agrees
  <2> QED
    BY <2>1, <2>2
<1> QED
  BY <1>1, <1>2, <1>8, <1>9, <1>12 DEF Sound

\* A cancel, of an order that lives: it was accepted.
LEMMA CancelOrderSound ==
    ASSUME NEW os, NEW nid, NEW rq, NEW op, NEW rs, NEW s \in Sides,
           Sound(os, nid, rq, op, rs), os[s].order_state_ = "LIVE"
    PROVE  /\ Sound(Put(os, s, Canceling(os[s])), nid,
                    Append(rq, CancelRequest(s, os[s])), op, rs)
           /\ \A t \in Sides :
                 Left(Append(rq, CancelRequest(s, os[s])), op, rs, t) = Left(rq, op, rs, t)
<1> PICK o : o = Canceling(os[s])
  OBVIOUS
<1> PICK r : r = CancelRequest(s, os[s])
  OBVIOUS
<1> /\ o = [os[s] EXCEPT !.order_state_ = "PENDING_CANCEL"]
    /\ r = [type_ |-> "CANCEL", side_ |-> s, order_id_ |-> os[s].order_id_,
            price_ |-> os[s].price_, qty_ |-> os[s].qty_]
  BY DEF Canceling, CancelRequest
<1>1. PICK os2 : os2 = Put(os, s, o) /\ os2 = [os EXCEPT ![s] = o]
  BY DEF Put
<1>2. PICK rq2 : rq2 = Append(rq, r)
  OBVIOUS
<1>3. Typed(os, nid, rq, op, rs) /\ Numbered(os, nid)
      /\ \A t \in Sides : OneOrder(os[t], rq, op, rs, t)
  BY DEF Sound
<1>4. os[s] \in OMOrders
  BY <1>3 DEF Typed
<1>5. /\ o \in OMOrders /\ r \in Requests
      /\ o.order_id_ = os[s].order_id_ /\ o.qty_ = os[s].qty_ /\ o.order_state_ = "PENDING_CANCEL"
  BY <1>4 DEF OMOrders, Requests
<1>6. os2[s] = o /\ (\A t \in Sides \ {s} : os2[t] = os[t])
      /\ \A t \in Sides : os2[t].order_id_ = os[t].order_id_ /\ os2[t].qty_ = os[t].qty_
  BY <1>1, <1>3, <1>5 DEF Typed
<1>7. /\ rq \in Seq(Requests) /\ Len(rq) \in Nat /\ Len(rq2) = Len(rq) + 1
      /\ \A i \in 1 .. Len(rq) : rq2[i] = rq[i]
      /\ rq2[Len(rq) + 1] = r
  BY <1>2, <1>5, <1>3 DEF Typed
<1>8. Typed(os2, nid, rq2, op, rs)
  <2>1. os2 \in [Sides \cup {Manager!INVALID_SIDE} -> OMOrders]
        /\ os2[Manager!INVALID_SIDE] = Manager!NoOMOrder
    <3>1. os \in [Sides \cup {Manager!INVALID_SIDE} -> OMOrders]
          /\ os[Manager!INVALID_SIDE] = Manager!NoOMOrder
      BY <1>3 DEF Typed
    <3>2. os2 = [os EXCEPT ![s] = o] /\ o \in OMOrders /\ s # Manager!INVALID_SIDE
      BY <1>1, <1>5, SidesAre
    <3> QED
      BY ONLY <3>1, <3>2
  <2>2. rq2 \in Seq(Requests)
    BY ONLY <1>2, <1>5, <1>7
  <2> QED
    BY <1>3, <2>1, <2>2 DEF Typed
<1>9. Numbered(os2, nid)
  BY <1>3, <1>6, SidesAre DEF Numbered
<1>10. ASSUME NEW t \in Sides PROVE Left(rq2, op, rs, t) = Left(rq, op, rs, t)
  <2>1. Asked(rq2, t) = Asked(rq, t) + AskedBy(r, t) /\ AskedBy(r, t) = 0
    BY <1>2, <1>5, <1>7, AskedSums DEF AskedBy
  <2> QED
    BY <2>1, LeftIs DEF Left
<1>11. ASSUME NEW t \in Sides PROVE OneOrder(os2[t], rq2, op, rs, t)
  <2>0. \A i \in 1 .. Len(rq2) : IsNew(rq2[i], t) => i \in 1 .. Len(rq) /\ IsNew(rq[i], t)
    BY <1>7 DEF IsNew
  <2>1. OneOrder(os[t], rq, op, rs, t)
    BY <1>3
  <2>2. OpenOnce(os2[t], op, t) /\ CanceledLast(op, rs, t)
    BY <1>6, <2>1 DEF OneOrder, OpenOnce
  <2>3. os2[t].order_state_ = "PENDING_NEW" <=> os[t].order_state_ = "PENDING_NEW"
    BY <1>5, <1>6
  <2>4. AskedOnce(os2[t], rq2, op, rs, t) /\ AcceptedFirst(os2[t], rs, t)
    BY <1>6, <1>7, <2>0, <2>1, <2>3 DEF OneOrder, AskedOnce, AcceptedFirst
  <2>5. Manager!Idle(os2[t]) <=> Manager!Idle(os[t])
    BY <1>5, <1>6 DEF Manager!Idle
  <2>6. Agrees(os2[t], rq2, op, rs, t)
    BY <1>6, <1>10, <2>1, <2>5 DEF OneOrder, Agrees
  <2> QED
    BY <2>2, <2>4, <2>6 DEF OneOrder
<1> QED
  BY <1>1, <1>2, <1>8, <1>9, <1>10, <1>11 DEF Sound
----------------------------------------------------------------------------
(* The exchange's steps.                                                    *)

\* A new order is taken: what was asked for is open, and its acceptance is the
OrderOf(r) ==
    [side_ |-> r.side_, order_id_ |-> r.order_id_, price_ |-> r.price_, qty_ |-> r.qty_]

\* first that is heard of it.
LEMMA TakeNewSound ==
    ASSUME NEW os, NEW nid, NEW rq, NEW op, NEW rs,
           Sound(os, nid, rq, op, rs), rq # <<>>, Head(rq).type_ = "NEW",
           NEW a \in Responses, a.type_ = "ACCEPTED", a.side_ = Head(rq).side_
    PROVE  /\ Sound(os, nid, Tail(rq), op \cup {OrderOf(Head(rq))}, Append(rs, a))
           /\ \A t \in Sides :
                 Left(Tail(rq), op \cup {OrderOf(Head(rq))}, Append(rs, a), t) =
                   Left(rq, op, rs, t)
<1> PICK p : p = OrderOf(Head(rq))
  OBVIOUS
<1> p = [side_ |-> Head(rq).side_, order_id_ |-> Head(rq).order_id_,
         price_ |-> Head(rq).price_, qty_ |-> Head(rq).qty_]
  BY DEF OrderOf
<1>1. PICK rq2 : rq2 = Tail(rq)
  OBVIOUS
<1>2. PICK op2 : op2 = op \cup {p}
  OBVIOUS
<1>3. PICK rs2 : rs2 = Append(rs, a)
  OBVIOUS
<1>4. PICK s : s = p.side_
  OBVIOUS
<1>5. Typed(os, nid, rq, op, rs) /\ Numbered(os, nid)
      /\ \A t \in Sides : OneOrder(os[t], rq, op, rs, t)
  BY DEF Sound
<1>6. /\ rq \in Seq(Requests) /\ Len(rq) \in Nat \ {0} /\ Head(rq) = rq[1]
      /\ rq2 \in Seq(Requests) /\ Len(rq2) = Len(rq) - 1
      /\ \A i \in 1 .. Len(rq2) : rq2[i] = rq[i + 1] /\ i + 1 \in 1 .. Len(rq)
  BY <1>1, <1>5 DEF Typed
<1>7. rq[1] \in Requests /\ rq[1].type_ = "NEW" /\ 1 \in 1 .. Len(rq)
  BY <1>6
<1>8. /\ p \in OpenOrders /\ s \in Sides
      /\ p.side_ = s /\ p.qty_ = rq[1].qty_ /\ p.order_id_ = rq[1].order_id_
      /\ IsNew(rq[1], s)
  BY <1>4, <1>6, <1>7 DEF Requests, OpenOrders, IsNew
<1>9. /\ rs \in Seq(Responses) /\ Len(rs) \in Nat /\ rs2 \in Seq(Responses)
      /\ Len(rs2) = Len(rs) + 1 /\ rs2[Len(rs) + 1] = a
      /\ \A i \in 1 .. Len(rs) : rs2[i] = rs[i]
  BY <1>3, <1>5 DEF Typed
<1>10. Typed(os, nid, rq2, op2, rs2)
  BY <1>2, <1>5, <1>6, <1>8, <1>9 DEF Typed
<1>11. /\ os[s].order_state_ = "PENDING_NEW" /\ rq[1].order_id_ = os[s].order_id_
       /\ OpenOn(op, s) = {} /\ Silent(rs, s)
       /\ \A j \in 1 .. Len(rq) : IsNew(rq[j], s) => j = 1
  BY <1>5, <1>7, <1>8 DEF OneOrder, AskedOnce
<1>12. \A t \in Sides : \A q \in op2 :
          q.side_ = t => IF t = s THEN q = p ELSE q \in op
  BY <1>2, <1>8, <1>11 DEF OpenOn
<1>13. ASSUME NEW t \in Sides PROVE Left(rq2, op2, rs2, t) = Left(rq, op, rs, t)
  <2>1. Asked(rq2, t) = Asked(rq, t) - AskedBy(rq[1], t)
    BY <1>1, <1>6, AskedSums
  <2>2. AskedBy(rq[1], t) = IF t = s THEN p.qty_ ELSE 0
    BY <1>7, <1>8 DEF AskedBy, IsNew
  <2>3. Executed(rs2, t) = Executed(rs, t) + ExecutedBy(a, t) /\ ExecutedBy(a, t) = 0
    BY <1>3, <1>9, ExecutedSums DEF ExecutedBy
  <2>4. Asked(rq, t) \in Nat /\ OpenQty(op, t) \in Nat /\ Executed(rs, t) \in Nat
    BY LeftIs
  <2>5. OpenQty(op2, t) = IF t = s THEN p.qty_ ELSE OpenQty(op, t)
    <3>1. CASE t = s
      <4>1. op2 \subseteq OpenOrders /\ p \in op2
            /\ \A x, y \in op2 : x.side_ = t /\ y.side_ = t => x = y
        BY <1>2, <1>10, <1>12, <3>1 DEF Typed
      <4> QED
        BY <1>8, <3>1, <4>1, OpenQtyIs
    <3>2. CASE t # s
      <4>1. OpenOn(op2, t) = OpenOn(op, t)
        BY <1>2, <1>12, <3>2 DEF OpenOn
      <4> QED
        BY <3>2, <4>1 DEF OpenQty
    <3> QED
      BY <3>1, <3>2
  <2>6. p.qty_ \in Nat
    BY <1>8 DEF OpenOrders
  <2>7. t = s => OpenQty(op, t) = 0
    BY <1>11 DEF OpenQty
  <2>8. Asked(rq2, t) + OpenQty(op2, t) + Executed(rs2, t) =
            Asked(rq, t) + OpenQty(op, t) + Executed(rs, t)
    BY <2>1, <2>2, <2>3, <2>4, <2>5, <2>6, <2>7
  <2> QED
    BY <2>8 DEF Left
<1>14. ASSUME NEW t \in Sides PROVE OneOrder(os[t], rq2, op2, rs2, t)
  <2>1. OneOrder(os[t], rq, op, rs, t)
    BY <1>5
  <2>2. \A i \in 1 .. Len(rq2) : IsNew(rq2[i], t) => t # s /\ IsNew(rq[i + 1], t)
    BY <1>6, <1>11
  <2>3. t # s => OpenOn(op2, t) = OpenOn(op, t)
    BY <1>2, <1>12 DEF OpenOn
  <2>4. t # s => (Silent(rs, t) => Silent(rs2, t))
    BY <1>8, <1>9 DEF Silent
  <2>5. AskedOnce(os[t], rq2, op2, rs2, t)
    <3> SUFFICES ASSUME NEW i \in 1 .. Len(rq2), IsNew(rq2[i], t)
                 PROVE  /\ os[t].order_state_ = "PENDING_NEW"
                        /\ rq2[i].order_id_ = os[t].order_id_
                        /\ OpenOn(op2, t) = {} /\ Silent(rs2, t)
                        /\ \A j \in 1 .. Len(rq2) : IsNew(rq2[j], t) => j = i
      BY DEF AskedOnce
    <3>1. t # s /\ IsNew(rq[i + 1], t) /\ rq2[i] = rq[i + 1] /\ i + 1 \in 1 .. Len(rq)
      BY <1>6, <2>2
    <3>2. /\ os[t].order_state_ = "PENDING_NEW" /\ rq[i + 1].order_id_ = os[t].order_id_
          /\ OpenOn(op, t) = {} /\ Silent(rs, t)
          /\ \A j \in 1 .. Len(rq) : IsNew(rq[j], t) => j = i + 1
      BY <2>1, <3>1 DEF OneOrder, AskedOnce
    <3>3. \A j \in 1 .. Len(rq2) : IsNew(rq2[j], t) => j = i
      BY <1>6, <2>2, <3>2
    <3> QED
      BY <2>3, <2>4, <3>1, <3>2, <3>3
  <2>6. OpenOnce(os[t], op2, t)
    BY <1>8, <1>11, <1>12, <2>1 DEF OneOrder, OpenOnce
  <2>7. AcceptedFirst(os[t], rs2, t)
    <3> SUFFICES ASSUME NEW i \in 1 .. Len(rs2), rs2[i].type_ = "ACCEPTED", rs2[i].side_ = t
                 PROVE  /\ os[t].order_state_ = "PENDING_NEW"
                        /\ \A j \in 1 .. Len(rs2) : j < i => rs2[j].side_ # t
      BY DEF AcceptedFirst
    <3>1. CASE i = Len(rs) + 1
      BY <1>8, <1>9, <1>11, <3>1 DEF Silent
    <3>2. CASE i \in 1 .. Len(rs)
      BY <1>9, <2>1, <3>2 DEF OneOrder, AcceptedFirst
    <3> QED
      BY <1>9, <3>1, <3>2
  <2>8. CanceledLast(op2, rs2, t)
    <3> SUFFICES ASSUME NEW i \in 1 .. Len(rs2), rs2[i].type_ = "CANCELED", rs2[i].side_ = t
                 PROVE  /\ OpenOn(op2, t) = {}
                        /\ \A j \in 1 .. Len(rs2) : i < j => rs2[j].side_ # t
      BY DEF CanceledLast
    <3>1. i \in 1 .. Len(rs) /\ rs2[i] = rs[i]
      BY <1>9
    <3>2. t # s
      BY <1>11, <3>1 DEF Silent
    <3>3. OpenOn(op, t) = {} /\ \A j \in 1 .. Len(rs) : i < j => rs[j].side_ # t
      BY <2>1, <3>1 DEF OneOrder, CanceledLast
    <3> QED
      BY <1>8, <1>9, <2>3, <3>2, <3>3
  <2>9. CanceledIn(rs2, t) <=> CanceledIn(rs, t)
    BY <1>9 DEF CanceledIn
  <2>10. Agrees(os[t], rq2, op2, rs2, t)
    BY <1>13, <2>1, <2>9 DEF OneOrder, Agrees
  <2> QED
    BY <2>5, <2>6, <2>7, <2>8, <2>10 DEF OneOrder
<1> QED
  BY <1>1, <1>2, <1>3, <1>5, <1>10, <1>13, <1>14 DEF Sound

\* A cancel request is taken off the queue.
LEMMA TakeCancelSound ==
    ASSUME NEW os, NEW nid, NEW rq, NEW op, NEW rs,
           Sound(os, nid, rq, op, rs), rq # <<>>, Head(rq).type_ # "NEW"
    PROVE  /\ Sound(os, nid, Tail(rq), op, rs)
           /\ \A t \in Sides : Left(Tail(rq), op, rs, t) = Left(rq, op, rs, t)
<1>1. PICK rq2 : rq2 = Tail(rq)
  OBVIOUS
<1>2. Typed(os, nid, rq, op, rs) /\ Numbered(os, nid)
      /\ \A t \in Sides : OneOrder(os[t], rq, op, rs, t)
  BY DEF Sound
<1>3. /\ rq \in Seq(Requests) /\ Len(rq) \in Nat \ {0} /\ Head(rq) = rq[1]
      /\ rq2 \in Seq(Requests) /\ Len(rq2) = Len(rq) - 1
      /\ \A i \in 1 .. Len(rq2) : rq2[i] = rq[i + 1] /\ i + 1 \in 1 .. Len(rq)
  BY <1>1, <1>2 DEF Typed
<1>4. Typed(os, nid, rq2, op, rs)
  BY <1>2, <1>3 DEF Typed
<1>5. ASSUME NEW t \in Sides PROVE Left(rq2, op, rs, t) = Left(rq, op, rs, t)
  <2>0. rq \in Seq(Requests) /\ rq # <<>> /\ rq2 = Tail(rq) /\ Head(rq) = rq[1]
    BY <1>1, <1>3
  <2>1. Asked(rq2, t) = Asked(rq, t) - AskedBy(rq[1], t) /\ AskedBy(rq[1], t) = 0
    <3>1. Asked(rq2, t) = Asked(rq, t) - AskedBy(rq[1], t)
      BY ONLY <2>0, AskedSums
    <3>2. AskedBy(rq[1], t) = 0
      BY <1>1, <1>3 DEF AskedBy
    <3> QED
      BY ONLY <3>1, <3>2
  <2>2. Asked(rq, t) \in Nat
    BY <1>3, AskedSums
  <2> QED
    BY <2>1, <2>2 DEF Left
<1>6. ASSUME NEW t \in Sides PROVE OneOrder(os[t], rq2, op, rs, t)
  <2>1. OneOrder(os[t], rq, op, rs, t)
    BY <1>2
  <2>2. AskedOnce(os[t], rq2, op, rs, t)
    <3> SUFFICES ASSUME NEW i \in 1 .. Len(rq2), IsNew(rq2[i], t)
                 PROVE  /\ os[t].order_state_ = "PENDING_NEW"
                        /\ rq2[i].order_id_ = os[t].order_id_
                        /\ OpenOn(op, t) = {} /\ Silent(rs, t)
                        /\ \A j \in 1 .. Len(rq2) : IsNew(rq2[j], t) => j = i
      BY DEF AskedOnce
    <3>1. i + 1 \in 1 .. Len(rq) /\ rq2[i] = rq[i + 1] /\ IsNew(rq[i + 1], t)
      BY <1>3
    <3>2. AskedOnce(os[t], rq, op, rs, t)
      BY <2>1 DEF OneOrder
    <3>3. /\ os[t].order_state_ = "PENDING_NEW" /\ rq[i + 1].order_id_ = os[t].order_id_
          /\ OpenOn(op, t) = {} /\ Silent(rs, t)
          /\ \A j \in 1 .. Len(rq) : IsNew(rq[j], t) => j = i + 1
      BY ONLY <3>1, <3>2 DEF AskedOnce
    <3>4. ASSUME NEW j \in 1 .. Len(rq2), IsNew(rq2[j], t) PROVE j = i
      <4>1. j + 1 \in 1 .. Len(rq) /\ IsNew(rq[j + 1], t)
        BY <1>3, <3>4
      <4>2. j + 1 = i + 1
        BY ONLY <3>3, <4>1
      <4> QED
        BY <4>2
    <3> QED
      BY ONLY <3>1, <3>3, <3>4
  <2> QED
    BY <1>5, <2>1, <2>2 DEF OneOrder, Agrees
<1> QED
  BY <1>1, <1>2, <1>4, <1>5, <1>6 DEF Sound

\* A rejected cancel is of no side.
LEMMA RejectSound ==
    ASSUME NEW os, NEW nid, NEW rq, NEW op, NEW rs, Sound(os, nid, rq, op, rs),
           NEW a \in Responses, a.type_ = "CANCEL_REJECTED"
    PROVE  /\ Sound(os, nid, rq, op, Append(rs, a))
           /\ \A t \in Sides : Left(rq, op, Append(rs, a), t) = Left(rq, op, rs, t)
<1>1. PICK rs2 : rs2 = Append(rs, a)
  OBVIOUS
<1>2. Typed(os, nid, rq, op, rs) /\ Numbered(os, nid)
      /\ \A t \in Sides : OneOrder(os[t], rq, op, rs, t)
  BY DEF Sound
<1>3. a.side_ = 0 /\ a.side_ \notin Sides
  BY SidesAre DEF Responses
<1>4. /\ rs \in Seq(Responses) /\ Len(rs) \in Nat /\ rs2 \in Seq(Responses)
      /\ Len(rs2) = Len(rs) + 1 /\ rs2[Len(rs) + 1] = a
      /\ \A i \in 1 .. Len(rs) : rs2[i] = rs[i]
  BY <1>1, <1>2 DEF Typed
<1>5. Typed(os, nid, rq, op, rs2)
  BY <1>2, <1>4 DEF Typed
<1>6. ASSUME NEW t \in Sides PROVE Left(rq, op, rs2, t) = Left(rq, op, rs, t)
  <2>1. Executed(rs2, t) = Executed(rs, t) + ExecutedBy(a, t) /\ ExecutedBy(a, t) = 0
    BY <1>1, <1>4, ExecutedSums DEF ExecutedBy
  <2>2. Executed(rs, t) \in Nat
    BY <1>4, ExecutedSums
  <2> QED
    BY <2>1, <2>2 DEF Left
<1>7. ASSUME NEW t \in Sides PROVE OneOrder(os[t], rq, op, rs2, t)
  <2>1. OneOrder(os[t], rq, op, rs, t)
    BY <1>2
  <2>2. Silent(rs, t) => Silent(rs2, t)
    BY <1>3, <1>4 DEF Silent
  <2>3. AskedOnce(os[t], rq, op, rs2, t)
    BY <2>1, <2>2 DEF OneOrder, AskedOnce
  <2>4. AcceptedFirst(os[t], rs2, t)
    BY <1>3, <1>4, <2>1 DEF OneOrder, AcceptedFirst
  <2>5. CanceledLast(op, rs2, t)
    BY <1>3, <1>4, <2>1 DEF OneOrder, CanceledLast
  <2>6. CanceledIn(rs2, t) <=> CanceledIn(rs, t)
    BY <1>3, <1>4 DEF CanceledIn
  <2> QED
    BY <1>6, <2>1, <2>3, <2>4, <2>5, <2>6 DEF OneOrder, Agrees
<1> QED
  BY <1>1, <1>2, <1>5, <1>6, <1>7 DEF Sound

\* An open order is canceled: nothing of it is left but what has been executed.
LEMMA CancelOpenSound ==
    ASSUME NEW os, NEW nid, NEW rq, NEW op, NEW rs, Sound(os, nid, rq, op, rs),
           NEW p \in op, NEW a \in Responses, a.type_ = "CANCELED", a.side_ = p.side_
    PROVE  /\ Sound(os, nid, rq, op \ {p}, Append(rs, a))
           /\ \A t \in Sides : Left(rq, op \ {p}, Append(rs, a), t) <= Left(rq, op, rs, t)
<1>1. PICK rs2 : rs2 = Append(rs, a)
  OBVIOUS
<1>2. PICK op2 : op2 = op \ {p}
  OBVIOUS
<1>3. PICK s : s = p.side_
  OBVIOUS
<1>4. Typed(os, nid, rq, op, rs) /\ Numbered(os, nid)
      /\ \A t \in Sides : OneOrder(os[t], rq, op, rs, t)
  BY DEF Sound
<1>5. p \in OpenOrders /\ s \in Sides /\ p.qty_ \in Nat \ {0}
  BY <1>3, <1>4 DEF Typed, OpenOrders
<1>6. /\ rs \in Seq(Responses) /\ Len(rs) \in Nat /\ rs2 \in Seq(Responses)
      /\ Len(rs2) = Len(rs) + 1 /\ rs2[Len(rs) + 1] = a
      /\ \A i \in 1 .. Len(rs) : rs2[i] = rs[i]
  BY <1>1, <1>4 DEF Typed
<1>7. Typed(os, nid, rq, op2, rs2)
  BY <1>2, <1>4, <1>6 DEF Typed
<1>8. OpenOn(op2, s) = {} /\ OpenOn(op, s) # {}
      /\ \A t \in Sides \ {s} : OpenOn(op2, t) = OpenOn(op, t)
  <2>1. \A q \in op : q.side_ = s => q = p
    BY <1>3, <1>4, <1>5 DEF OneOrder, OpenOnce
  <2> QED
    BY <1>2, <1>3, <2>1 DEF OpenOn
<1>9. OpenQty(op2, s) = 0 /\ OpenQty(op, s) = p.qty_
      /\ \A t \in Sides \ {s} : OpenQty(op2, t) = OpenQty(op, t)
  <2>1. op \subseteq OpenOrders /\ \A x, y \in op : x.side_ = s /\ y.side_ = s => x = y
    BY <1>4, <1>5 DEF Typed, OneOrder, OpenOnce
  <2>2. OpenQty(op, s) = p.qty_
    BY <1>3, <2>1, OpenQtyIs
  <2>3. OpenQty(op2, s) = 0
    BY <1>8 DEF OpenQty
  <2>4. ASSUME NEW t \in Sides \ {s} PROVE OpenQty(op2, t) = OpenQty(op, t)
    <3>1. OpenOn(op2, t) = OpenOn(op, t)
      BY <1>8
    <3> QED
      BY ONLY <3>1 DEF OpenQty
  <2> QED
    BY <2>2, <2>3, <2>4
<1>10. ASSUME NEW t \in Sides
       PROVE  Left(rq, op2, rs2, t) = Left(rq, op, rs, t) - (IF t = s THEN p.qty_ ELSE 0)
  <2>1. Executed(rs2, t) = Executed(rs, t) + ExecutedBy(a, t) /\ ExecutedBy(a, t) = 0
    BY <1>1, <1>6, ExecutedSums DEF ExecutedBy
  <2>2. Asked(rq, t) \in Nat /\ OpenQty(op, t) \in Nat /\ Executed(rs, t) \in Nat
    BY LeftIs
  <2>3. OpenQty(op2, t) = OpenQty(op, t) - (IF t = s THEN p.qty_ ELSE 0)
    BY <1>5, <1>9, <2>2
  <2> QED
    BY <1>5, <2>1, <2>2, <2>3 DEF Left
<1>11. ASSUME NEW t \in Sides PROVE OneOrder(os[t], rq, op2, rs2, t)
  <2>1. OneOrder(os[t], rq, op, rs, t)
    BY <1>4
  <2>2. Silent(rs, t) /\ t # s => Silent(rs2, t)
    BY <1>3, <1>6 DEF Silent
  <2>3. \A i \in 1 .. Len(rq) : IsNew(rq[i], t) => t # s
    BY <1>8, <2>1 DEF OneOrder, AskedOnce
  <2>4. AskedOnce(os[t], rq, op2, rs2, t)
    BY <1>8, <2>1, <2>2, <2>3 DEF OneOrder, AskedOnce
  <2>5. OpenOnce(os[t], op2, t)
    BY <1>2, <2>1 DEF OneOrder, OpenOnce
  <2>6. AcceptedFirst(os[t], rs2, t)
    <3> SUFFICES ASSUME NEW i \in 1 .. Len(rs2), rs2[i].type_ = "ACCEPTED", rs2[i].side_ = t
                 PROVE  /\ os[t].order_state_ = "PENDING_NEW"
                        /\ \A j \in 1 .. Len(rs2) : j < i => rs2[j].side_ # t
      BY DEF AcceptedFirst
    <3>1. i \in 1 .. Len(rs)
      BY <1>6
    <3> QED
      BY <1>6, <2>1, <3>1 DEF OneOrder, AcceptedFirst
  <2>7. ~CanceledIn(rs, s)
    BY <1>4, <1>5, <1>8 DEF OneOrder, CanceledLast, CanceledIn
  <2>8. CanceledLast(op2, rs2, t)
    <3> SUFFICES ASSUME NEW i \in 1 .. Len(rs2), rs2[i].type_ = "CANCELED", rs2[i].side_ = t
                 PROVE  /\ OpenOn(op2, t) = {}
                        /\ \A j \in 1 .. Len(rs2) : i < j => rs2[j].side_ # t
      BY DEF CanceledLast
    <3>1. CASE i = Len(rs) + 1
      BY <1>3, <1>6, <1>8, <3>1
    <3>2. CASE i \in 1 .. Len(rs)
      <4>1. t # s
        BY <1>6, <2>7, <3>2 DEF CanceledIn
      <4>2. OpenOn(op, t) = {} /\ \A j \in 1 .. Len(rs) : i < j => rs[j].side_ # t
        BY <1>6, <2>1, <3>2 DEF OneOrder, CanceledLast
      <4> QED
        BY <1>3, <1>6, <1>8, <4>1, <4>2
    <3> QED
      BY <1>6, <3>1, <3>2
  <2>9. t # s => (CanceledIn(rs2, t) <=> CanceledIn(rs, t))
    BY <1>3, <1>6 DEF CanceledIn
  <2>10. t = s => CanceledIn(rs2, t)
    BY <1>3, <1>6 DEF CanceledIn
  <2>11. Left(rq, op, rs, t) \in Nat /\ (t = s => Left(rq, op, rs, t) >= p.qty_)
    <3>1. Asked(rq, t) \in Nat /\ OpenQty(op, t) \in Nat /\ Executed(rs, t) \in Nat
          /\ Left(rq, op, rs, t) = Asked(rq, t) + OpenQty(op, t) + Executed(rs, t)
      BY LeftIs
    <3> QED
      BY <1>5, <1>9, <3>1
  <2>12. os[t].qty_ \in Nat
    BY <1>4 DEF Typed, OMOrders
  <2>13. Agrees(os[t], rq, op2, rs2, t)
    <3>1. Agrees(os[t], rq, op, rs, t)
      BY <2>1 DEF OneOrder
    <3>2. CASE t = s
      BY <1>5, <1>10, <2>7, <2>10, <2>11, <2>12, <3>1, <3>2 DEF Agrees
    <3>3. CASE t # s
      BY <1>10, <2>9, <2>11, <3>1, <3>3 DEF Agrees
    <3> QED
      BY <3>2, <3>3
  <2> QED
    BY <2>4, <2>5, <2>6, <2>8, <2>13 DEF OneOrder
<1>12. \A t \in Sides : Left(rq, op2, rs2, t) <= Left(rq, op, rs, t)
  <2>1. \A t \in Sides : Left(rq, op, rs, t) \in Nat
    BY LeftIs
  <2> QED
    BY <1>5, <1>10, <2>1
<1> QED
  BY <1>1, <1>2, <1>4, <1>7, <1>11, <1>12 DEF Sound

\* An open order is filled, in part or wholly: what is filled is on its way.
LEMMA FillSound ==
    ASSUME NEW os, NEW nid, NEW rq, NEW op, NEW rs, Sound(os, nid, rq, op, rs),
           NEW p \in op, NEW a \in Responses, a.type_ = "FILLED", a.side_ = p.side_,
           a.exec_qty_ \in 1 .. p.qty_,
           NEW op2, op2 = (op \ {p}) \cup
                        (IF a.exec_qty_ = p.qty_ THEN {} ELSE {[p EXCEPT !.qty_ = @ - a.exec_qty_]})
    PROVE  /\ Sound(os, nid, rq, op2, Append(rs, a))
           /\ \A t \in Sides : Left(rq, op2, Append(rs, a), t) = Left(rq, op, rs, t)
<1>1. PICK rs2 : rs2 = Append(rs, a)
  OBVIOUS
<1>2. PICK p2 : p2 = [p EXCEPT !.qty_ = @ - a.exec_qty_]
  OBVIOUS
<1>3. PICK s : s = p.side_
  OBVIOUS
<1>4. Typed(os, nid, rq, op, rs) /\ Numbered(os, nid)
      /\ \A t \in Sides : OneOrder(os[t], rq, op, rs, t)
  BY DEF Sound
<1>5. p \in OpenOrders /\ s \in Sides /\ p.qty_ \in Nat \ {0} /\ a.exec_qty_ \in Nat \ {0}
      /\ a.exec_qty_ <= p.qty_
  BY <1>3, <1>4 DEF Typed, OpenOrders
<1>6. /\ p2.side_ = s /\ p2.order_id_ = p.order_id_ /\ p2.qty_ = p.qty_ - a.exec_qty_
      /\ a.exec_qty_ # p.qty_ => p2 \in OpenOrders
  BY <1>2, <1>3, <1>5 DEF OpenOrders
<1>7. /\ rs \in Seq(Responses) /\ Len(rs) \in Nat /\ rs2 \in Seq(Responses)
      /\ Len(rs2) = Len(rs) + 1 /\ rs2[Len(rs) + 1] = a
      /\ \A i \in 1 .. Len(rs) : rs2[i] = rs[i]
  BY <1>1, <1>4 DEF Typed
<1>8. op2 = (op \ {p}) \cup (IF a.exec_qty_ = p.qty_ THEN {} ELSE {p2})
  BY <1>2
<1>9. Typed(os, nid, rq, op2, rs2)
  <2>1. op2 \subseteq OpenOrders
    BY <1>4, <1>6, <1>8 DEF Typed
  <2> QED
    BY <1>4, <1>7, <2>1 DEF Typed
<1>10. \A q \in op : q.side_ = s => q = p
  BY <1>3, <1>4, <1>5 DEF OneOrder, OpenOnce
<1>11. /\ \A q \in op2 : q.side_ = s => q = p2 /\ a.exec_qty_ # p.qty_
       /\ a.exec_qty_ # p.qty_ => p2 \in op2
       /\ \A q : q \in op2 /\ q.side_ # s <=> q \in op /\ q.side_ # s
  BY <1>3, <1>6, <1>8, <1>10
<1>12. OpenOn(op, s) # {} /\ \A t \in Sides \ {s} : OpenOn(op2, t) = OpenOn(op, t)
  BY <1>3, <1>11 DEF OpenOn
<1>13. OpenQty(op, s) = p.qty_ /\ OpenQty(op2, s) = p.qty_ - a.exec_qty_
       /\ \A t \in Sides \ {s} : OpenQty(op2, t) = OpenQty(op, t)
  <2>1. OpenQty(op, s) = p.qty_
    <3>1. op \subseteq OpenOrders /\ \A x, y \in op : x.side_ = s /\ y.side_ = s => x = y
      BY <1>4, <1>5 DEF Typed, OneOrder, OpenOnce
    <3> QED
      BY <1>3, <3>1, OpenQtyIs
  <2>2. OpenQty(op2, s) = p.qty_ - a.exec_qty_
    <3>1. op2 \subseteq OpenOrders /\ \A x, y \in op2 : x.side_ = s /\ y.side_ = s => x = y
      BY <1>9, <1>11 DEF Typed
    <3>2. CASE a.exec_qty_ = p.qty_
      <4>1. OpenOn(op2, s) = {}
        BY <1>11, <3>2 DEF OpenOn
      <4> QED
        BY <1>5, <3>2, <4>1 DEF OpenQty
    <3>3. CASE a.exec_qty_ # p.qty_
      BY <1>6, <1>11, <3>1, <3>3, OpenQtyIs
    <3> QED
      BY <3>2, <3>3
  <2>3. ASSUME NEW t \in Sides \ {s} PROVE OpenQty(op2, t) = OpenQty(op, t)
    <3>1. OpenOn(op2, t) = OpenOn(op, t)
      BY <1>12
    <3> QED
      BY ONLY <3>1 DEF OpenQty
  <2> QED
    BY <2>1, <2>2, <2>3
<1>14. ASSUME NEW t \in Sides PROVE Left(rq, op2, rs2, t) = Left(rq, op, rs, t)
  <2>1. Executed(rs2, t) = Executed(rs, t) + ExecutedBy(a, t)
    BY <1>1, <1>7, ExecutedSums
  <2>2. ExecutedBy(a, t) = IF t = s THEN a.exec_qty_ ELSE 0
    BY <1>3 DEF ExecutedBy
  <2>3. Asked(rq, t) \in Nat /\ OpenQty(op, t) \in Nat /\ Executed(rs, t) \in Nat
    BY LeftIs
  <2>4. OpenQty(op2, t) = OpenQty(op, t) - (IF t = s THEN a.exec_qty_ ELSE 0)
    BY <1>5, <1>13, <2>3
  <2>5. Asked(rq, t) + OpenQty(op2, t) + Executed(rs2, t) =
            Asked(rq, t) + OpenQty(op, t) + Executed(rs, t)
    BY <1>5, <2>1, <2>2, <2>3, <2>4
  <2> QED
    BY <2>5 DEF Left
<1>15. ASSUME NEW t \in Sides PROVE OneOrder(os[t], rq, op2, rs2, t)
  <2>1. OneOrder(os[t], rq, op, rs, t)
    BY <1>4
  <2>2. Silent(rs, t) /\ t # s => Silent(rs2, t)
    BY <1>3, <1>7 DEF Silent
  <2>3. \A i \in 1 .. Len(rq) : IsNew(rq[i], t) => t # s
    BY <1>12, <2>1 DEF OneOrder, AskedOnce
  <2>4. AskedOnce(os[t], rq, op2, rs2, t)
    BY <1>12, <2>1, <2>2, <2>3 DEF OneOrder, AskedOnce
  <2>5. OpenOnce(os[t], op2, t)
    <3>1. CASE t = s
      BY <1>3, <1>6, <1>11, <2>1, <3>1 DEF OneOrder, OpenOnce
    <3>2. CASE t # s
      BY <1>11, <2>1, <3>2 DEF OneOrder, OpenOnce
    <3> QED
      BY <3>1, <3>2
  <2>6. AcceptedFirst(os[t], rs2, t)
    <3> SUFFICES ASSUME NEW i \in 1 .. Len(rs2), rs2[i].type_ = "ACCEPTED", rs2[i].side_ = t
                 PROVE  /\ os[t].order_state_ = "PENDING_NEW"
                        /\ \A j \in 1 .. Len(rs2) : j < i => rs2[j].side_ # t
      BY DEF AcceptedFirst
    <3>1. i \in 1 .. Len(rs)
      BY <1>7
    <3> QED
      BY <1>7, <2>1, <3>1 DEF OneOrder, AcceptedFirst
  <2>7. ~CanceledIn(rs, s)
    BY <1>4, <1>5, <1>12 DEF OneOrder, CanceledLast, CanceledIn
  <2>8. CanceledLast(op2, rs2, t)
    <3> SUFFICES ASSUME NEW i \in 1 .. Len(rs2), rs2[i].type_ = "CANCELED", rs2[i].side_ = t
                 PROVE  /\ OpenOn(op2, t) = {}
                        /\ \A j \in 1 .. Len(rs2) : i < j => rs2[j].side_ # t
      BY DEF CanceledLast
    <3>1. i \in 1 .. Len(rs)
      BY <1>7
    <3>2. t # s
      BY <1>7, <2>7, <3>1 DEF CanceledIn
    <3>3. OpenOn(op, t) = {} /\ \A j \in 1 .. Len(rs) : i < j => rs[j].side_ # t
      BY <1>7, <2>1, <3>1 DEF OneOrder, CanceledLast
    <3>4. OpenOn(op2, t) = {}
      BY <1>12, <3>2, <3>3
    <3>5. \A j \in 1 .. Len(rs2) : i < j => rs2[j].side_ # t
      BY <1>3, <1>7, <3>2, <3>3
    <3> QED
      BY <3>4, <3>5
  <2>9. CanceledIn(rs2, t) <=> CanceledIn(rs, t)
    BY <1>7 DEF CanceledIn
  <2>10. Agrees(os[t], rq, op2, rs2, t)
    BY <1>14, <2>1, <2>9 DEF OneOrder, Agrees
  <2> QED
    BY <2>4, <2>5, <2>6, <2>8, <2>10 DEF OneOrder
<1> QED
  BY <1>1, <1>4, <1>9, <1>14, <1>15 DEF Sound
----------------------------------------------------------------------------
(* The manager is told.                                                     *)

\* What holds of a response at the head of the queue holds of the rest: its side
\* has nothing that is asked for.
LEMMA Heard ==
    ASSUME NEW os, NEW nid, NEW rq, NEW op, NEW rs, Sound(os, nid, rq, op, rs), rs # <<>>
    PROVE  /\ Head(rs) \in Responses /\ Head(rs) = rs[1] /\ rs \in Seq(Responses)
           /\ Len(rs) \in Nat \ {0} /\ Tail(rs) \in Seq(Responses)
           /\ Len(Tail(rs)) = Len(rs) - 1
           /\ \A i \in 1 .. Len(Tail(rs)) : Tail(rs)[i] = rs[i + 1] /\ i + 1 \in 1 .. Len(rs)
           /\ \A t \in Sides : \A i \in 1 .. Len(rq) : IsNew(rq[i], t) => rs[1].side_ # t
           /\ \A t \in Sides :
                 Left(rq, op, Tail(rs), t) = Left(rq, op, rs, t) - ExecutedBy(rs[1], t)
<1>1. Typed(os, nid, rq, op, rs) /\ \A t \in Sides : OneOrder(os[t], rq, op, rs, t)
  BY DEF Sound
<1>2. rs \in Seq(Responses)
  BY <1>1 DEF Typed
<1>3. /\ Head(rs) \in Responses /\ Head(rs) = rs[1]
      /\ Len(rs) \in Nat \ {0} /\ Tail(rs) \in Seq(Responses)
      /\ Len(Tail(rs)) = Len(rs) - 1
      /\ \A i \in 1 .. Len(Tail(rs)) : Tail(rs)[i] = rs[i + 1] /\ i + 1 \in 1 .. Len(rs)
  BY <1>2
<1>4. ASSUME NEW t \in Sides, NEW i \in 1 .. Len(rq), IsNew(rq[i], t)
      PROVE  rs[1].side_ # t
  BY <1>1, <1>3, <1>4 DEF OneOrder, AskedOnce, Silent
<1>5. ASSUME NEW t \in Sides
      PROVE  Left(rq, op, Tail(rs), t) = Left(rq, op, rs, t) - ExecutedBy(rs[1], t)
  <2>1. Executed(Tail(rs), t) = Executed(rs, t) - ExecutedBy(rs[1], t)
    BY <1>2, <1>3, ExecutedSums
  <2>2. Asked(rq, t) \in Nat /\ OpenQty(op, t) \in Nat /\ Executed(rs, t) \in Nat
    BY LeftIs
  <2>3. ExecutedBy(rs[1], t) \in Nat
    BY <1>3 DEF ExecutedBy, Responses
  <2> QED
    BY <2>1, <2>2, <2>3 DEF Left
<1> QED
  BY <1>2, <1>3, <1>4, <1>5

\* What the rest of the responses leaves of the invariant whatever becomes of the
\* order: only the last two conjuncts depend on what has been heard.
LEMMA HeardRest ==
    ASSUME NEW os, NEW nid, NEW rq, NEW op, NEW rs, NEW t \in Sides,
           Sound(os, nid, rq, op, rs), rs # <<>>,
           NEW o, o.order_id_ = os[t].order_id_,
           rs[1].side_ # t => o = os[t]
    PROVE  /\ AskedOnce(o, rq, op, Tail(rs), t)
           /\ OpenOnce(o, op, t)
           /\ AcceptedFirst(o, Tail(rs), t)
           /\ CanceledLast(op, Tail(rs), t)
           /\ CanceledIn(Tail(rs), t) => CanceledIn(rs, t)
           /\ ~(rs[1].type_ = "CANCELED" /\ rs[1].side_ = t) =>
                (CanceledIn(rs, t) => CanceledIn(Tail(rs), t))
<1>1. PICK rs2 : rs2 = Tail(rs)
  OBVIOUS
<1>2. OneOrder(os[t], rq, op, rs, t)
  BY DEF Sound
<1>3. /\ Len(rs) \in Nat \ {0} /\ Len(rs2) = Len(rs) - 1 /\ 1 \in 1 .. Len(rs)
      /\ \A i \in 1 .. Len(rs2) : rs2[i] = rs[i + 1] /\ i + 1 \in 1 .. Len(rs)
      /\ \A i \in 1 .. Len(rq) : IsNew(rq[i], t) => rs[1].side_ # t
  BY <1>1, Heard
<1>4. Silent(rs, t) => Silent(rs2, t)
  BY <1>3 DEF Silent
<1>5. AskedOnce(o, rq, op, rs2, t)
  BY <1>2, <1>3, <1>4 DEF OneOrder, AskedOnce
<1>6. OpenOnce(o, op, t)
  BY <1>2 DEF OneOrder, OpenOnce
<1>7. AcceptedFirst(o, rs2, t)
  <2> SUFFICES ASSUME NEW i \in 1 .. Len(rs2), rs2[i].type_ = "ACCEPTED", rs2[i].side_ = t
               PROVE  /\ o.order_state_ = "PENDING_NEW"
                      /\ \A j \in 1 .. Len(rs2) : j < i => rs2[j].side_ # t
    BY DEF AcceptedFirst
  <2>1. i + 1 \in 1 .. Len(rs) /\ rs[i + 1].type_ = "ACCEPTED" /\ rs[i + 1].side_ = t /\ 1 < i + 1
    BY <1>3
  <2>2. os[t].order_state_ = "PENDING_NEW" /\ \A j \in 1 .. Len(rs) : j < i + 1 => rs[j].side_ # t
    BY <1>2, <2>1 DEF OneOrder, AcceptedFirst
  <2>3. o = os[t]
    BY <1>3, <2>1, <2>2
  <2> QED
    BY <1>3, <2>2, <2>3
<1>8. CanceledLast(op, rs2, t)
  <2> SUFFICES ASSUME NEW i \in 1 .. Len(rs2), rs2[i].type_ = "CANCELED", rs2[i].side_ = t
               PROVE  /\ OpenOn(op, t) = {}
                      /\ \A j \in 1 .. Len(rs2) : i < j => rs2[j].side_ # t
    BY DEF CanceledLast
  <2>1. i + 1 \in 1 .. Len(rs) /\ rs[i + 1].type_ = "CANCELED" /\ rs[i + 1].side_ = t
    BY <1>3
  <2>2. OpenOn(op, t) = {} /\ \A j \in 1 .. Len(rs) : i + 1 < j => rs[j].side_ # t
    BY <1>2, <2>1 DEF OneOrder, CanceledLast
  <2>3. \A j \in 1 .. Len(rs2) : i < j => rs2[j].side_ # t
    BY <1>3, <2>2
  <2> QED
    BY <2>2, <2>3
<1>9. CanceledIn(rs2, t) => CanceledIn(rs, t)
  BY <1>3 DEF CanceledIn
<1>10. ASSUME ~(rs[1].type_ = "CANCELED" /\ rs[1].side_ = t), CanceledIn(rs, t)
       PROVE  CanceledIn(rs2, t)
  <2>1. PICK i \in 1 .. Len(rs) : rs[i].type_ = "CANCELED" /\ rs[i].side_ = t
    BY <1>10 DEF CanceledIn
  <2>2. i # 1 /\ i - 1 \in 1 .. Len(rs2) /\ rs2[i - 1] = rs[i]
    <3>1. i # 1
      BY <1>10, <2>1
    <3>2. i - 1 \in 1 .. Len(rs2) /\ i - 1 + 1 = i
      BY <1>3, <3>1
    <3> QED
      BY <1>3, <3>1, <3>2
  <2> QED
    BY <2>1, <2>2 DEF CanceledIn
<1> QED
  BY <1>1, <1>5, <1>6, <1>7, <1>8, <1>9, <1>10

\* With an order changed as onOrderUpdate does it, the invariant is left to be
\* shown of that order alone.
LEMMA UpdateSound ==
    ASSUME NEW os, NEW nid, NEW rq, NEW op, NEW rs, NEW s \in Sides,
           Sound(os, nid, rq, op, rs), rs # <<>>, rs[1].side_ = s,
           NEW o \in OMOrders, o.order_id_ = os[s].order_id_,
           Agrees(o, rq, op, Tail(rs), s)
    PROVE  Sound([os EXCEPT ![s] = o], nid, rq, op, Tail(rs))
<1>1. PICK os2 : os2 = [os EXCEPT ![s] = o]
  OBVIOUS
<1>2. Typed(os, nid, rq, op, rs) /\ Numbered(os, nid)
      /\ \A t \in Sides : OneOrder(os[t], rq, op, rs, t)
  BY DEF Sound
<1>3. os2[s] = o /\ (\A t \in Sides \ {s} : os2[t] = os[t])
      /\ \A t \in Sides : os2[t].order_id_ = os[t].order_id_
  BY <1>1, <1>2 DEF Typed
<1>4. Typed(os2, nid, rq, op, Tail(rs))
  <2>1. os2 \in [Sides \cup {Manager!INVALID_SIDE} -> OMOrders]
        /\ os2[Manager!INVALID_SIDE] = Manager!NoOMOrder
    BY <1>1, <1>2, SidesAre DEF Typed
  <2>2. Tail(rs) \in Seq(Responses)
    BY Heard
  <2> QED
    BY <1>2, <2>1, <2>2 DEF Typed
<1>5. Numbered(os2, nid)
  BY <1>2, <1>3, SidesAre DEF Numbered
<1>6. ASSUME NEW t \in Sides PROVE OneOrder(os2[t], rq, op, Tail(rs), t)
  <2>1. /\ AskedOnce(os2[t], rq, op, Tail(rs), t)
        /\ OpenOnce(os2[t], op, t)
        /\ AcceptedFirst(os2[t], Tail(rs), t)
        /\ CanceledLast(op, Tail(rs), t)
        /\ rs[1].side_ # t => (CanceledIn(Tail(rs), t) <=> CanceledIn(rs, t))
    BY <1>3, HeardRest
  <2>2. CASE t = s
    BY <1>3, <2>1, <2>2 DEF OneOrder
  <2>3. CASE t # s
    <3>1. Left(rq, op, Tail(rs), t) = Left(rq, op, rs, t)
      <4>1. ExecutedBy(rs[1], t) = 0 /\ Left(rq, op, rs, t) \in Nat
        BY <2>3, LeftIs DEF ExecutedBy
      <4>2. Left(rq, op, Tail(rs), t) = Left(rq, op, rs, t) - ExecutedBy(rs[1], t)
        BY Heard
      <4> QED
        BY <4>1, <4>2
    <3>2. Agrees(os[t], rq, op, rs, t) /\ os2[t] = os[t]
      BY <1>2, <1>3, <2>3 DEF OneOrder
    <3>3. Agrees(os2[t], rq, op, Tail(rs), t)
      BY <2>1, <2>3, <3>1, <3>2 DEF Agrees
    <3> QED
      BY <2>1, <3>3 DEF OneOrder
  <2> QED
    BY <2>2, <2>3
<1> QED
  BY <1>1, <1>2, <1>4, <1>5, <1>6 DEF Sound

\* onOrderUpdate: the order it makes of the one there was.
Updated(o, r) ==
    CASE r.type_ = "ACCEPTED" -> [o EXCEPT !.order_state_ = "LIVE"]
      [] r.type_ = "CANCELED" -> [o EXCEPT !.order_state_ = "DEAD"]
      [] r.type_ = "FILLED" -> Manager!Filled(o, r.exec_qty_)
      [] OTHER -> o

\* Of an order that has been canceled nothing is left when that is heard.
LEMMA NothingOfTheCanceled ==
    ASSUME NEW os, NEW nid, NEW rq, NEW op, NEW rs, NEW s \in Sides,
           Sound(os, nid, rq, op, rs), rs # <<>>, rs[1].side_ = s, rs[1].type_ = "CANCELED"
    PROVE  Left(rq, op, Tail(rs), s) = 0 /\ ~CanceledIn(Tail(rs), s)
<1>1. PICK rs2 : rs2 = Tail(rs)
  OBVIOUS
<1>2. /\ Len(rs) \in Nat \ {0} /\ Len(rs2) = Len(rs) - 1 /\ 1 \in 1 .. Len(rs)
      /\ rs2 \in Seq(Responses)
      /\ \A i \in 1 .. Len(rs2) : rs2[i] = rs[i + 1] /\ i + 1 \in 1 .. Len(rs) /\ 1 < i + 1
      /\ \A i \in 1 .. Len(rq) : ~IsNew(rq[i], s)
  BY <1>1, Heard
<1>3. OneOrder(os[s], rq, op, rs, s) /\ rq \in Seq(Requests)
  BY DEF Sound, Typed
<1>4. OpenOn(op, s) = {} /\ \A j \in 1 .. Len(rs) : 1 < j => rs[j].side_ # s
  BY <1>2, <1>3 DEF OneOrder, CanceledLast
<1>5. \A i \in 1 .. Len(rs2) : rs2[i].side_ # s
  BY <1>2, <1>4
<1>6. Asked(rq, s) = 0
  <2>1. \A i \in 1 .. Len(rq) : AskedBy(rq[i], s) = 0
    BY <1>2 DEF AskedBy, IsNew
  <2> QED
    BY <1>3, <2>1, AskedSums
<1>7. Executed(rs2, s) = 0
  <2>1. \A i \in 1 .. Len(rs2) : ExecutedBy(rs2[i], s) = 0
    BY <1>5 DEF ExecutedBy
  <2> QED
    BY <1>2, <2>1, ExecutedSums
<1>8. OpenQty(op, s) = 0
  BY <1>4 DEF OpenQty
<1> QED
  BY <1>1, <1>5, <1>6, <1>7, <1>8 DEF Left, CanceledIn

LEMMA UpdatedAgrees ==
    ASSUME NEW os, NEW nid, NEW rq, NEW op, NEW rs, NEW s \in Sides,
           Sound(os, nid, rq, op, rs), rs # <<>>, rs[1].side_ = s,
           NEW o, o = Updated(os[s], rs[1])
    PROVE  /\ o \in OMOrders /\ o.order_id_ = os[s].order_id_
           /\ Agrees(o, rq, op, Tail(rs), s)
<1>1. os[s] \in OMOrders /\ OneOrder(os[s], rq, op, rs, s)
  BY DEF Sound, Typed
<1>2. Agrees(os[s], rq, op, rs, s)
  BY <1>1 DEF OneOrder
<1>3. rs[1] \in Responses /\ Len(rs) \in Nat \ {0} /\ 1 \in 1 .. Len(rs)
  BY Heard
<1>4. Left(rq, op, Tail(rs), s) = Left(rq, op, rs, s) - ExecutedBy(rs[1], s)
  BY Heard
<1>5. Left(rq, op, rs, s) \in Nat
  BY LeftIs
<1>6. /\ CanceledIn(Tail(rs), s) => CanceledIn(rs, s)
      /\ rs[1].type_ # "CANCELED" => (CanceledIn(rs, s) => CanceledIn(Tail(rs), s))
  BY <1>1, HeardRest
<1>7. os[s].qty_ \in Nat
  BY <1>1 DEF OMOrders
<1>8. CASE rs[1].type_ = "ACCEPTED"
  <2>1. o = [os[s] EXCEPT !.order_state_ = "LIVE"]
    BY <1>8 DEF Updated
  <2>2. o \in OMOrders /\ o.order_id_ = os[s].order_id_ /\ o.qty_ = os[s].qty_
        /\ o.order_state_ = "LIVE"
    BY <1>1, <2>1 DEF OMOrders
  <2>3. os[s].order_state_ = "PENDING_NEW"
    BY <1>1, <1>3, <1>8 DEF OneOrder, AcceptedFirst
  <2>4. Left(rq, op, Tail(rs), s) = Left(rq, op, rs, s)
    BY <1>4, <1>5, <1>8 DEF ExecutedBy
  <2> QED
    BY <1>2, <1>6, <1>8, <2>2, <2>3, <2>4 DEF Agrees, Manager!Idle
<1>9. CASE rs[1].type_ = "CANCELED"
  <2>1. o = [os[s] EXCEPT !.order_state_ = "DEAD"]
    BY <1>9 DEF Updated
  <2>2. o \in OMOrders /\ o.order_id_ = os[s].order_id_ /\ o.order_state_ = "DEAD"
    BY <1>1, <2>1 DEF OMOrders
  <2>3. Left(rq, op, Tail(rs), s) = 0 /\ ~CanceledIn(Tail(rs), s)
    BY <1>9, NothingOfTheCanceled
  <2> QED
    BY <2>2, <2>3 DEF Agrees, Manager!Idle
<1>10. CASE rs[1].type_ = "FILLED"
  <2>1. PICK e \in Nat \ {0} : e = rs[1].exec_qty_
    BY <1>3, <1>10 DEF Responses
  <2>2. o = [os[s] EXCEPT !.qty_ = os[s].qty_ - e,
                          !.order_state_ = IF os[s].qty_ = e THEN "DEAD" ELSE @]
    BY <1>10, <2>1 DEF Updated, Manager!Filled
  <2>3. ExecutedBy(rs[1], s) = e
    BY <1>10, <2>1 DEF ExecutedBy
  <2>4. e <= Left(rq, op, rs, s)
    <3>1. rs \in Seq(Responses)
      BY Heard
    <3>2. ExecutedBy(rs[1], s) <= Executed(rs, s)
      BY <1>3, <3>1, ExecutedSums
    <3>3. Asked(rq, s) \in Nat /\ OpenQty(op, s) \in Nat /\ Executed(rs, s) \in Nat
          /\ Left(rq, op, rs, s) = Asked(rq, s) + OpenQty(op, s) + Executed(rs, s)
      BY LeftIs
    <3> QED
      BY <2>1, <2>3, <3>2, <3>3
  <2>5. ~Manager!Idle(os[s])
    BY <1>2, <2>1, <2>4 DEF Agrees
  <2>6. /\ e <= os[s].qty_
        /\ IF CanceledIn(rs, s) THEN Left(rq, op, rs, s) < os[s].qty_
           ELSE Left(rq, op, rs, s) = os[s].qty_
    BY <1>2, <1>5, <1>7, <2>1, <2>4, <2>5 DEF Agrees
  <2>7. CanceledIn(Tail(rs), s) <=> CanceledIn(rs, s)
    BY <1>6, <1>10
  <2>8. /\ o \in OMOrders /\ o.order_id_ = os[s].order_id_ /\ o.qty_ = os[s].qty_ - e
        /\ o.order_state_ = IF os[s].qty_ = e THEN "DEAD" ELSE os[s].order_state_
    <3>1. PICK was : was = os[s]
      OBVIOUS
    <3>2. PICK q : q = was.qty_ - e
      OBVIOUS
    <3>3. PICK x : x = IF was.qty_ = e THEN "DEAD" ELSE was.order_state_
      OBVIOUS
    <3>4. was \in OMOrders /\ q \in Nat
      BY <1>1, <1>7, <2>1, <2>6, <3>1, <3>2
    <3>5. o = [was EXCEPT !.qty_ = q, !.order_state_ = x]
      BY <2>2, <3>1, <3>2, <3>3
    <3>6. x \in {"INVALID", "PENDING_NEW", "LIVE", "PENDING_CANCEL", "DEAD"}
      BY <3>3, <3>4 DEF OMOrders
    <3>7. o \in OMOrders /\ o.order_id_ = was.order_id_ /\ o.qty_ = q /\ o.order_state_ = x
      BY <3>4, <3>5, <3>6 DEF OMOrders
    <3> QED
      BY <3>1, <3>2, <3>3, <3>7
  <2>9. Left(rq, op, Tail(rs), s) = Left(rq, op, rs, s) - e
    BY <1>4, <2>3
  <2>10. CASE os[s].qty_ = e
    <3>1. ~CanceledIn(rs, s) /\ Left(rq, op, rs, s) = e
      BY <1>5, <2>1, <2>4, <2>6, <2>10
    <3> QED
      BY <2>1, <2>7, <2>8, <2>9, <2>10, <3>1 DEF Agrees, Manager!Idle
  <2>11. CASE os[s].qty_ # e
    <3>1. ~Manager!Idle(o)
      BY <2>5, <2>8, <2>11 DEF Manager!Idle
    <3>2. o.qty_ > 0
      BY <1>7, <2>1, <2>6, <2>8, <2>11
    <3>3. IF CanceledIn(Tail(rs), s) THEN Left(rq, op, Tail(rs), s) < o.qty_
          ELSE Left(rq, op, Tail(rs), s) = o.qty_
      BY <1>5, <1>7, <2>1, <2>6, <2>7, <2>8, <2>9
    <3> QED
      BY <2>8, <3>1, <3>2, <3>3 DEF Agrees
  <2> QED
    BY <2>10, <2>11
<1>11. rs[1].type_ # "CANCEL_REJECTED"
  BY <1>3, SidesAre DEF Responses
<1> QED
  BY <1>3, <1>8, <1>9, <1>10, <1>11 DEF Responses

\* A response of no side is passed over.
LEMMA PassedOverSound ==
    ASSUME NEW os, NEW nid, NEW rq, NEW op, NEW rs,
           Sound(os, nid, rq, op, rs), rs # <<>>, rs[1].side_ \notin Sides
    PROVE  Sound(os, nid, rq, op, Tail(rs))
<1>1. Typed(os, nid, rq, op, rs) /\ Numbered(os, nid)
      /\ \A t \in Sides : OneOrder(os[t], rq, op, rs, t)
  BY DEF Sound
<1>2. Typed(os, nid, rq, op, Tail(rs))
  <2>1. Tail(rs) \in Seq(Responses)
    BY Heard
  <2> QED
    BY <1>1, <2>1 DEF Typed
<1>3. ASSUME NEW t \in Sides PROVE OneOrder(os[t], rq, op, Tail(rs), t)
  <2>1. /\ AskedOnce(os[t], rq, op, Tail(rs), t)
        /\ OpenOnce(os[t], op, t)
        /\ AcceptedFirst(os[t], Tail(rs), t)
        /\ CanceledLast(op, Tail(rs), t)
        /\ CanceledIn(Tail(rs), t) <=> CanceledIn(rs, t)
    BY HeardRest
  <2>2. Left(rq, op, Tail(rs), t) = Left(rq, op, rs, t)
    <3>1. ExecutedBy(rs[1], t) = 0 /\ Left(rq, op, rs, t) \in Nat
      BY LeftIs DEF ExecutedBy
    <3>2. Left(rq, op, Tail(rs), t) = Left(rq, op, rs, t) - ExecutedBy(rs[1], t)
      BY Heard
    <3> QED
      BY <3>1, <3>2
  <2> QED
    BY <1>1, <2>1, <2>2 DEF OneOrder, Agrees
<1> QED
  BY <1>1, <1>2, <1>3 DEF Sound
----------------------------------------------------------------------------
(* moveOrder, as a whole.                                                   *)

\* moveOrder does nothing, or cancels the order that lives, or sends a new one in
\* place of a dead one.
LEMMA MoveOrderIs ==
    ASSUME NEW os, NEW nid, NEW e, NEW rq, NEW s, NEW price, NEW qty
    PROVE  LET after == Manager!MoveOrder(Now(os, nid, e, rq), s, price, qty) IN
           \/ after = Now(os, nid, e, rq)
           \/ /\ os[s].order_state_ = "LIVE"
              /\ after = Now(Put(os, s, Canceling(os[s])),
                             nid, Manager!LoggedFatally, Append(rq, CancelRequest(s, os[s])))
           \/ /\ Manager!Idle(os[s]) /\ price # Price_INVALID /\ Manager!Allowed(s, qty)
              /\ after = Now(Put(os, s, NewOM(nid, price, qty)), nid + 1,
                             Manager!LoggedFatally, Append(rq, NewRequest(s, nid, price, qty)))
<1> PICK after : after = Manager!MoveOrder(Now(os, nid, e, rq), s, price, qty)
  OBVIOUS
<1>1. PICK now : now = Now(os, nid, e, rq)
  OBVIOUS
<1>2. now.orders = os /\ now.next_order_id_ = nid /\ now.exited = e /\ now.requests = rq
  BY <1>1 DEF Now
<1>3. Manager!NewOrder(now, s, price, qty) =
        Now(Put(os, s, NewOM(nid, price, qty)), nid + 1,
            Manager!LoggedFatally, Append(rq, NewRequest(s, nid, price, qty)))
  BY <1>2 DEF Manager!NewOrder, Now, NewOM, NewRequest, Put
<1>4. Manager!CancelOrder(now, s) =
        Now(Put(os, s, Canceling(os[s])),
            nid, Manager!LoggedFatally, Append(rq, CancelRequest(s, os[s])))
  <2>1. PICK x : x = Manager!LoggedFatally
    OBVIOUS
  <2>2. PICK os2 : os2 = Put(os, s, Canceling(os[s]))
    OBVIOUS
  <2>3. PICK rq2 : rq2 = Append(rq, CancelRequest(s, os[s]))
    OBVIOUS
  <2>4. Manager!CancelOrder(now, s) = [now EXCEPT !.exited = x, !.orders = os2, !.requests = rq2]
    BY <1>2, <2>1, <2>2, <2>3, Zenon DEF Manager!CancelOrder, CancelRequest, Canceling, Put
  <2>5. [now EXCEPT !.exited = x] = Now(os, nid, x, rq)
    BY <1>1 DEF Now
  <2>6. [Now(os, nid, x, rq) EXCEPT !.orders = os2] = Now(os2, nid, x, rq)
    BY DEF Now
  <2>7. [Now(os2, nid, x, rq) EXCEPT !.requests = rq2] = Now(os2, nid, x, rq2)
    BY DEF Now
  <2> QED
    BY <2>1, <2>2, <2>3, <2>4, <2>5, <2>6, <2>7
<1>5. after = IF e THEN now
              ELSE IF os[s].order_state_ = "LIVE" /\ os[s].price_ # price
              THEN Manager!CancelOrder(now, s)
              ELSE IF Manager!Idle(os[s]) /\ price # Price_INVALID /\ Manager!Allowed(s, qty)
              THEN Manager!NewOrder(now, s, price, qty)
              ELSE now
  BY <1>1, <1>2 DEF Manager!MoveOrder
<1> QED
  BY <1>1, <1>3, <1>4, <1>5

LEMMA MoveOrderSound ==
    ASSUME NEW os, NEW nid, NEW e, NEW rq, NEW op, NEW rs, NEW s \in Sides,
           NEW price \in Prices \cup {Price_INVALID}, NEW qty \in Clips,
           Sound(os, nid, rq, op, rs),
           position_ \in Int, Limited(position_, rq, op, rs)
    PROVE  LET after == Manager!MoveOrder(Now(os, nid, e, rq), s, price, qty) IN
           /\ after = Now(after.orders, after.next_order_id_, after.exited, after.requests)
           /\ after.next_order_id_ \in Nat /\ nid <= after.next_order_id_
           /\ after.next_order_id_ <= MaxOrders + 1 =>
                /\ Sound(after.orders, after.next_order_id_, after.requests, op, rs)
                /\ Limited(position_, after.requests, op, rs)
<1> PICK after : after = Manager!MoveOrder(Now(os, nid, e, rq), s, price, qty)
  OBVIOUS
<1>1. nid \in 1 .. MaxOrders + 1 /\ MaxOrders \in Nat /\ nid \in Nat
  BY StrategyAssumption DEF Sound, Typed
<1>2. CASE after = Now(os, nid, e, rq)
  BY <1>1, <1>2 DEF Now
<1>3. CASE /\ os[s].order_state_ = "LIVE"
           /\ after = Now(Put(os, s, Canceling(os[s])),
                          nid, Manager!LoggedFatally, Append(rq, CancelRequest(s, os[s])))
  <2>1. PICK rq2 : rq2 = Append(rq, CancelRequest(s, os[s]))
    OBVIOUS
  <2>2. PICK os2 : os2 = Put(os, s, Canceling(os[s]))
    OBVIOUS
  <2>3. Sound(os2, nid, rq2, op, rs) /\ \A t \in Sides : Left(rq2, op, rs, t) = Left(rq, op, rs, t)
    <3>1. os[s].order_state_ = "LIVE"
      BY <1>3
    <3>2. Sound(Put(os, s, Canceling(os[s])), nid, Append(rq, CancelRequest(s, os[s])), op, rs)
      BY ONLY Sound(os, nid, rq, op, rs), s \in Sides, <3>1, CancelOrderSound
    <3>3. \A t \in Sides :
             Left(Append(rq, CancelRequest(s, os[s])), op, rs, t) = Left(rq, op, rs, t)
      BY ONLY Sound(os, nid, rq, op, rs), s \in Sides, <3>1, CancelOrderSound
    <3> QED
      BY <2>1, <2>2, <3>2, <3>3
  <2>4. Limited(position_, rq2, op, rs)
    BY <2>3, SidesAre DEF Limited
  <2>5. after = Now(os2, nid, Manager!LoggedFatally, rq2)
    BY <1>3, <2>1, <2>2
  <2>6. /\ after.orders = os2 /\ after.next_order_id_ = nid /\ after.requests = rq2
        /\ after = Now(after.orders, after.next_order_id_, after.exited, after.requests)
    BY <2>5 DEF Now
  <2> QED
    BY <1>1, <2>3, <2>4, <2>6
<1>4. CASE /\ Manager!Idle(os[s]) /\ price # Price_INVALID /\ Manager!Allowed(s, qty)
           /\ after = Now(Put(os, s, NewOM(nid, price, qty)), nid + 1,
                          Manager!LoggedFatally, Append(rq, NewRequest(s, nid, price, qty)))
  <2>1. PICK rq2 : rq2 = Append(rq, NewRequest(s, nid, price, qty))
    OBVIOUS
  <2>2. PICK os2 : os2 = Put(os, s, NewOM(nid, price, qty))
    OBVIOUS
  <2>3. ASSUME nid + 1 <= MaxOrders + 1
        PROVE  Sound(os2, nid + 1, rq2, op, rs) /\ Limited(position_, rq2, op, rs)
    <3>1. nid <= MaxOrders /\ price \in Prices
      BY <1>1, <1>4, <2>3
    <3>2. /\ Sound(os2, nid + 1, rq2, op, rs)
          /\ Left(rq2, op, rs, s) = qty
          /\ \A t \in Sides \ {s} : Left(rq2, op, rs, t) = Left(rq, op, rs, t)
      <4>1. Manager!Idle(os[s])
        BY <1>4
      <4>2. Sound(Put(os, s, NewOM(nid, price, qty)), nid + 1,
                  Append(rq, NewRequest(s, nid, price, qty)), op, rs)
        BY ONLY Sound(os, nid, rq, op, rs), s \in Sides, qty \in Clips, <3>1, <4>1, NewOrderSound
      <4>3. ASSUME NEW t \in Sides
            PROVE  Left(Append(rq, NewRequest(s, nid, price, qty)), op, rs, t) =
                     IF t = s THEN qty ELSE Left(rq, op, rs, t)
        BY ONLY t \in Sides, Sound(os, nid, rq, op, rs), s \in Sides, qty \in Clips,
                <3>1, <4>1, NewOrderLeft, Z3
      <4> QED
        BY <2>1, <2>2, <4>2, <4>3
    <3>3. Manager!Abs(position_ + s * qty) <= max_position_
      BY <1>4 DEF Manager!Allowed
    <3>4. max_position_ \in Nat /\ qty \in Nat
      BY StrategyAssumption
    <3>5. CASE s = BUY
      <4>1. position_ + qty <= max_position_
        BY <3>3, <3>4, <3>5, SidesAre DEF Manager!Abs
      <4>2. Left(rq2, op, rs, SELL) = Left(rq, op, rs, SELL)
        BY <3>2, <3>5, SidesAre
      <4> QED
        BY <3>2, <3>5, <4>1, <4>2 DEF Limited
    <3>6. CASE s = SELL
      <4>1. position_ - qty >= -max_position_
        BY <3>3, <3>4, <3>6, SidesAre DEF Manager!Abs
      <4>2. Left(rq2, op, rs, BUY) = Left(rq, op, rs, BUY)
        BY <3>2, <3>6, SidesAre
      <4> QED
        BY <3>2, <3>6, <4>1, <4>2 DEF Limited
    <3> QED
      BY <3>2, <3>5, <3>6, SidesAre
  <2>4. after = Now(os2, nid + 1, Manager!LoggedFatally, rq2)
    BY <1>4, <2>1, <2>2
  <2>5. /\ after.orders = os2 /\ after.next_order_id_ = nid + 1 /\ after.requests = rq2
        /\ after = Now(after.orders, after.next_order_id_, after.exited, after.requests)
    BY <2>4 DEF Now
  <2> QED
    BY <1>1, <2>3, <2>5
<1>5. \/ after = Now(os, nid, e, rq)
      \/ /\ os[s].order_state_ = "LIVE"
         /\ after = Now(Put(os, s, Canceling(os[s])),
                        nid, Manager!LoggedFatally, Append(rq, CancelRequest(s, os[s])))
      \/ /\ Manager!Idle(os[s]) /\ price # Price_INVALID /\ Manager!Allowed(s, qty)
         /\ after = Now(Put(os, s, NewOM(nid, price, qty)), nid + 1,
                        Manager!LoggedFatally, Append(rq, NewRequest(s, nid, price, qty)))
  BY MoveOrderIs
<1> QED
  BY <1>2, <1>3, <1>4, <1>5
----------------------------------------------------------------------------
LEMMA InitIInv == Init => IInv
<1> SUFFICES ASSUME Init PROVE IInv
  OBVIOUS
<1>1. /\ orders = [s \in Sides \cup {Manager!INVALID_SIDE} |-> Manager!NoOMOrder]
      /\ next_order_id_ = 1 /\ requests = <<>> /\ open = {} /\ responses = <<>>
      /\ position_ = 0 /\ volume_ = 0
  BY DEF Init, Manager!Init, Keeper!Init, Sides
<1>2. Manager!NoOMOrder \in OMOrders /\ Manager!Idle(Manager!NoOMOrder)
      /\ Manager!NoOMOrder.order_id_ = 0
  BY StrategyAssumption DEF Manager!NoOMOrder, OMOrders, Manager!Idle
<1>3. Typed(orders, next_order_id_, requests, open, responses)
  BY <1>1, <1>2, StrategyAssumption DEF Typed
<1>4. Numbered(orders, next_order_id_)
  BY <1>1, <1>2, SidesAre DEF Numbered
<1>5. ASSUME NEW t \in Sides PROVE Left(requests, open, responses, t) = 0
  <2>1. requests \in Seq(Requests) /\ responses \in Seq(Responses)
        /\ (\A i \in 1 .. Len(requests) : AskedBy(requests[i], t) = 0)
        /\ \A i \in 1 .. Len(responses) : ExecutedBy(responses[i], t) = 0
    BY <1>1
  <2>2. Asked(requests, t) = 0 /\ Executed(responses, t) = 0
    BY <2>1, AskedSums, ExecutedSums
  <2>3. OpenQty(open, t) = 0
    BY <1>1 DEF OpenQty, OpenOn
  <2> QED
    BY <2>2, <2>3 DEF Left
<1>6. ASSUME NEW t \in Sides PROVE OneOrder(orders[t], requests, open, responses, t)
  <2>1. orders[t] = Manager!NoOMOrder
    BY <1>1
  <2> QED
    BY <1>1, <1>2, <1>5, <2>1
       DEF OneOrder, AskedOnce, OpenOnce, AcceptedFirst, CanceledLast, Agrees, CanceledIn
<1>7. Limited(position_, requests, open, responses)
  BY <1>1, <1>5, SidesAre, StrategyAssumption DEF Limited
<1> QED
  BY <1>1, <1>3, <1>4, <1>6, <1>7 DEF IInv, Sound

LEMMA MoveOrdersIInv ==
    ASSUME IInv, MoveOrders PROVE IInv'
<1>1. PICK bid, ask \in Prices \cup {Price_INVALID}, clip \in Clips :
        Manager!MoveOrders(bid, ask, clip)
  BY DEF MoveOrders
<1>2. UNCHANGED <<open, responses, position_, volume_>> /\ next_order_id_' <= MaxOrders + 1
  BY DEF MoveOrders, keeperVars, exchangeVars
<1>3. PICK first : first =
        Manager!MoveOrder(Now(orders, next_order_id_, exited, requests), Manager!BUY, bid, clip)
  OBVIOUS
<1>4. PICK after : after = Manager!MoveOrder(first, Manager!SELL, ask, clip)
  OBVIOUS
<1>5. /\ orders' = after.orders /\ next_order_id_' = after.next_order_id_
      /\ requests' = after.requests
  BY <1>1, <1>3, <1>4 DEF Manager!MoveOrders, Now
<1>6. Manager!BUY \in Sides /\ Manager!SELL \in Sides
  BY SidesAre DEF BUY, SELL
<1>7. /\ first = Now(first.orders, first.next_order_id_, first.exited, first.requests)
      /\ first.next_order_id_ \in Nat /\ next_order_id_ <= first.next_order_id_
      /\ first.next_order_id_ <= MaxOrders + 1 =>
           /\ Sound(first.orders, first.next_order_id_, first.requests, open, responses)
           /\ Limited(position_, first.requests, open, responses)
  <2>1. /\ Sound(orders, next_order_id_, requests, open, responses) /\ position_ \in Int
        /\ Limited(position_, requests, open, responses)
        /\ bid \in Prices \cup {Price_INVALID} /\ clip \in Clips
    BY DEF IInv
  <2> QED
    BY ONLY <1>3, <1>6, <2>1, MoveOrderSound
<1>8. PICK os, nid, e, rq : first = Now(os, nid, e, rq) /\ nid \in Nat
        /\ (nid <= MaxOrders + 1 => Sound(os, nid, rq, open, responses)
                                    /\ Limited(position_, rq, open, responses))
  BY <1>7
<1>9. after.next_order_id_ <= MaxOrders + 1 => nid <= MaxOrders + 1
  <2>1. \/ after.next_order_id_ = nid
        \/ after.next_order_id_ = nid + 1
    <3>1. PICK last : last = Manager!MoveOrder(Now(os, nid, e, rq), Manager!SELL, ask, clip)
      OBVIOUS
    <3>2. \/ last = Now(os, nid, e, rq)
          \/ \E os2, e2, rq2 : last = Now(os2, nid, e2, rq2)
          \/ \E os2, e2, rq2 : last = Now(os2, nid + 1, e2, rq2)
      BY ONLY <3>1, MoveOrderIs
    <3>3. last.next_order_id_ = nid \/ last.next_order_id_ = nid + 1
      BY <3>2 DEF Now
    <3> QED
      BY <1>4, <1>8, <3>1, <3>3
  <2> QED
    BY <1>8, <2>1, StrategyAssumption
<1>10. nid <= MaxOrders + 1
  BY <1>2, <1>5, <1>9
<1>11. /\ Sound(after.orders, after.next_order_id_, after.requests, open, responses)
       /\ Limited(position_, after.requests, open, responses)
  <2>1. position_ \in Int
    BY DEF IInv
  <2>2. after = Manager!MoveOrder(Now(os, nid, e, rq), Manager!SELL, ask, clip)
    BY <1>4, <1>8
  <2>3. after.next_order_id_ <= MaxOrders + 1
    BY <1>2, <1>5
  <2> QED
    BY <1>6, <1>8, <1>10, <2>1, <2>2, <2>3, MoveOrderSound
<1> QED
  BY <1>2, <1>5, <1>11 DEF IInv

LEMMA UpdateBBOIInv ==
    ASSUME IInv, UpdateBBO PROVE IInv'
<1>1. UNCHANGED <<orders, next_order_id_, requests, open, responses, position_, volume_>>
  BY DEF UpdateBBO, Keeper!UpdateBBO, managerVars, exchangeVars
<1> QED
  BY <1>1 DEF IInv
----------------------------------------------------------------------------
(* onOrderUpdate and addFill, as a whole.                                   *)

LEMMA HandleResponseIInv ==
    ASSUME IInv, HandleResponse PROVE IInv'
<1>1. /\ Sound(orders, next_order_id_, requests, open, responses)
      /\ position_ \in Int /\ volume_ \in Nat
      /\ Limited(position_, requests, open, responses)
  BY DEF IInv
<1>2. PICK r : r = responses[1]
  OBVIOUS
<1>3. responses # <<>> /\ responses' = Tail(responses) /\ UNCHANGED open
  BY DEF HandleResponse
<1>4. Head(responses) = r /\ r \in Responses
  BY <1>1, <1>2, <1>3, Heard
<1>5. /\ Manager!OnOrderUpdate(r)
      /\ IF r.type_ = "FILLED" THEN Keeper!AddFill(r.side_, r.price_, r.exec_qty_)
         ELSE UNCHANGED <<position_, volume_>>
  BY <1>4 DEF HandleResponse, keeperVars
<1>6. UNCHANGED <<next_order_id_, requests>>
  BY <1>5 DEF Manager!OnOrderUpdate
<1>7. orders \in [Sides \cup {Manager!INVALID_SIDE} -> OMOrders]
  BY <1>1 DEF Sound, Typed
<1>8. Sound(orders', next_order_id_, requests, open, Tail(responses))
  <2>1. CASE r.side_ \in Sides
    <3>1. PICK s \in Sides : s = r.side_
      BY <2>1
    <3>2. PICK o : o = Updated(orders[s], r)
      OBVIOUS
    <3>3. orders' = Put(orders, s, o)
      BY <1>5, <1>7, <3>1, <3>2 DEF Manager!OnOrderUpdate, Updated, Put
    <3>4. /\ o \in OMOrders /\ o.order_id_ = orders[s].order_id_
          /\ Agrees(o, requests, open, Tail(responses), s)
      BY ONLY <1>1, <1>2, <1>3, <3>1, <3>2, UpdatedAgrees
    <3>5. Sound(Put(orders, s, o), next_order_id_, requests, open, Tail(responses))
      BY ONLY <1>1, <1>2, <1>3, <3>1, <3>4, UpdateSound DEF Put
    <3> QED
      BY <3>3, <3>5
  <2>2. CASE r.side_ \notin Sides
    <3>1. r.side_ = Manager!INVALID_SIDE /\ r.type_ = "CANCEL_REJECTED"
      BY <1>4, <2>2 DEF Responses
    <3>2. orders' = orders
      BY <1>5, <1>7, <3>1 DEF Manager!OnOrderUpdate
    <3>3. Sound(orders, next_order_id_, requests, open, Tail(responses))
      BY ONLY <1>1, <1>2, <1>3, <2>2, PassedOverSound
    <3> QED
      BY <3>2, <3>3
  <2> QED
    BY <2>1, <2>2
<1>9. ASSUME NEW t \in Sides
      PROVE  /\ Left(requests, open, Tail(responses), t) =
                  Left(requests, open, responses, t) - ExecutedBy(r, t)
             /\ Left(requests, open, responses, t) \in Nat
  BY <1>1, <1>2, <1>3, Heard, LeftIs
<1>10. /\ position_' \in Int /\ volume_' \in Nat
       /\ Limited(position_', requests, open, Tail(responses))
  <2>1. CASE r.type_ = "FILLED"
    <3>1. r.side_ \in Sides /\ r.exec_qty_ \in Nat
      BY <1>4, <2>1 DEF Responses
    <3>2. position_' = position_ + r.side_ * r.exec_qty_ /\ volume_' = volume_ + r.exec_qty_
      BY <1>5, <2>1 DEF Keeper!AddFill
    <3>3. \A t \in Sides : ExecutedBy(r, t) = IF t = r.side_ THEN r.exec_qty_ ELSE 0
      BY <2>1 DEF ExecutedBy
    <3> QED
      BY <1>1, <1>9, <3>1, <3>2, <3>3, SidesAre, StrategyAssumption DEF Limited
  <2>2. CASE r.type_ # "FILLED"
    <3>1. \A t \in Sides : ExecutedBy(r, t) = 0
      BY <2>2 DEF ExecutedBy
    <3>2. UNCHANGED <<position_, volume_>>
      BY <1>5, <2>2
    <3> QED
      BY <1>1, <1>9, <3>1, <3>2, SidesAre, StrategyAssumption DEF Limited
  <2> QED
    BY <2>1, <2>2
<1> QED
  BY <1>3, <1>6, <1>8, <1>10 DEF IInv
----------------------------------------------------------------------------
(* The exchange's steps, as a whole.                                        *)

ResponseOf(type, o, price, exec_qty, leaves_qty) ==
    [type_ |-> type, side_ |-> o.side_, order_id_ |-> o.order_id_,
     price_ |-> price, exec_qty_ |-> exec_qty, leaves_qty_ |-> leaves_qty]

\* A response appended.
LEMMA Sent ==
    ASSUME NEW rs \in Seq(Responses),
           NEW type, NEW o, NEW price, NEW exec_qty, NEW leaves_qty
    PROVE  rs \o Exchange!Response(type, o, price, exec_qty, leaves_qty) =
             Append(rs, ResponseOf(type, o, price, exec_qty, leaves_qty))
<1>1. PICK a : a = ResponseOf(type, o, price, exec_qty, leaves_qty)
  OBVIOUS
<1>2. Exchange!Response(type, o, price, exec_qty, leaves_qty) = <<a>>
  BY <1>1 DEF Exchange!Response, ResponseOf
<1>3. rs \o <<a>> = Append(rs, a)
  OBVIOUS
<1> QED
  BY <1>1, <1>2, <1>3

LEMMA TakeRequestIInv ==
    ASSUME IInv, TakeRequest PROVE IInv'
<1>1. /\ Sound(orders, next_order_id_, requests, open, responses)
      /\ position_ \in Int /\ volume_ \in Nat
      /\ Limited(position_, requests, open, responses)
  BY DEF IInv
<1>2. /\ requests # <<>> /\ requests' = Tail(requests)
      /\ UNCHANGED <<orders, next_order_id_, position_, volume_>>
  BY DEF TakeRequest, keeperVars
<1>3. /\ requests \in Seq(Requests) /\ responses \in Seq(Responses) /\ open \subseteq OpenOrders
      /\ \A t \in Sides : OneOrder(orders[t], requests, open, responses, t)
      /\ Numbered(orders, next_order_id_)
  BY <1>1 DEF Sound, Typed
<1>4. PICK r \in Requests : r = Head(requests)
  BY <1>2, <1>3
<1>5. r.side_ \in Sides /\ r.order_id_ \in 0 .. MaxOrders
  BY <1>4 DEF Requests
\* Enough: the orders stay sound, and no more is left of them.
<1>6. SUFFICES /\ Sound(orders, next_order_id_, requests', open', responses')
               /\ \A t \in Sides : Left(requests', open', responses', t) <=
                                     Left(requests, open, responses, t)
  <2>1. ASSUME Sound(orders, next_order_id_, requests', open', responses'),
               \A t \in Sides : Left(requests', open', responses', t) <=
                                  Left(requests, open, responses, t)
        PROVE  IInv'
    <3>1. Left(requests', open', responses', BUY) \in Nat
          /\ Left(requests', open', responses', SELL) \in Nat
      BY <2>1, SidesAre, LeftIs
    <3>2. Left(requests, open, responses, BUY) \in Nat
          /\ Left(requests, open, responses, SELL) \in Nat
      BY <1>1, SidesAre, LeftIs
    <3>3. Limited(position_, requests', open', responses')
      BY <1>1, <2>1, <3>1, <3>2, SidesAre, StrategyAssumption DEF Limited
    <3> QED
      BY <1>1, <1>2, <2>1, <3>3 DEF IInv
  <2> QED
    BY <2>1
<1>7. CASE r.type_ = "NEW"
  <2>1. PICK p : p = OrderOf(r)
    OBVIOUS
  <2>2. PICK a : a = ResponseOf("ACCEPTED", p, p.price_, 0, p.qty_)
    OBVIOUS
  <2>3. p.qty_ # 0 /\ p.side_ = r.side_
    BY <1>4, <1>7, <2>1 DEF Requests, OrderOf
  <2>4. a \in Responses /\ a.type_ = "ACCEPTED" /\ a.side_ = p.side_
    BY <1>4, <1>5, <1>7, <2>1, <2>2, SidesAre
       DEF Requests, Responses, ResponseOf, Quantities, OrderOf
  <2>5. open' = open \cup {p} /\ responses' = Append(responses, a)
    <3>1. Become(Exchange!Accepted(open, p))
      BY <1>4, <1>7, <2>1 DEF TakeRequest, OrderOf
    <3>2. responses \o Exchange!Response("ACCEPTED", p, p.price_, 0, p.qty_) = Append(responses, a)
      BY <1>3, <2>2, Sent
    <3> QED
      BY <2>3, <3>1, <3>2 DEF Become, Exchange!Accepted
  <2>6. /\ Sound(orders, next_order_id_, Tail(requests), open \cup {p}, Append(responses, a))
        /\ \A t \in Sides : Left(Tail(requests), open \cup {p}, Append(responses, a), t) =
                              Left(requests, open, responses, t)
    <3>1. Head(requests).type_ = "NEW" /\ a.side_ = Head(requests).side_
      BY <1>4, <1>7, <2>3, <2>4
    <3>2. /\ Sound(orders, next_order_id_, Tail(requests), open \cup {OrderOf(Head(requests))},
                   Append(responses, a))
          /\ \A t \in Sides :
                Left(Tail(requests), open \cup {OrderOf(Head(requests))},
                     Append(responses, a), t) =
                  Left(requests, open, responses, t)
      <4>1. Sound(orders, next_order_id_, requests, open, responses)
        BY ONLY <1>1
      <4>2. requests # <<>> /\ Head(requests).type_ = "NEW"
        BY ONLY <1>2, <3>1
      <4>3. a \in Responses /\ a.type_ = "ACCEPTED" /\ a.side_ = Head(requests).side_
        BY ONLY <2>4, <3>1
      <4> QED
        BY ONLY <4>1, <4>2, <4>3, TakeNewSound
    <3>3. p = OrderOf(Head(requests))
      BY ONLY <1>4, <2>1
    <3> QED
      BY ONLY <3>2, <3>3, Zenon
  <2>7. \A t \in Sides : Left(requests, open, responses, t) \in Nat
    BY <1>1, LeftIs
  <2>8. ASSUME NEW t \in Sides
        PROVE  Left(Tail(requests), open \cup {p}, Append(responses, a), t) <=
                 Left(requests, open, responses, t)
    BY <2>6, <2>7
  <2> QED
    BY <1>2, <2>5, <2>6, <2>8, Zenon
<1>8. CASE r.type_ # "NEW"
  <2>1. /\ Sound(orders, next_order_id_, Tail(requests), open, responses)
        /\ \A t \in Sides : Left(Tail(requests), open, responses, t) =
                              Left(requests, open, responses, t)
    BY ONLY <1>1, <1>2, <1>4, <1>8, TakeCancelSound
  <2>2. Become(Exchange!CancelTaken(open, r.order_id_))
    BY <1>4, <1>8 DEF TakeRequest
  <2>3. PICK found : found = {o \in open : o.order_id_ = r.order_id_}
    OBVIOUS
  <2>4. \A t \in Sides : Left(requests, open, responses, t) \in Nat
    BY <1>1, LeftIs
  <2>5. CASE found = {}
    <3>1. PICK o : o = [side_ |-> Manager!INVALID_SIDE, order_id_ |-> r.order_id_]
      OBVIOUS
    <3>2. PICK a : a = ResponseOf("CANCEL_REJECTED", o, Price_INVALID, Price_INVALID, Price_INVALID)
      OBVIOUS
    <3>3. a \in Responses /\ a.type_ = "CANCEL_REJECTED"
      BY <1>5, <3>1, <3>2 DEF Responses, ResponseOf, Quantities
    <3>4. open' = open /\ responses' = Append(responses, a)
      <4>1. responses \o Exchange!Response("CANCEL_REJECTED", o, Price_INVALID, Price_INVALID,
                                           Price_INVALID) = Append(responses, a)
        BY <1>3, <3>2, Sent
      <4> QED
        BY <2>2, <2>3, <2>5, <3>1, <4>1 DEF Become, Exchange!CancelTaken, Exchange!Named
    <3>5. /\ Sound(orders, next_order_id_, Tail(requests), open, Append(responses, a))
          /\ \A t \in Sides : Left(Tail(requests), open, Append(responses, a), t) =
                                Left(Tail(requests), open, responses, t)
      BY ONLY <2>1, <3>3, RejectSound
    <3> QED
      BY <1>2, <2>1, <2>4, <3>4, <3>5
  <2>6. CASE found # {}
    <3>1. PICK p \in found : p = CHOOSE o \in found : TRUE
      BY <2>6
    <3>2. p \in open /\ p.order_id_ = r.order_id_ /\ p \in OpenOrders /\ p.side_ \in Sides
      BY <1>3, <2>3, <3>1 DEF OpenOrders
    <3>3. found = {p}
      <4> SUFFICES ASSUME NEW q \in found PROVE q = p
        BY <3>1
      <4>1. q \in open /\ q.order_id_ = p.order_id_ /\ q \in OpenOrders /\ q.side_ \in Sides
            /\ p.order_id_ # 0
        BY <1>3, <2>3, <3>2 DEF OpenOrders
      <4>2. q.order_id_ = orders[q.side_].order_id_ /\ p.order_id_ = orders[p.side_].order_id_
        BY <1>3, <3>2, <4>1 DEF OneOrder, OpenOnce
      <4>3. q.side_ = p.side_
        BY <1>3, <3>2, <4>1, <4>2, SidesAre DEF Numbered
      <4> QED
        BY <1>3, <3>2, <4>1, <4>3 DEF OneOrder, OpenOnce
    <3>4. PICK a : a = ResponseOf("CANCELED", p, p.price_, Price_INVALID, p.qty_)
      OBVIOUS
    <3>5. a \in Responses /\ a.type_ = "CANCELED" /\ a.side_ = p.side_
      BY <3>2, <3>4, SidesAre, StrategyAssumption
         DEF Responses, ResponseOf, Quantities, OpenOrders
    <3>6. open' = open \ {p} /\ responses' = Append(responses, a)
      <4>1. responses \o Exchange!Response("CANCELED", p, p.price_, Price_INVALID, p.qty_)
              = Append(responses, a)
        BY <1>3, <3>4, Sent
      <4> QED
        BY <2>2, <2>3, <2>6, <3>1, <3>3, <4>1 DEF Become, Exchange!CancelTaken, Exchange!Named
    <3>7. /\ Sound(orders, next_order_id_, Tail(requests), open \ {p}, Append(responses, a))
          /\ \A t \in Sides : Left(Tail(requests), open \ {p}, Append(responses, a), t) <=
                                Left(Tail(requests), open, responses, t)
      BY ONLY <2>1, <3>2, <3>5, CancelOpenSound
    <3> QED
      BY <1>2, <2>1, <2>4, <3>6, <3>7
  <2> QED
    BY <2>5, <2>6
<1> QED
  BY <1>7, <1>8

\* An order that is filled, in part or all of it.
LEMMA FilledSound ==
    ASSUME NEW os, NEW nid, NEW rq, NEW op, NEW rs, Sound(os, nid, rq, op, rs),
           NEW p \in op, NEW price \in Prices, NEW qty \in 1 .. p.qty_,
           NEW f, f = Exchange!Filled(op, p, price, qty)
    PROVE  /\ Sound(os, nid, rq, f.open, rs \o f.sent)
           /\ \A t \in Sides : Left(rq, f.open, rs \o f.sent, t) = Left(rq, op, rs, t)
           /\ \A q \in op : q # p => q \in f.open
           /\ \E a \in Responses : f.sent = <<a>>
<1>1. op \subseteq OpenOrders /\ rs \in Seq(Responses)
  BY DEF Sound, Typed
<1>2. p \in OpenOrders /\ p.qty_ \in Nat \ {0} /\ qty \in Nat \ {0} /\ qty <= p.qty_
  BY <1>1 DEF OpenOrders
<1>3. PICK a : a = ResponseOf("FILLED", p, price, qty, p.qty_ - qty)
  OBVIOUS
<1>4. a \in Responses /\ a.type_ = "FILLED" /\ a.side_ = p.side_ /\ a.exec_qty_ = qty
  BY <1>2, <1>3, SidesAre DEF OpenOrders, Responses, ResponseOf, Quantities
<1>5. f.sent = Exchange!Response("FILLED", p, price, qty, p.qty_ - qty)
      /\ f.open = (op \ {p}) \cup (IF qty = p.qty_ THEN {} ELSE {[p EXCEPT !.qty_ = @ - qty]})
  BY DEF Exchange!Filled
<1>6. rs \o f.sent = Append(rs, a)
  BY <1>1, <1>3, <1>5, Sent
<1>7. PICK op2 : op2 = (op \ {p}) \cup
               (IF a.exec_qty_ = p.qty_ THEN {} ELSE {[p EXCEPT !.qty_ = @ - a.exec_qty_]})
  OBVIOUS
<1>8. f.open = op2
  BY <1>4, <1>5, <1>7
<1>9. a.exec_qty_ \in 1 .. p.qty_
  BY <1>4
<1>10. /\ Sound(os, nid, rq, op2, Append(rs, a))
       /\ \A t \in Sides : Left(rq, op2, Append(rs, a), t) = Left(rq, op, rs, t)
  BY ONLY Sound(os, nid, rq, op, rs), p \in op, <1>4, <1>7, <1>9, FillSound
<1>11. f.sent = <<a>>
  BY <1>3, <1>5 DEF Exchange!Response, ResponseOf
<1> QED
  BY <1>4, <1>5, <1>6, <1>8, <1>10, <1>11

LEMMA TradeIInv ==
    ASSUME IInv, Trade PROVE IInv'
<1>1. /\ Sound(orders, next_order_id_, requests, open, responses)
      /\ position_ \in Int /\ volume_ \in Nat
      /\ Limited(position_, requests, open, responses)
  BY DEF IInv
<1>2. UNCHANGED <<orders, next_order_id_, requests, position_, volume_>>
  BY DEF Trade, managerVars, keeperVars
<1>3. PICK price \in Prices : \E outcome \in Exchange!Trades(open, price) : Become(outcome)
  BY DEF Trade
<1>4. PICK outcome \in Exchange!Trades(open, price) :
        open' = outcome.open /\ responses' = responses \o outcome.sent
  BY <1>3 DEF Become
<1>5. open \subseteq OpenOrders /\ responses \in Seq(Responses)
  BY <1>1 DEF Sound, Typed
\* Enough: the orders stay sound, and the same is left of them.
<1>6. SUFFICES /\ Sound(orders, next_order_id_, requests, open', responses')
               /\ \A t \in Sides : Left(requests, open', responses', t) =
                                     Left(requests, open, responses, t)
  BY <1>1, <1>2, SidesAre DEF IInv, Limited
<1>7. \/ \E o \in open : \E qty \in 1 .. o.qty_ : outcome = Exchange!Filled(open, o, price, qty)
      \/ \E o, p \in open : \E qty \in 1 .. o.qty_ :
            /\ p.side_ # o.side_ /\ qty <= p.qty_
            /\ outcome = Exchange!FilledBoth(open, o, p, price, qty)
  BY <1>4 DEF Exchange!Trades
<1>8. CASE \E o \in open : \E qty \in 1 .. o.qty_ : outcome = Exchange!Filled(open, o, price, qty)
  <2>1. PICK o \in open : \E qty \in 1 .. o.qty_ : outcome = Exchange!Filled(open, o, price, qty)
    BY <1>8
  <2>2. PICK qty \in 1 .. o.qty_ : outcome = Exchange!Filled(open, o, price, qty)
    BY <2>1
  <2>3. /\ Sound(orders, next_order_id_, requests, outcome.open, responses \o outcome.sent)
        /\ \A t \in Sides : Left(requests, outcome.open, responses \o outcome.sent, t) =
                              Left(requests, open, responses, t)
    BY ONLY <1>1, <2>1, <2>2, price \in Prices, FilledSound
  <2> QED
    BY <1>4, <2>3, Zenon
<1>9. CASE \E o, p \in open : \E qty \in 1 .. o.qty_ :
            /\ p.side_ # o.side_ /\ qty <= p.qty_
            /\ outcome = Exchange!FilledBoth(open, o, p, price, qty)
  <2>1. PICK o \in open, p \in open : \E qty \in 1 .. o.qty_ :
            /\ p.side_ # o.side_ /\ qty <= p.qty_
            /\ outcome = Exchange!FilledBoth(open, o, p, price, qty)
    BY <1>9
  <2>2. PICK qty \in 1 .. o.qty_ :
            /\ p.side_ # o.side_ /\ qty <= p.qty_
            /\ outcome = Exchange!FilledBoth(open, o, p, price, qty)
    BY <2>1
  <2>3. PICK first : first = Exchange!Filled(open, o, price, qty)
    OBVIOUS
  <2>4. PICK second : second = Exchange!Filled(first.open, p, price, qty)
    OBVIOUS
  <2>5. outcome.open = second.open /\ outcome.sent = first.sent \o second.sent
    BY <2>2, <2>3, <2>4 DEF Exchange!FilledBoth
  <2>6. /\ Sound(orders, next_order_id_, requests, first.open, responses \o first.sent)
        /\ \A t \in Sides : Left(requests, first.open, responses \o first.sent, t) =
                              Left(requests, open, responses, t)
        /\ \A q \in open : q # o => q \in first.open
        /\ \E a \in Responses : first.sent = <<a>>
    BY ONLY <1>1, <2>1, <2>2, <2>3, price \in Prices, FilledSound
  <2>7. p \in first.open /\ qty \in 1 .. p.qty_
    BY <1>5, <2>1, <2>2, <2>6 DEF OpenOrders
  <2>8. PICK sent : sent = responses \o first.sent
    OBVIOUS
  <2>9. /\ Sound(orders, next_order_id_, requests, second.open, sent \o second.sent)
        /\ \A t \in Sides : Left(requests, second.open, sent \o second.sent, t) =
                              Left(requests, first.open, sent, t)
        /\ \E b \in Responses : second.sent = <<b>>
    <3>1. Sound(orders, next_order_id_, requests, first.open, sent)
      BY <2>6, <2>8
    <3> QED
      BY ONLY <3>1, <2>4, <2>7, price \in Prices, FilledSound
  <2>10. responses \o (first.sent \o second.sent) = sent \o second.sent
    <3>1. PICK a \in Responses : first.sent = <<a>>
      BY <2>6
    <3>2. PICK b \in Responses : second.sent = <<b>>
      BY <2>9
    <3>3. responses \o (<<a>> \o <<b>>) = (responses \o <<a>>) \o <<b>>
      BY <1>5
    <3> QED
      BY <2>8, <3>1, <3>2, <3>3
  <2>11. open' = second.open /\ responses' = sent \o second.sent
    BY <1>4, <2>5, <2>10
  <2>12. ASSUME NEW t \in Sides
         PROVE  Left(requests, second.open, sent \o second.sent, t) =
                  Left(requests, open, responses, t)
    BY <2>6, <2>8, <2>9
  <2> QED
    BY <2>9, <2>11, <2>12, Zenon
<1> QED
  BY <1>7, <1>8, <1>9
----------------------------------------------------------------------------
LEMMA NextIInv == IInv /\ [Next]_vars => IInv'
<1> SUFFICES ASSUME IInv, [Next]_vars PROVE IInv'
  OBVIOUS
<1>1. CASE UNCHANGED vars
  BY <1>1 DEF IInv, vars, managerVars, keeperVars, exchangeVars
<1> QED
  BY <1>1, MoveOrdersIInv, UpdateBBOIInv, HandleResponseIInv, TakeRequestIInv, TradeIInv DEF Next

THEOREM AlwaysSound == Spec => []IInv
<1>1. Init => IInv
  BY InitIInv
<1>2. IInv /\ [Next]_vars => IInv'
  BY NextIInv
<1> QED
  BY <1>1, <1>2, PTL DEF Spec

\* Whatever the prices and the clips, the manager's orders, their numbers and the
\* orders in the book are what they are declared to be.
THEOREM TypeOKAlways == Spec => []TypeOK
<1>1. IInv => TypeOK
  BY SidesAre, StrategyAssumption
     DEF IInv, Sound, Typed, Numbered, TypeOK, OMOrders, OpenOrders, Manager!NoOMOrder
<1> QED
  BY <1>1, AlwaysSound, PTL

LEMMA OutstandingIs ==
    ASSUME IInv
    PROVE  \A s \in Sides :
              Outstanding(s) = Left(requests, open, responses, s)
              /\ (Canceled(s) <=> CanceledIn(responses, s))
<1>1. responses \in Seq(Responses)
  BY DEF IInv, Sound, Typed
<1> QED
  BY <1>1 DEF Outstanding, Left, Canceled, CanceledIn

\* One order a side: when the manager takes it for dead, nothing of it is asked for,
\* open or filled on the way; until then what is left to be filled is its quantity,
\* or less when the rest was canceled (OMOrder, onOrderUpdate, moveOrder).
THEOREM OrdersAgreeAlways == Spec => []OrdersAgree
<1>1. ASSUME IInv PROVE OrdersAgree
  <2>1. ASSUME NEW s \in Sides
        PROVE  /\ \A o, p \in OpenOn(open, s) : o = p
               /\ IF Manager!Idle(orders[s]) THEN Outstanding(s) = 0 /\ ~Canceled(s)
                  ELSE /\ orders[s].qty_ > 0
                       /\ IF Canceled(s) THEN Outstanding(s) < orders[s].qty_
                          ELSE Outstanding(s) = orders[s].qty_
    <3>1. OneOrder(orders[s], requests, open, responses, s)
      BY <1>1 DEF IInv, Sound
    <3>2. \A o, p \in OpenOn(open, s) : o = p
      BY <3>1 DEF OneOrder, OpenOnce, OpenOn
    <3>3. Outstanding(s) = Left(requests, open, responses, s)
          /\ (Canceled(s) <=> CanceledIn(responses, s))
      BY <1>1, OutstandingIs
    <3> QED
      BY <3>1, <3>2, <3>3 DEF OneOrder, Agrees
  <2> QED
    BY <2>1 DEF OrdersAgree
<1> QED
  BY <1>1, AlwaysSound, PTL

\* checkPreTradeRisk looks at the position alone, and yet no fill of what is
\* outstanding takes the position past max_position_.
THEOREM PositionWithinLimitAlways == Spec => []PositionWithinLimit
<1>1. ASSUME IInv PROVE PositionWithinLimit
  <2>1. Outstanding(BUY) = Left(requests, open, responses, BUY)
        /\ Outstanding(SELL) = Left(requests, open, responses, SELL)
    BY <1>1, OutstandingIs, SidesAre
  <2> QED
    BY <1>1, <2>1 DEF IInv, Limited, PositionWithinLimit
<1> QED
  BY <1>1, AlwaysSound, PTL
=============================================================================
