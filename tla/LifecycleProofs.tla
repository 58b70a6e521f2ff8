-------------------------- MODULE LifecycleProofs --------------------------
(***************************************************************************)
(* What the threads of the exchange and of the client use is not destroyed *)
(* before they have ended, and what is logged is written: for every number *)
(* of requests and updates, whichever loggers are looked at, and pauses    *)
(* long enough for a thread to read what may be in its queue.              *)
(*                                                                         *)
(* The argument: a destructor tells the threads to stop before it sleeps,  *)
(* and main() starts none again (Owed); a thread that has been told to     *)
(* stop has fewer turns left with every turn it takes, and what is in the  *)
(* queues bounds them (TurnsCount, Counts); so when the pause is over they *)
(* have ended, and nobody logs any more when the logger is destroyed.      *)
(***************************************************************************)
EXTENDS Lifecycle, RecursionProofs

CONSTANT Elements       \* the characters of formats, and the values of arguments
----------------------------------------------------------------------------
(* log(): the scan and the rendering.                                      *)

\* The body of the scan, with f for the scan itself.
ScanAt(f, s, args, i) == [used \in 0 .. Len(args) |->
    IF i > Len(s)
      THEN IF used = Len(args) THEN <<>> ELSE <<Invalid>>
    ELSE IF s[i] # Percent
      THEN <<s[i]>> \o f[i + 1][used]
    ELSE IF i < Len(s) /\ s[i + 1] = Percent
      THEN <<Percent>> \o f[i + 2][used]
    ELSE IF used = Len(args)
      THEN <<Invalid>>
      ELSE <<args[used + 1]>> \o f[i + 1][used + 1]]

Scans(f, s, args, k) == \A i \in k .. Len(s) + 1 : f[i] = ScanAt(f, s, args, i)

LEMMA ScanLooksAhead ==
    ASSUME NEW s \in Seq(Elements), NEW args, NEW i \in 1 .. Len(s) + 1,
           NEW f, NEW g, \A j \in i + 1 .. Len(s) + 1 : f[j] = g[j]
    PROVE  ScanAt(f, s, args, i) = ScanAt(g, s, args, i)
<1>1. CASE i > Len(s)
  BY <1>1 DEF ScanAt
<1>2. CASE i = Len(s)
  <2>1. f[i + 1] = g[i + 1] /\ ~(i < Len(s)) /\ ~(i > Len(s))
    BY <1>2
  <2> QED
    BY <2>1 DEF ScanAt
<1>3. CASE i < Len(s)
  <2>1. f[i + 1] = g[i + 1] /\ f[i + 2] = g[i + 2] /\ ~(i > Len(s))
    BY <1>3
  <2> QED
    BY <2>1 DEF ScanAt
<1> QED
  BY <1>1, <1>2, <1>3

LEMMA ScanExists ==
    ASSUME NEW s \in Seq(Elements), NEW args
    PROVE  \E f : f = [i \in 1 .. Len(s) + 1 |-> ScanAt(f, s, args, i)]
<1> DEFINE n == Len(s)
           S == {m \in 0 .. n : \E f : Scans(f, s, args, n + 1 - m)}
<1>0. n \in Nat
  OBVIOUS
<1>1. 0 \in S
  <2> DEFINE f == [i \in {n + 1} |-> ScanAt(<<>>, s, args, i)]
  <2>1. f[n + 1] = ScanAt(f, s, args, n + 1)
    <3>1. n + 1 \in 1 .. Len(s) + 1 /\ \A j \in (n + 1) + 1 .. Len(s) + 1 : <<>>[j] = f[j]
      BY <1>0
    <3>2. ScanAt(<<>>, s, args, n + 1) = ScanAt(f, s, args, n + 1)
      <4> HIDE DEF f
      <4> QED
        BY <3>1, ScanLooksAhead
    <3> QED
      BY <3>2
  <2>2. \A i \in n + 1 .. Len(s) + 1 : i = n + 1
    BY <1>0
  <2>3. Scans(f, s, args, n + 1 - 0)
    <3> HIDE DEF f
    <3> QED
      BY <1>0, <2>1, <2>2 DEF Scans
  <2> QED
    BY <2>3, <1>0
<1>2. ASSUME NEW m \in 1 .. n, m - 1 \in S PROVE m \in S
  <2> DEFINE k == n + 1 - m
  <2>1. PICK f : Scans(f, s, args, k + 1)
    <3>1. n + 1 - (m - 1) = k + 1
      BY <1>0
    <3> QED
      BY <1>2, <3>1
  <2> DEFINE g == [i \in k .. n + 1 |-> IF i = k THEN ScanAt(f, s, args, k) ELSE f[i]]
  <2>2. k \in 1 .. n
    BY <1>0
  <2>3. \A i \in k + 1 .. n + 1 : g[i] = f[i]
    BY <1>0, <2>2
  <2>4. ASSUME NEW i \in k .. n + 1 PROVE g[i] = ScanAt(g, s, args, i)
    <3>1. i \in 1 .. Len(s) + 1 /\ \A j \in i + 1 .. Len(s) + 1 : f[j] = g[j]
      BY <1>0, <2>2, <2>3
    <3>2. ScanAt(f, s, args, i) = ScanAt(g, s, args, i)
      <4> HIDE DEF g
      <4> QED
        BY <3>1, ScanLooksAhead
    <3>3. g[i] = ScanAt(f, s, args, i)
      <4>1. CASE i = k
        BY <4>1, <2>2, <1>0
      <4>2. CASE i # k
        <5>1. i \in k + 1 .. n + 1
          BY <4>2, <2>2, <1>0
        <5> QED
          BY <5>1, <2>1, <2>3 DEF Scans
      <4> QED
        BY <4>1, <4>2
    <3> QED
      BY <3>2, <3>3
  <2>5. Scans(g, s, args, n + 1 - m)
    <3> HIDE DEF g
    <3> QED
      BY <2>4 DEF Scans
  <2> QED
    BY <2>5
<1>3. n \in S
  <2>1. \A i \in 0 .. n : i \in S
    <3> HIDE DEF S
    <3> QED
      BY <1>0, <1>1, <1>2, InductionUpTo
  <2> QED
    BY <2>1, <1>0
<1>4. PICK f : Scans(f, s, args, 1)
  <2>1. n + 1 - n = 1
    BY <1>0
  <2> QED
    BY <1>3, <2>1
<1> DEFINE h == [i \in 1 .. n + 1 |-> f[i]]
<1>5. ASSUME NEW i \in 1 .. n + 1 PROVE f[i] = ScanAt(h, s, args, i)
  <2>1. \A j \in i + 1 .. Len(s) + 1 : f[j] = h[j]
    BY <1>0
  <2>2. ScanAt(f, s, args, i) = ScanAt(h, s, args, i)
    <3> HIDE DEF h
    <3> QED
      BY <2>1, ScanLooksAhead
  <2> QED
    BY <1>4, <2>2 DEF Scans
<1>6. h = [i \in 1 .. Len(s) + 1 |-> ScanAt(h, s, args, i)]
  <2>1. \A i \in 1 .. n + 1 : h[i] = ScanAt(h, s, args, i)
    BY <1>5
  <2>2. h = [i \in 1 .. n + 1 |-> h[i]]
    OBVIOUS
  <2> HIDE DEF h
  <2> QED
    BY <2>1, <2>2
<1> QED
  BY <1>6

\* log() is what a function that satisfies the recursion says of the whole line.
LEMMA LogIsScan ==
    ASSUME NEW s \in Seq(Elements), NEW args \in Seq(Elements)
    PROVE  \E f : L!Log(s, args) = f[1][0] /\ Scans(f, s, args, 1)
<1> DEFINE f == CHOOSE g : g = [i \in 1 .. Len(s) + 1 |-> ScanAt(g, s, args, i)]
<1>1. f = [i \in 1 .. Len(s) + 1 |-> ScanAt(f, s, args, i)]
  BY ScanExists
<1>2. L!Log(s, args) = f[1][0]
  BY DEF L!Log, L!Scan, ScanAt
<1>3. Scans(f, s, args, 1)
  <2> HIDE DEF f
  <2> QED
    BY <1>1 DEF Scans
<1> QED
  BY <1>2, <1>3

----------------------------------------------------------------------------
\* How many members of S there are up to i.
UpTo(S, i) == Cardinality({j \in S : j <= i})

\* Counting step by step.
LEMMA UpToSteps ==
    ASSUME NEW n \in Nat, NEW S, S \subseteq 1 .. n
    PROVE  /\ UpTo(S, 0) = 0
           /\ UpTo(S, n) = Cardinality(S)
           /\ \A i \in 0 .. n : UpTo(S, i) \in Nat
           /\ \A i \in 1 .. n :
                 UpTo(S, i) = UpTo(S, i - 1) + (IF i \in S THEN 1 ELSE 0)
<1>0. \A j \in S : j \in Int /\ 1 <= j /\ j <= n
  OBVIOUS
<1>1. ASSUME NEW i PROVE IsFiniteSet({j \in S : j <= i})
  <2>1. IsFiniteSet(1 .. n)
    BY FS_Interval
  <2>2. {j \in S : j <= i} \subseteq 1 .. n
    OBVIOUS
  <2> QED
    BY ONLY <2>1, <2>2, FS_Subset
<1>2. UpTo(S, 0) = 0
  <2>1. \A j \in S : ~(j <= 0)
    BY <1>0
  <2>2. {j \in S : j <= 0} = {}
    BY ONLY <2>1
  <2> QED
    BY <2>2, FS_EmptySet DEF UpTo
<1>3. UpTo(S, n) = Cardinality(S)
  <2>1. {j \in S : j <= n} = S
    BY ONLY <1>0
  <2> QED
    BY <2>1 DEF UpTo
<1>4. \A i \in 0 .. n : UpTo(S, i) \in Nat
  BY <1>1, FS_CardinalityType DEF UpTo
<1>5. ASSUME NEW i \in 1 .. n
      PROVE  UpTo(S, i) = UpTo(S, i - 1) + (IF i \in S THEN 1 ELSE 0)
  <2> DEFINE T == {j \in S : j <= i - 1}
  <2>1. IsFiniteSet(T) /\ i \notin T
    <3>1. IsFiniteSet(T)
      BY ONLY <1>1
    <3>2. i \notin T
      BY ONLY i \in 1 .. n
    <3> QED
      BY <3>1, <3>2
  <2>2. CASE i \in S
    <3>1. \A j \in S : j <= i <=> j <= i - 1 \/ j = i
      BY ONLY <1>0, i \in 1 .. n
    <3>2. {j \in S : j <= i} = {j \in S : j <= i - 1} \cup {i}
      BY ONLY <2>2, <3>1, i <= i, i \in 1 .. n
    <3>3. {j \in S : j <= i} = T \cup {i}
      BY ONLY <3>2
    <3> HIDE DEF T
    <3>4. Cardinality(T \cup {i}) = Cardinality(T) + 1
      BY <2>1, FS_AddElement
    <3>5. UpTo(S, i - 1) = Cardinality(T)
      BY DEF UpTo, T
    <3> QED
      BY <2>2, <3>3, <3>4, <3>5 DEF UpTo
  <2>3. CASE i \notin S
    <3>1. {j \in S : j <= i} = T
      BY ONLY <1>0, <2>3, i \in 1 .. n
    <3>2. UpTo(S, i - 1) \in Nat
      BY ONLY <1>4, i \in 1 .. n, n \in Nat
    <3> QED
      BY <2>3, <3>1, <3>2 DEF UpTo
  <2> QED
    BY <2>2, <2>3
<1> QED
  BY <1>2, <1>3, <1>4, <1>5

\* The count never falls, and grows at every member.
LEMMA UpToGrows ==
    ASSUME NEW n \in Nat, NEW S, S \subseteq 1 .. n, NEW i \in 0 .. n, NEW j \in i .. n
    PROVE  /\ UpTo(S, i) <= UpTo(S, j)
           /\ i # j /\ j \in S => UpTo(S, i) < UpTo(S, j)
<1> DEFINE Up == {k \in 0 .. n - i : UpTo(S, i) <= UpTo(S, i + k)}
<1>1. 0 \in Up
  <2>1. UpTo(S, i) \in Nat
    BY UpToSteps
  <2>2. i + 0 = i /\ 0 \in 0 .. n - i
    OBVIOUS
  <2> QED
    BY <2>1, <2>2
<1>2. ASSUME NEW k \in 1 .. n - i, k - 1 \in Up PROVE k \in Up
  <2>1. /\ UpTo(S, i) \in Nat /\ UpTo(S, i + (k - 1)) \in Nat
        /\ UpTo(S, i + k) = UpTo(S, i + k - 1) + (IF i + k \in S THEN 1 ELSE 0)
    <3>1. i + k \in 1 .. n /\ i + (k - 1) \in 0 .. n
      OBVIOUS
    <3>2. \A m \in 0 .. n : UpTo(S, m) \in Nat
      BY UpToSteps
    <3>3. \A m \in 1 .. n : UpTo(S, m) = UpTo(S, m - 1) + (IF m \in S THEN 1 ELSE 0)
      BY UpToSteps
    <3> QED
      BY ONLY <3>1, <3>2, <3>3, i \in 0 .. n
  <2>2. i + k - 1 = i + (k - 1)
    OBVIOUS
  <2> QED
    BY <1>2, <2>1, <2>2
<1>3. \A k \in 0 .. n - i : k \in Up
  <2>1. n - i \in Nat
    OBVIOUS
  <2> HIDE DEF Up
  <2> QED
    BY <1>1, <1>2, <2>1, InductionUpTo
<1>4. UpTo(S, i) <= UpTo(S, j)
  <2>1. j - i \in Up /\ i + (j - i) = j
    BY <1>3
  <2> QED
    BY <2>1
<1>5. ASSUME i # j, j \in S PROVE UpTo(S, i) < UpTo(S, j)
  <2>1. j - 1 - i \in Up /\ i + (j - 1 - i) = j - 1
    BY <1>3, <1>5
  <2>2. UpTo(S, j) = UpTo(S, j - 1) + 1 /\ UpTo(S, j - 1) \in Nat /\ UpTo(S, i) \in Nat
    <3>1. j \in 1 .. n /\ j - 1 \in 0 .. n
      BY <1>5
    <3> QED
      BY <1>5, <3>1, UpToSteps
  <2> QED
    BY <2>1, <2>2
<1> QED
  BY <1>4, <1>5

LEMMA SameCardinality == ASSUME NEW S PROVE L!Cardinality(S) = Cardinality(S)
  BY DEF L!Cardinality, Cardinality

\* % signs in a row.
LEMMA RunSteps ==
    ASSUME NEW s \in Seq(Elements), NEW i \in 1 .. Len(s)
    PROVE  /\ L!Run(s, 0) = 0
           /\ L!Run(s, i - 1) \in Nat
           /\ L!Run(s, i) = IF s[i] = Percent THEN L!Run(s, i - 1) + 1 ELSE 0
<1> DEFINE R(m) == {j \in 1 .. m : \A k \in j .. m : s[k] = Percent}
<1>1. IsFiniteSet(R(i - 1))
  <2>1. IsFiniteSet(1 .. i - 1) /\ R(i - 1) \subseteq 1 .. i - 1
    BY FS_Interval
  <2> QED
    BY ONLY <2>1, FS_Subset
<1>2. L!Run(s, 0) = 0
  <2>1. R(0) = {}
    OBVIOUS
  <2> QED
    BY <2>1, FS_EmptySet, SameCardinality DEF L!Run
<1>3. L!Run(s, i - 1) \in Nat
  <2> QED
    BY <1>1, FS_CardinalityType, SameCardinality DEF L!Run
<1>4. CASE s[i] = Percent
  <2>1. R(i) = R(i - 1) \cup {i}
    <3>1. ASSUME NEW j \in R(i) PROVE j \in R(i - 1) \cup {i}
      OBVIOUS
    <3>2. ASSUME NEW j \in R(i - 1) \cup {i} PROVE j \in R(i)
      <4>1. CASE j = i
        BY <4>1, <1>4
      <4>2. CASE j # i
        <5>1. j \in 1 .. i - 1 /\ \A k \in j .. i - 1 : s[k] = Percent
          BY <4>2
        <5>2. \A k \in j .. i : k = i \/ k \in j .. i - 1
          BY <5>1
        <5> QED
          BY <5>1, <5>2, <1>4
      <4> QED
        BY <4>1, <4>2
    <3> QED
      BY <3>1, <3>2
  <2>2. IsFiniteSet(R(i - 1)) /\ i \notin R(i - 1)
    <3>1. i \notin R(i - 1)
      BY ONLY i \in 1 .. Len(s)
    <3> QED
      BY <1>1, <3>1
  <2>3. Cardinality(R(i - 1) \cup {i}) = Cardinality(R(i - 1)) + 1
    <3> HIDE DEF R
    <3> QED
      BY <2>2, FS_AddElement
  <2>4. L!Run(s, i) = Cardinality(R(i)) /\ L!Run(s, i - 1) = Cardinality(R(i - 1))
    BY SameCardinality DEF L!Run
  <2> HIDE DEF R
  <2> QED
    BY <1>2, <1>3, <1>4, <2>1, <2>3, <2>4
<1>5. CASE s[i] # Percent
  <2>1. R(i) = {}
    <3>1. ASSUME NEW j \in R(i) PROVE FALSE
      <4>1. i \in j .. i
        OBVIOUS
      <4> QED
        BY <1>5, <4>1
    <3> QED
      BY <3>1
  <2>2. L!Run(s, i) = Cardinality(R(i))
    BY SameCardinality DEF L!Run
  <2> HIDE DEF R
  <2> QED
    BY <1>2, <1>3, <1>5, <2>1, <2>2, FS_EmptySet
<1> QED
  BY <1>2, <1>3, <1>4, <1>5

----------------------------------------------------------------------------
\* Where the scan may stand: not on the second % of a pair.
Stands(s, i) == i \in DOMAIN s /\ s[i] = Percent => L!Run(s, i - 1) % 2 = 0

LEMMA PlacesAndShown ==
    ASSUME NEW s \in Seq(Elements), NEW i \in 1 .. Len(s)
    PROVE  /\ i \in L!Places(s) <=>
                 L!Run(s, i) % 2 = 1 /\ ~(i + 1 \in 1 .. Len(s) /\ s[i + 1] = Percent)
           /\ i \in L!Shown(s) <=> L!Run(s, i) % 2 = 0 \/ i \in L!Places(s)
  BY DEF L!Places, L!Shown

\* The three things the scan may find where it stands.
LEMMA FindsCharacter ==
    ASSUME NEW s \in Seq(Elements), NEW i \in 1 .. Len(s), s[i] # Percent
    PROVE  i \in L!Shown(s) /\ i \notin L!Places(s) /\ Stands(s, i + 1)
<1>1. L!Run(s, i) = 0
  BY RunSteps
<1>2. 0 % 2 = 0 /\ i + 1 - 1 = i
  OBVIOUS
<1> QED
  BY <1>1, <1>2, PlacesAndShown DEF Stands

LEMMA FindsPlace ==
    ASSUME NEW s \in Seq(Elements), NEW i \in 1 .. Len(s), s[i] = Percent,
           Stands(s, i), ~(i < Len(s) /\ s[i + 1] = Percent)
    PROVE  i \in L!Shown(s) /\ i \in L!Places(s) /\ Stands(s, i + 1)
<1>1. L!Run(s, i) = L!Run(s, i - 1) + 1 /\ L!Run(s, i - 1) \in Nat
  BY RunSteps
<1>2. L!Run(s, i - 1) % 2 = 0
  BY DEF Stands
<1>3. \A m \in Nat : m % 2 = 0 => (m + 1) % 2 = 1
  OBVIOUS
<1>4. L!Run(s, i) % 2 = 1
  BY ONLY <1>1, <1>2, <1>3
<1>5. ~(i + 1 \in 1 .. Len(s) /\ s[i + 1] = Percent)
  OBVIOUS
<1> QED
  BY <1>4, <1>5, PlacesAndShown DEF Stands

LEMMA FindsPair ==
    ASSUME NEW s \in Seq(Elements), NEW i \in 1 .. Len(s), s[i] = Percent,
           Stands(s, i), i < Len(s), s[i + 1] = Percent
    PROVE  /\ i \notin L!Shown(s) /\ i \notin L!Places(s)
           /\ i + 1 \in L!Shown(s) /\ i + 1 \notin L!Places(s)
           /\ Stands(s, i + 2)
<1>0. i + 1 \in 1 .. Len(s) /\ i + 1 - 1 = i /\ i + 2 - 1 = i + 1
  OBVIOUS
<1>1. L!Run(s, i) = L!Run(s, i - 1) + 1 /\ L!Run(s, i - 1) \in Nat
  BY RunSteps
<1>2. L!Run(s, i + 1) = L!Run(s, i) + 1
  BY <1>0, RunSteps
<1>3. L!Run(s, i - 1) % 2 = 0
  BY DEF Stands
<1>4. \A m \in Nat : m % 2 = 0 => (m + 1) % 2 = 1 /\ (m + 1 + 1) % 2 = 0
  OBVIOUS
<1>5. L!Run(s, i) % 2 = 1 /\ L!Run(s, i + 1) % 2 = 0
  BY ONLY <1>1, <1>2, <1>3, <1>4
<1>6. i \notin L!Places(s) /\ i \notin L!Shown(s)
  BY <1>0, <1>5, PlacesAndShown
<1>7. i + 1 \notin L!Places(s) /\ i + 1 \in L!Shown(s)
  BY <1>0, <1>5, PlacesAndShown
<1> QED
  BY <1>0, <1>5, <1>6, <1>7 DEF Stands

LEMMA PlacesAreShown ==
    ASSUME NEW s \in Seq(Elements)
    PROVE  /\ L!Places(s) \subseteq 1 .. Len(s) /\ L!Shown(s) \subseteq 1 .. Len(s)
           /\ L!Places(s) \subseteq L!Shown(s)
  BY DEF L!Places, L!Shown

\* The rendering, place by place.
LEMMA RenderingAt ==
    ASSUME NEW s \in Seq(Elements), NEW args, NEW i \in L!Shown(s)
    PROVE  /\ UpTo(L!Shown(s), i) \in 1 .. Cardinality(L!Shown(s))
           /\ L!Rendering(s, args)[UpTo(L!Shown(s), i)] =
                 IF i \in L!Places(s) THEN args[UpTo(L!Places(s), i)] ELSE s[i]
<1> DEFINE Sh == L!Shown(s)
           n == Len(s)
           N == UpTo(Sh, i)
           at == CHOOSE j \in Sh : UpTo(Sh, j) = N
<1>1. n \in Nat /\ Sh \subseteq 1 .. n /\ i \in 1 .. n
  BY PlacesAreShown
<1>2. N \in 1 .. Cardinality(Sh)
  <2>1. UpTo(Sh, 0) = 0 /\ UpTo(Sh, n) = Cardinality(Sh) /\ \A j \in 0 .. n : UpTo(Sh, j) \in Nat
    <3> HIDE DEF Sh, n
    <3> QED
      BY <1>1, UpToSteps
  <2>2. UpTo(Sh, 0) < UpTo(Sh, i)
    <3>1. 0 \in 0 .. n /\ i \in 0 .. n /\ i # 0 /\ i \in Sh
      BY <1>1
    <3> HIDE DEF Sh, n
    <3> QED
      BY <1>1, <3>1, UpToGrows
  <2>3. UpTo(Sh, i) <= UpTo(Sh, n)
    <3>1. i \in 0 .. n /\ n \in i .. n
      BY <1>1
    <3> HIDE DEF Sh, n
    <3> QED
      BY <1>1, <3>1, UpToGrows
  <2>4. i \in 0 .. n /\ n \in 0 .. n
    BY <1>1
  <2> HIDE DEF Sh, n
  <2> QED
    BY <2>1, <2>2, <2>3, <2>4 DEF N
<1>3. ASSUME NEW j \in Sh, UpTo(Sh, j) = N PROVE j = i
  <2>1. j \in 1 .. n
    BY <1>1
  <2>2. \A k \in 0 .. n : UpTo(Sh, k) \in Nat
    <3> HIDE DEF Sh, n
    <3> QED
      BY <1>1, UpToSteps
  <2>3. ASSUME i < j PROVE FALSE
    <3>1. i \in 0 .. n /\ j \in i .. n /\ i # j
      BY <1>1, <2>1, <2>3
    <3>2. UpTo(Sh, i) < UpTo(Sh, j)
      <4> HIDE DEF Sh, n
      <4> QED
        BY <1>1, <3>1, UpToGrows
    <3> QED
      BY <1>3, <3>1, <3>2, <2>1, <2>2
  <2>4. ASSUME j < i PROVE FALSE
    <3>1. j \in 0 .. n /\ i \in j .. n /\ i # j /\ i \in Sh
      BY <1>1, <2>1, <2>4
    <3>2. UpTo(Sh, j) < UpTo(Sh, i)
      <4> HIDE DEF Sh, n
      <4> QED
        BY <1>1, <3>1, UpToGrows
    <3> QED
      BY <1>3, <3>1, <3>2, <2>1, <2>2
  <2> HIDE DEF n
  <2> QED
    BY <1>1, <2>1, <2>3, <2>4
<1>4. at = i
  BY <1>3
<1>5. L!Rendering(s, args)[N] = IF at \in L!Places(s) THEN args[UpTo(L!Places(s), at)] ELSE s[at]
  <2>1. L!Rendering(s, args) =
          [m \in 1 .. Cardinality(Sh) |->
             IF (CHOOSE j \in Sh : UpTo(Sh, j) = m) \in L!Places(s)
               THEN args[UpTo(L!Places(s), CHOOSE j \in Sh : UpTo(Sh, j) = m)]
               ELSE s[CHOOSE j \in Sh : UpTo(Sh, j) = m]]
    BY Zenon DEF L!Rendering, UpTo, L!Cardinality, Cardinality
  <2>2. \A m \in 1 .. Cardinality(Sh) : L!Rendering(s, args)[m] =
             IF (CHOOSE j \in Sh : UpTo(Sh, j) = m) \in L!Places(s)
               THEN args[UpTo(L!Places(s), CHOOSE j \in Sh : UpTo(Sh, j) = m)]
               ELSE s[CHOOSE j \in Sh : UpTo(Sh, j) = m]
    BY <2>1
  <2> QED
    BY <1>2, <2>2
<1> QED
  BY <1>2, <1>4, <1>5

----------------------------------------------------------------------------
\* r is what the rendering shows after its first V characters.
Remainder(r, s, args, V) ==
    /\ r \in Seq(Elements)
    /\ Len(r) = Cardinality(L!Shown(s)) - V
    /\ \A k \in 1 .. Len(r) : r[k] = L!Rendering(s, args)[V + k]

EndsInvalid(r) ==
    /\ r \in Seq(Elements \cup {Invalid})
    /\ \E k \in 1 .. Len(r) : r[k] = Invalid

\* What the scan makes of the line from i on, when it stands there.
RightFrom(f, s, args, i) ==
    Stands(s, i) /\ UpTo(L!Places(s), i - 1) <= Len(args) =>
       LET r == f[i][UpTo(L!Places(s), i - 1)]
       IN  /\ L!Matches(s, args) => Remainder(r, s, args, UpTo(L!Shown(s), i - 1))
           /\ ~L!Matches(s, args) => EndsInvalid(r)

LEMMA RemainderPrepends ==
    ASSUME NEW r, NEW s, NEW args, NEW V \in Nat, NEW e \in Elements,
           Remainder(r, s, args, V + 1), e = L!Rendering(s, args)[V + 1],
           Cardinality(L!Shown(s)) \in Nat
    PROVE  Remainder(<<e>> \o r, s, args, V)
<1> DEFINE q == <<e>> \o r
           R == L!Rendering(s, args)
           N == Cardinality(L!Shown(s))
<1> HIDE DEF R, N
<1>1. r \in Seq(Elements) /\ Len(r) = N - (V + 1) /\ \A k \in 1 .. Len(r) : r[k] = R[V + 1 + k]
  BY DEF Remainder, R, N
<1>2. q \in Seq(Elements) /\ Len(q) = Len(r) + 1
  BY <1>1
<1>3. ASSUME NEW k \in 1 .. Len(q) PROVE q[k] = R[V + k]
  <2>1. CASE k = 1
    BY <2>1, <1>1 DEF R
  <2>2. CASE k # 1
    <3>1. k - 1 \in 1 .. Len(r) /\ V + 1 + (k - 1) = V + k
      BY <2>2, <1>1, <1>2
    <3>2. q[k] = r[k - 1]
      BY <2>2, <1>1, <1>2
    <3> QED
      BY <1>1, <3>1, <3>2
  <2> QED
    BY <2>1, <2>2
<1>4. Len(q) = N - V
  BY <1>1, <1>2 DEF N
<1> HIDE DEF q
<1>5. Remainder(q, s, args, V)
  BY <1>2, <1>3, <1>4 DEF Remainder, R, N
<1> QED
  BY <1>5 DEF q

LEMMA InvalidPrepends ==
    ASSUME NEW r, NEW e \in Elements, EndsInvalid(r)
    PROVE  EndsInvalid(<<e>> \o r)
<1>1. PICK k \in 1 .. Len(r) : r[k] = Invalid
  BY DEF EndsInvalid
<1>2. r \in Seq(Elements \cup {Invalid}) /\ <<e>> \in Seq(Elements \cup {Invalid})
  BY DEF EndsInvalid
<1>3. k + 1 \in 1 .. Len(<<e>> \o r) /\ (<<e>> \o r)[k + 1] = Invalid
  BY <1>1, <1>2
<1>4. <<e>> \o r \in Seq(Elements \cup {Invalid})
  BY <1>2
<1> QED
  BY <1>3, <1>4 DEF EndsInvalid

\* The counts of places and of shown characters before the next stand.
LEMMA Counted ==
    ASSUME NEW s \in Seq(Elements)
    PROVE  /\ \A i \in 0 .. Len(s) :
                 /\ UpTo(L!Places(s), i) \in Nat /\ UpTo(L!Shown(s), i) \in Nat
                 /\ UpTo(L!Places(s), i) <= Cardinality(L!Places(s))
           /\ \A i \in 1 .. Len(s) :
                 /\ UpTo(L!Places(s), i) =
                       UpTo(L!Places(s), i - 1) + (IF i \in L!Places(s) THEN 1 ELSE 0)
                 /\ UpTo(L!Shown(s), i) =
                       UpTo(L!Shown(s), i - 1) + (IF i \in L!Shown(s) THEN 1 ELSE 0)
           /\ UpTo(L!Places(s), 0) = 0 /\ UpTo(L!Shown(s), 0) = 0
           /\ UpTo(L!Places(s), Len(s)) = Cardinality(L!Places(s))
           /\ UpTo(L!Shown(s), Len(s)) = Cardinality(L!Shown(s))
           /\ Cardinality(L!Places(s)) \in Nat /\ Cardinality(L!Shown(s)) \in Nat
<1> DEFINE P == L!Places(s)
           Sh == L!Shown(s)
           n == Len(s)
<1>1. n \in Nat /\ P \subseteq 1 .. n /\ Sh \subseteq 1 .. n /\ n \in 0 .. n
  BY PlacesAreShown
<1> HIDE DEF P, Sh, n
<1>2. /\ UpTo(P, 0) = 0 /\ UpTo(P, n) = Cardinality(P)
      /\ \A i \in 0 .. n : UpTo(P, i) \in Nat
      /\ \A i \in 1 .. n : UpTo(P, i) = UpTo(P, i - 1) + (IF i \in P THEN 1 ELSE 0)
  BY <1>1, UpToSteps
<1>3. /\ UpTo(Sh, 0) = 0 /\ UpTo(Sh, n) = Cardinality(Sh)
      /\ \A i \in 0 .. n : UpTo(Sh, i) \in Nat
      /\ \A i \in 1 .. n : UpTo(Sh, i) = UpTo(Sh, i - 1) + (IF i \in Sh THEN 1 ELSE 0)
  BY <1>1, UpToSteps
<1>4. ASSUME NEW i \in 0 .. n PROVE UpTo(P, i) <= Cardinality(P)
  <2>1. n \in i .. n
    BY <1>1
  <2>2. UpTo(P, i) <= UpTo(P, n)
    BY <1>1, <2>1, UpToGrows
  <2> QED
    BY <2>2, <1>2
<1>5. UpTo(P, n) \in Nat /\ UpTo(Sh, n) \in Nat
  BY <1>1, <1>2, <1>3
<1> QED
  BY <1>2, <1>3, <1>4, <1>5 DEF P, Sh, n

LEMMA RightAtEnd ==
    ASSUME NEW s \in Seq(Elements), NEW args \in Seq(Elements), NEW f,
           Scans(f, s, args, 1)
    PROVE  RightFrom(f, s, args, Len(s) + 1)
<1> DEFINE n == Len(s)
           U == UpTo(L!Places(s), n)
<1>1. n \in Nat /\ n + 1 - 1 = n /\ Len(args) \in Nat
  OBVIOUS
<1>2. U \in Nat /\ U = Cardinality(L!Places(s)) /\ UpTo(L!Shown(s), n) = Cardinality(L!Shown(s))
      /\ Cardinality(L!Shown(s)) \in Nat
  BY Counted
<1>3. L!Matches(s, args) <=> U = Len(args)
  BY <1>2, SameCardinality DEF L!Matches
<1>4. ASSUME U <= Len(args)
      PROVE  f[n + 1][U] = IF U = Len(args) THEN <<>> ELSE <<Invalid>>
  <2>1. f[n + 1] = ScanAt(f, s, args, n + 1)
    BY <1>1 DEF Scans
  <2>2. U \in 0 .. Len(args) /\ n + 1 > Len(s)
    BY <1>1, <1>2, <1>4
  <2> HIDE DEF U
  <2> QED
    BY <2>1, <2>2 DEF ScanAt
<1>5. ASSUME U = Len(args) PROVE Remainder(<<>>, s, args, UpTo(L!Shown(s), n))
  BY <1>2 DEF Remainder
<1>6. EndsInvalid(<<Invalid>>)
  <2>1. 1 \in 1 .. Len(<<Invalid>>) /\ <<Invalid>>[1] = Invalid
    OBVIOUS
  <2> QED
    BY <2>1 DEF EndsInvalid
<1> HIDE DEF U
<1> QED
  BY <1>1, <1>3, <1>4, <1>5, <1>6 DEF RightFrom, U

LEMMA RightAtCharacter ==
    ASSUME NEW s \in Seq(Elements), NEW args \in Seq(Elements), NEW f,
           Scans(f, s, args, 1), NEW i \in 1 .. Len(s), s[i] # Percent,
           RightFrom(f, s, args, i + 1)
    PROVE  RightFrom(f, s, args, i)
<1> DEFINE U == UpTo(L!Places(s), i - 1)
           V == UpTo(L!Shown(s), i - 1)
<1>1. U \in Nat /\ V \in Nat /\ Cardinality(L!Shown(s)) \in Nat /\ i + 1 - 1 = i
  <2>1. i - 1 \in 0 .. Len(s)
    OBVIOUS
  <2> QED
    BY <2>1, Counted
<1>2. i \in L!Shown(s) /\ i \notin L!Places(s) /\ Stands(s, i + 1)
  BY FindsCharacter
<1>3. UpTo(L!Places(s), i) = U /\ UpTo(L!Shown(s), i) = V + 1
  <2>1. UpTo(L!Places(s), i) = U + 0 /\ UpTo(L!Shown(s), i) = V + 1
    BY <1>2, Counted
  <2> HIDE DEF U
  <2> QED
    BY <1>1, <2>1
<1>4. L!Rendering(s, args)[V + 1] = s[i] /\ s[i] \in Elements
  <2>1. L!Rendering(s, args)[UpTo(L!Shown(s), i)] = s[i]
    BY <1>2, RenderingAt
  <2> HIDE DEF V
  <2> QED
    BY <1>3, <2>1
<1> SUFFICES ASSUME U <= Len(args)
             PROVE  /\ L!Matches(s, args) => Remainder(f[i][U], s, args, V)
                    /\ ~L!Matches(s, args) => EndsInvalid(f[i][U])
  BY DEF RightFrom
<1>5. f[i][U] = <<s[i]>> \o f[i + 1][U]
  <2>1. f[i] = ScanAt(f, s, args, i) /\ ~(i > Len(s)) /\ U \in 0 .. Len(args)
    BY <1>1 DEF Scans
  <2> HIDE DEF U
  <2> QED
    BY <2>1 DEF ScanAt
<1>6. /\ L!Matches(s, args) => Remainder(f[i + 1][U], s, args, V + 1)
      /\ ~L!Matches(s, args) => EndsInvalid(f[i + 1][U])
  <2> HIDE DEF U, V
  <2> QED
    BY <1>1, <1>2, <1>3 DEF RightFrom
<1> HIDE DEF U, V
<1>7. ASSUME L!Matches(s, args) PROVE Remainder(f[i][U], s, args, V)
  BY <1>1, <1>4, <1>5, <1>6, <1>7, RemainderPrepends
<1>8. ASSUME ~L!Matches(s, args) PROVE EndsInvalid(f[i][U])
  BY <1>4, <1>5, <1>6, <1>8, InvalidPrepends
<1> QED
  BY <1>7, <1>8

LEMMA RightAtPair ==
    ASSUME NEW s \in Seq(Elements), NEW args \in Seq(Elements), NEW f,
           Scans(f, s, args, 1), NEW i \in 1 .. Len(s), s[i] = Percent,
           i < Len(s), s[i + 1] = Percent, RightFrom(f, s, args, i + 2)
    PROVE  RightFrom(f, s, args, i)
<1> DEFINE U == UpTo(L!Places(s), i - 1)
           V == UpTo(L!Shown(s), i - 1)
<1>0. i + 1 \in 1 .. Len(s) /\ i + 2 - 1 = i + 1 /\ i + 1 - 1 = i
  OBVIOUS
<1>1. U \in Nat /\ V \in Nat /\ Cardinality(L!Shown(s)) \in Nat
  <2>1. i - 1 \in 0 .. Len(s)
    OBVIOUS
  <2> QED
    BY <2>1, Counted
<1> SUFFICES ASSUME U <= Len(args), Stands(s, i)
             PROVE  /\ L!Matches(s, args) => Remainder(f[i][U], s, args, V)
                    /\ ~L!Matches(s, args) => EndsInvalid(f[i][U])
  BY DEF RightFrom
<1>2. /\ i \notin L!Shown(s) /\ i \notin L!Places(s) /\ Stands(s, i + 2)
      /\ i + 1 \in L!Shown(s) /\ i + 1 \notin L!Places(s)
  BY FindsPair
<1>3. UpTo(L!Places(s), i + 1) = U /\ UpTo(L!Shown(s), i + 1) = V + 1
  <2>1. UpTo(L!Places(s), i) = U + 0 /\ UpTo(L!Shown(s), i) = V + 0
    BY <1>2, Counted
  <2>2. /\ UpTo(L!Places(s), i + 1) = UpTo(L!Places(s), i) + 0
        /\ UpTo(L!Shown(s), i + 1) = UpTo(L!Shown(s), i) + 1
    BY <1>0, <1>2, Counted
  <2> HIDE DEF U, V
  <2> QED
    BY <1>1, <2>1, <2>2
<1>4. L!Rendering(s, args)[V + 1] = Percent /\ Percent \in Elements
  <2>1. L!Rendering(s, args)[UpTo(L!Shown(s), i + 1)] = s[i + 1]
    BY <1>2, RenderingAt
  <2> HIDE DEF V
  <2> QED
    BY <1>0, <1>3, <2>1
<1>5. f[i][U] = <<Percent>> \o f[i + 2][U]
  <2>1. f[i] = ScanAt(f, s, args, i) /\ ~(i > Len(s)) /\ U \in 0 .. Len(args)
    BY <1>1 DEF Scans
  <2> HIDE DEF U
  <2> QED
    BY <2>1 DEF ScanAt
<1>6. /\ L!Matches(s, args) => Remainder(f[i + 2][U], s, args, V + 1)
      /\ ~L!Matches(s, args) => EndsInvalid(f[i + 2][U])
  <2> HIDE DEF U, V
  <2> QED
    BY <1>0, <1>1, <1>2, <1>3 DEF RightFrom
<1> HIDE DEF U, V
<1>7. ASSUME L!Matches(s, args) PROVE Remainder(f[i][U], s, args, V)
  BY <1>1, <1>4, <1>5, <1>6, <1>7, RemainderPrepends
<1>8. ASSUME ~L!Matches(s, args) PROVE EndsInvalid(f[i][U])
  BY <1>4, <1>5, <1>6, <1>8, InvalidPrepends
<1> QED
  BY <1>7, <1>8

LEMMA RightAtPlace ==
    ASSUME NEW s \in Seq(Elements), NEW args \in Seq(Elements), NEW f,
           Scans(f, s, args, 1), NEW i \in 1 .. Len(s), s[i] = Percent,
           ~(i < Len(s) /\ s[i + 1] = Percent), RightFrom(f, s, args, i + 1)
    PROVE  RightFrom(f, s, args, i)
<1> DEFINE U == UpTo(L!Places(s), i - 1)
           V == UpTo(L!Shown(s), i - 1)
<1>1. /\ U \in Nat /\ V \in Nat /\ Cardinality(L!Shown(s)) \in Nat /\ i + 1 - 1 = i
      /\ Len(args) \in Nat
  <2>1. i - 1 \in 0 .. Len(s)
    OBVIOUS
  <2> QED
    BY <2>1, Counted
<1> SUFFICES ASSUME U <= Len(args), Stands(s, i)
             PROVE  /\ L!Matches(s, args) => Remainder(f[i][U], s, args, V)
                    /\ ~L!Matches(s, args) => EndsInvalid(f[i][U])
  BY DEF RightFrom
<1>2. i \in L!Shown(s) /\ i \in L!Places(s) /\ Stands(s, i + 1)
  BY FindsPlace
<1>3. UpTo(L!Places(s), i) = U + 1 /\ UpTo(L!Shown(s), i) = V + 1
  BY <1>2, Counted
<1>4. L!Rendering(s, args)[V + 1] = args[U + 1]
  <2>1. L!Rendering(s, args)[UpTo(L!Shown(s), i)] = args[UpTo(L!Places(s), i)]
    BY <1>2, RenderingAt
  <2> HIDE DEF U, V
  <2> QED
    BY <1>3, <2>1
<1>5. f[i][U] = IF U = Len(args) THEN <<Invalid>> ELSE <<args[U + 1]>> \o f[i + 1][U + 1]
  <2>1. f[i] = ScanAt(f, s, args, i) /\ ~(i > Len(s)) /\ U \in 0 .. Len(args)
    BY <1>1 DEF Scans
  <2> HIDE DEF U
  <2> QED
    BY <2>1 DEF ScanAt
<1>6. U + 1 <= Cardinality(L!Places(s)) /\ Cardinality(L!Places(s)) \in Nat
  <2>1. i \in 0 .. Len(s)
    OBVIOUS
  <2>2. UpTo(L!Places(s), i) <= Cardinality(L!Places(s)) /\ Cardinality(L!Places(s)) \in Nat
    BY <2>1, Counted
  <2> HIDE DEF U
  <2> QED
    BY <1>3, <2>2
<1>7. CASE U = Len(args)
  <2>1. ~L!Matches(s, args)
    <3> HIDE DEF U
    <3> QED
      BY <1>1, <1>6, <1>7, SameCardinality DEF L!Matches
  <2>2. EndsInvalid(<<Invalid>>)
    <3>1. 1 \in 1 .. Len(<<Invalid>>) /\ <<Invalid>>[1] = Invalid
      OBVIOUS
    <3> QED
      BY <3>1 DEF EndsInvalid
  <2> QED
    BY <1>5, <1>7, <2>1, <2>2
<1>8. CASE U # Len(args)
  <2>1. U + 1 <= Len(args) /\ args[U + 1] \in Elements
    <3> HIDE DEF U
    <3> QED
      BY <1>1, <1>8
  <2>2. /\ L!Matches(s, args) => Remainder(f[i + 1][U + 1], s, args, V + 1)
        /\ ~L!Matches(s, args) => EndsInvalid(f[i + 1][U + 1])
    <3> HIDE DEF U, V
    <3> QED
      BY <1>1, <1>2, <1>3, <2>1 DEF RightFrom
  <2> HIDE DEF U, V
  <2>3. ASSUME L!Matches(s, args) PROVE Remainder(f[i][U], s, args, V)
    BY <1>1, <1>4, <1>5, <1>8, <2>1, <2>2, <2>3, RemainderPrepends
  <2>4. ASSUME ~L!Matches(s, args) PROVE EndsInvalid(f[i][U])
    BY <1>5, <1>8, <2>1, <2>2, <2>4, InvalidPrepends
  <2> QED
    BY <2>3, <2>4
<1> QED
  BY <1>7, <1>8

LEMMA RightEverywhere ==
    ASSUME NEW s \in Seq(Elements), NEW args \in Seq(Elements), NEW f,
           Scans(f, s, args, 1)
    PROVE  RightFrom(f, s, args, 1)
<1> DEFINE n == Len(s)
           S == {m \in 0 .. n :
                   /\ RightFrom(f, s, args, n + 1 - m)
                   /\ m > 0 => RightFrom(f, s, args, n + 2 - m)}
<1>0. n \in Nat
  OBVIOUS
<1>1. 0 \in S
  <2>1. n + 1 - 0 = n + 1 /\ 0 \in 0 .. n
    BY <1>0
  <2> QED
    BY <2>1, RightAtEnd
<1>2. ASSUME NEW m \in 1 .. n, m - 1 \in S PROVE m \in S
  <2> DEFINE i == n + 1 - m
  <2>1. /\ i \in 1 .. n /\ i + 1 = n + 1 - (m - 1) /\ i + 1 = n + 2 - m
        /\ i + 2 = n + 2 - (m - 1)
        /\ (i < n => m - 1 > 0)
    BY <1>0
  <2>2. RightFrom(f, s, args, i + 1) /\ (i < n => RightFrom(f, s, args, i + 2))
    BY <1>2, <2>1
  <2>3. RightFrom(f, s, args, i)
    <3> HIDE DEF i
    <3>1. CASE s[i] # Percent
      BY <2>1, <2>2, <3>1, RightAtCharacter
    <3>2. CASE s[i] = Percent /\ i < n /\ s[i + 1] = Percent
      BY <2>1, <2>2, <3>2, RightAtPair
    <3>3. CASE s[i] = Percent /\ ~(i < n /\ s[i + 1] = Percent)
      BY <2>1, <2>2, <3>3, RightAtPlace
    <3> QED
      BY <3>1, <3>2, <3>3
  <2> QED
    BY <2>1, <2>2, <2>3
<1>3. n \in S
  <2>1. \A i \in 0 .. n : i \in S
    <3> HIDE DEF S, n
    <3> QED
      BY <1>0, <1>1, <1>2, InductionUpTo
  <2> QED
    BY <2>1, <1>0
<1>4. n + 1 - n = 1
  BY <1>0
<1> QED
  BY <1>3, <1>4

\* log(), for a line of any length: it pushes what the line should look like,
\* or, when the format has more or fewer places than there are arguments, ends
\* the process.
THEOREM LogIsRight ==
    ASSUME Invalid \notin Elements,
           NEW s \in Seq(Elements), NEW args \in Seq(Elements)
    PROVE  /\ L!Fatal(L!Log(s, args)) <=> ~L!Matches(s, args)
           /\ L!Matches(s, args) => /\ L!Log(s, args) = L!Rendering(s, args)
                                    /\ L!Log(s, args) \in Seq(Elements)
<1>1. PICK f : L!Log(s, args) = f[1][0] /\ Scans(f, s, args, 1)
  BY LogIsScan
<1>2. RightFrom(f, s, args, 1)
  BY <1>1, RightEverywhere
<1> DEFINE r == f[1][0]
<1> HIDE DEF r
<1>3. /\ L!Matches(s, args) => Remainder(r, s, args, 0)
      /\ ~L!Matches(s, args) => EndsInvalid(r)
  <2>1. Stands(s, 1)
    <3>1. 1 \in DOMAIN s => L!Run(s, 0) = 0
      BY RunSteps
    <3>2. 0 % 2 = 0 /\ 1 - 1 = 0
      OBVIOUS
    <3> QED
      BY <3>1, <3>2 DEF Stands
  <2>2. UpTo(L!Places(s), 0) = 0 /\ UpTo(L!Shown(s), 0) = 0 /\ 1 - 1 = 0 /\ 0 <= Len(args)
    BY Counted
  <2> QED
    BY <1>2, <2>1, <2>2 DEF RightFrom, r
<1>4. ASSUME L!Matches(s, args)
      PROVE  /\ r \in Seq(Elements) /\ ~L!Fatal(r)
             /\ r = L!Rendering(s, args)
  <2> DEFINE R == L!Rendering(s, args)
             N == Cardinality(L!Shown(s))
  <2>1. r \in Seq(Elements) /\ Len(r) = N /\ \A k \in 1 .. Len(r) : r[k] = R[k]
    BY <1>3, <1>4, Counted DEF Remainder
  <2>2. R = [k \in 1 .. N |-> R[k]]
    <3>1. L!Cardinality(L!Shown(s)) = N
      BY SameCardinality
    <3>2. R = [k \in 1 .. L!Cardinality(L!Shown(s)) |-> R[k]]
      BY DEF L!Rendering
    <3> QED
      BY <3>1, <3>2
  <2>3. ~L!Fatal(r)
    BY <2>1 DEF L!Fatal
  <2> HIDE DEF R, N
  <2>4. r = [k \in 1 .. N |-> r[k]]
    BY <2>1
  <2>5. r = R
    BY <2>1, <2>2, <2>4
  <2> QED
    BY <2>1, <2>3, <2>5 DEF R
<1>5. ASSUME ~L!Matches(s, args) PROVE L!Fatal(r)
  BY <1>3, <1>5 DEF L!Fatal, EndsInvalid
<1> QED
  BY <1>1, <1>4, <1>5 DEF r

----------------------------------------------------------------------------
(* Lines one after the other.                                              *)

Flattens(f, seqs) ==
    \A i \in 1 .. Len(seqs) : f[i] = IF i = 1 THEN seqs[i] ELSE f[i - 1] \o seqs[i]

LEMMA FlattenIs ==
    ASSUME NEW V, NEW seqs \in Seq(Seq(V)), Len(seqs) > 0
    PROVE  \E f : FlattenSeq(seqs) = f[Len(seqs)] /\ Flattens(f, seqs)
<1> DEFINE n == Len(seqs)
           step == [i \in 1 .. n |-> [v \in Seq(V) |-> v \o seqs[i]]]
           Solves(f) == f = [i \in 1 .. n |-> IF i = 1 THEN seqs[i] ELSE f[i - 1] \o seqs[i]]
<1>1. n \in Nat /\ \A i \in 1 .. n : seqs[i] \in Seq(V)
  OBVIOUS
<1>2. PICK f \in [0 .. n -> Seq(V)] : Recursive(f, n, <<>>, step)
  <2>1. step \in [1 .. n -> [Seq(V) -> Seq(V)]]
    BY <1>1
  <2>2. <<>> \in Seq(V)
    OBVIOUS
  <2> HIDE DEF step, n
  <2> QED
    BY <1>1, <2>1, <2>2, RecursionExists
<1>3. f[0] = <<>> /\ \A i \in 1 .. n : f[i] = f[i - 1] \o seqs[i]
  <2>1. f[0] = <<>>
    BY <1>1, <1>2 DEF Recursive
  <2>2. ASSUME NEW i \in 1 .. n PROVE f[i] = f[i - 1] \o seqs[i]
    <3>1. i \in 0 .. n /\ i # 0 /\ i - 1 \in 0 .. n
      BY <1>1
    <3>2. f[i] = step[i][f[i - 1]]
      BY <1>2, <3>1 DEF Recursive
    <3>3. f[i - 1] \in Seq(V)
      BY <3>1
    <3> QED
      BY <3>2, <3>3
  <2> QED
    BY <2>1, <2>2
<1> DEFINE g == [i \in 1 .. n |-> f[i]]
<1>4. Solves(g)
  <2>1. ASSUME NEW i \in 1 .. n PROVE g[i] = IF i = 1 THEN seqs[i] ELSE g[i - 1] \o seqs[i]
    <3>1. CASE i = 1
      <4>1. 1 \in 1 .. n /\ 1 - 1 = 0
        BY <1>1, <3>1
      <4>2. f[1] = f[0] \o seqs[1] /\ seqs[1] \in Seq(V)
        BY <1>1, <1>3, <4>1
      <4>3. \A x \in Seq(V) : <<>> \o x = x
        OBVIOUS
      <4>4. f[1] = seqs[1]
        BY <1>3, <4>2, <4>3
      <4> QED
        BY <3>1, <4>1, <4>4
    <3>2. CASE i # 1
      <4>1. i - 1 \in 1 .. n
        BY <3>2
      <4> QED
        BY <1>3, <3>2, <4>1
    <3> QED
      BY <3>1, <3>2
  <2>2. g = [i \in 1 .. n |-> g[i]]
    OBVIOUS
  <2> HIDE DEF g
  <2> QED
    BY <2>1, <2>2
<1> DEFINE h == CHOOSE x : Solves(x)
<1>5. Solves(h)
  <2> HIDE DEF g
  <2> QED
    BY <1>4
<1>6. FlattenSeq(seqs) = h[n]
  BY <1>1 DEF FlattenSeq
<1>7. Flattens(h, seqs)
  <2> HIDE DEF h
  <2> QED
    BY <1>5 DEF Flattens
<1> QED
  BY <1>6, <1>7

LEMMA FlattenAppends ==
    ASSUME NEW V, NEW seqs \in Seq(Seq(V)), FlattenSeq(seqs) \in Seq(V), NEW e \in Seq(V)
    PROVE  FlattenSeq(Append(seqs, e)) = FlattenSeq(seqs) \o e
<1> DEFINE n == Len(seqs)
           more == Append(seqs, e)
<1>1. /\ n \in Nat /\ more \in Seq(Seq(V)) /\ Len(more) = n + 1 /\ more[n + 1] = e
      /\ \A i \in 1 .. n : more[i] = seqs[i]
  OBVIOUS
<1>2. PICK f : FlattenSeq(more) = f[n + 1] /\ Flattens(f, more)
  <2>1. Len(more) > 0
    BY <1>1
  <2> HIDE DEF more
  <2>2. \E f : FlattenSeq(more) = f[Len(more)] /\ Flattens(f, more)
    BY <1>1, <2>1, FlattenIs
  <2> QED
    BY <1>1, <2>2
<1>3. CASE n = 0
  <2>1. seqs = <<>>
    BY <1>3
  <2>2. FlattenSeq(seqs) = <<>>
    BY <2>1 DEF FlattenSeq
  <2>3. f[1] = more[1] /\ more[1] = e
    BY <1>1, <1>2, <1>3 DEF Flattens
  <2>4. FlattenSeq(more) = e
    BY <1>2, <1>3, <2>3
  <2> QED
    BY <2>2, <2>4
<1>4. CASE n > 0
  <2>1. PICK g : FlattenSeq(seqs) = g[n] /\ Flattens(g, seqs)
    BY <1>4, FlattenIs
  <2> HIDE DEF more
  <2> DEFINE Same == {i \in 0 .. n : i = 0 \/ f[i] = g[i]}
  <2>2. 0 \in Same
    BY <1>1
  <2>3. ASSUME NEW i \in 1 .. n, i - 1 \in Same PROVE i \in Same
    <3>1. /\ f[i] = IF i = 1 THEN more[i] ELSE f[i - 1] \o more[i]
          /\ g[i] = IF i = 1 THEN seqs[i] ELSE g[i - 1] \o seqs[i]
          /\ more[i] = seqs[i]
      BY <1>1, <1>2, <2>1 DEF Flattens
    <3>2. i = 1 \/ f[i - 1] = g[i - 1]
      BY <2>3
    <3> QED
      BY <3>1, <3>2
  <2>4. f[n] = g[n]
    <3>1. \A i \in 0 .. n : i \in Same
      <4> HIDE DEF Same, n
      <4> QED
        BY <1>1, <2>2, <2>3, InductionUpTo
    <3> QED
      BY <1>4, <3>1
  <2>5. f[n + 1] = f[n] \o e
    <3> DEFINE i == n + 1
    <3>1. i \in 1 .. Len(more) /\ i # 1 /\ i - 1 = n /\ more[i] = e
      BY <1>1, <1>4
    <3>2. f[i] = f[i - 1] \o more[i]
      <4> HIDE DEF i
      <4> QED
        BY <1>2, <3>1 DEF Flattens
    <3> QED
      BY <3>1, <3>2
  <2>6. FlattenSeq(more) = FlattenSeq(seqs) \o e
    BY <1>2, <2>1, <2>4, <2>5
  <2> QED
    BY <2>6 DEF more
<1> QED
  BY <1>1, <1>3, <1>4

\* What the file should hold when a sequence of lines has been logged.
Rendered(line) == L!Rendering(line.format, line.args)
Matching(line) == L!Matches(line.format, line.args)
Written(ls) == FlattenSeq([i \in DOMAIN ls |-> Rendered(ls[i])])

LEMMA NothingWritten == Written(<<>>) = <<>>
<1>1. Len([i \in DOMAIN <<>> |-> Rendered(<<>>[i])]) = 0
  OBVIOUS
<1>2. [i \in DOMAIN <<>> |-> Rendered(<<>>[i])] = <<>>
  OBVIOUS
<1> QED
  BY <1>1, <1>2 DEF Written, FlattenSeq

LEMMA OneMoreWritten ==
    ASSUME NEW X, NEW ls \in Seq(X), NEW line \in X, Written(ls) \in Seq(Elements),
           \A i \in DOMAIN Append(ls, line) : Rendered(Append(ls, line)[i]) \in Seq(Elements)
    PROVE  Written(Append(ls, line)) = Written(ls) \o Rendered(line)
<1> DEFINE more == Append(ls, line)
           n == Len(ls)
           seqs == [i \in 1 .. n |-> Rendered(ls[i])]
           e == Rendered(line)
<1>1. /\ n \in Nat /\ more \in Seq(X) /\ Len(more) = n + 1 /\ more[n + 1] = line
      /\ \A i \in 1 .. n : more[i] = ls[i]
      /\ DOMAIN ls = 1 .. n /\ DOMAIN more = 1 .. n + 1
  OBVIOUS
<1>2. \A i \in 1 .. n + 1 : Rendered(more[i]) \in Seq(Elements)
  BY <1>1
<1>3. e \in Seq(Elements) /\ \A i \in 1 .. n : Rendered(ls[i]) \in Seq(Elements)
  <2> HIDE DEF more
  <2>1. n + 1 \in 1 .. n + 1 /\ \A i \in 1 .. n : i \in 1 .. n + 1
    BY <1>1
  <2> QED
    BY <1>1, <1>2, <2>1
<1>4. seqs \in Seq(Seq(Elements)) /\ Len(seqs) = n
  <2> DEFINE R == [i \in 1 .. n |-> Rendered(ls[i])]
  <2>1. R \in [1 .. n -> Seq(Elements)]
    BY <1>3
  <2>2. seqs = R
    OBVIOUS
  <2> QED
    BY <1>1, <2>1, <2>2
<1>5. [i \in DOMAIN more |-> Rendered(more[i])] = Append(seqs, e)
  <2> DEFINE a == Append(seqs, e)
  <2>1. a \in Seq(Seq(Elements)) /\ Len(a) = n + 1 /\ a[n + 1] = e
        /\ \A i \in 1 .. n : a[i] = seqs[i]
    <3> HIDE DEF seqs, e
    <3> QED
      BY <1>1, <1>3, <1>4
  <2>2. \A i \in 1 .. n + 1 : a[i] = Rendered(more[i])
    <3> TAKE i \in 1 .. n + 1
    <3>1. CASE i = n + 1
      <4> HIDE DEF a, more
      <4> QED
        BY <1>1, <2>1, <3>1
    <3>2. CASE i # n + 1
      <4>1. i \in 1 .. n
        BY <1>1, <3>2
      <4>2. seqs[i] = Rendered(ls[i])
        BY <4>1
      <4> HIDE DEF a, more, seqs
      <4> QED
        BY <1>1, <2>1, <4>1, <4>2
    <3> QED
      BY <3>1, <3>2
  <2>3. a = [i \in 1 .. n + 1 |-> a[i]]
    <3> HIDE DEF a
    <3> QED
      BY <2>1
  <2> HIDE DEF a, more
  <2>4. a = [i \in DOMAIN more |-> Rendered(more[i])]
    BY <1>1, <2>2, <2>3
  <2> QED
    BY <2>4 DEF a
<1>6. Written(ls) = FlattenSeq(seqs) /\ Written(more) = FlattenSeq(Append(seqs, e))
  <2>1. Written(ls) = FlattenSeq(seqs)
    BY <1>1 DEF Written
  <2> HIDE DEF seqs, e, more
  <2> QED
    BY <1>5, <2>1 DEF Written
<1>7. FlattenSeq(Append(seqs, e)) = FlattenSeq(seqs) \o e
  <2> HIDE DEF seqs, e
  <2> QED
    BY <1>3, <1>4, <1>6, FlattenAppends
<1> QED
  BY <1>6, <1>7

----------------------------------------------------------------------------
(* What main() does, and in which order.                                   *)

Calls == {"open", "awaitWriter", "run", "create", "await", "stop", "pause",
          "deleteBooks", "awaitQueue", "clearRunning", "join", "free"}
Statements == Calls \X Components

In(q, s) == \E i \in DOMAIN q : q[i] = s

\* Before every t there is a statement of S.
Earlier(q, t, S) == \A j \in DOMAIN q : q[j] = t => \E i \in 1 .. j - 1 : q[i] \in S

\* Nothing is started again once it is stopped, waited for or joined.
OutOfOrder(s, t) ==
    /\ s[2] = t[2]
    /\ \/ s[1] = "stop" /\ t[1] \in {"run", "create"}
       \/ s[1] = "awaitQueue" /\ t[1] = "deleteBooks"
       \/ s[1] = "join" /\ t[1] = "open"

\* createAndStartThread is left only when the thread has begun; and the
\* synthesizer's own destructor has no pause.
Orderly(q) ==
    /\ q \in Seq(Statements)
    /\ \A i, j \in DOMAIN q : i < j => ~OutOfOrder(q[i], q[j])
    /\ \A i \in DOMAIN q :
          /\ q[i][1] = "create" => i + 1 \in DOMAIN q /\ q[i + 1] = <<"await", q[i][2]>>
          /\ q[i][1] = "open" => i + 1 \in DOMAIN q /\ q[i + 1] = <<"awaitWriter", q[i][2]>>
          /\ q[i] # <<"pause", "synthesizer">>

PausesFor(c) == {<<"pause", d>> : d \in {d \in Components : c \in MeantFor(d)}}

\* What is slept for has been told to stop; what is freed has been slept for,
\* and its logger waited for and joined.
Prepared(q) ==
    \A c \in Components :
       /\ \A d \in MeantFor(c) : Earlier(q, <<"pause", c>>, {<<"stop", d>>})
       /\ Earlier(q, <<"free", c>>, PausesFor(c))
       /\ c \in Logged =>
             /\ Earlier(q, <<"awaitQueue", c>>, PausesFor(c))
             /\ Earlier(q, <<"free", c>>, {<<"awaitQueue", c>>})
             /\ Earlier(q, <<"free", c>>, {<<"join", c>>})

LEMMA TailIs ==
    ASSUME NEW X, NEW q \in Seq(X), q # <<>>
    PROVE  /\ Tail(q) \in Seq(X) /\ Len(Tail(q)) = Len(q) - 1 /\ Len(q) \in Nat \ {0}
           /\ \A i \in 1 .. Len(q) - 1 : Tail(q)[i] = q[i + 1]
           /\ Head(q) = q[1] /\ Head(q) \in X
           /\ DOMAIN q = 1 .. Len(q) /\ DOMAIN Tail(q) = 1 .. Len(q) - 1
           /\ \A i \in DOMAIN Tail(q) : i + 1 \in DOMAIN q /\ Tail(q)[i] = q[i + 1]
  OBVIOUS

LEMMA InTail ==
    ASSUME NEW q, Orderly(q), q # <<>>, NEW s, In(Tail(q), s)
    PROVE  In(q, s)
<1>1. q \in Seq(Statements)
  BY DEF Orderly
<1>2. \A i \in DOMAIN Tail(q) : i + 1 \in DOMAIN q /\ Tail(q)[i] = q[i + 1]
  BY <1>1, TailIs
<1> QED
  BY <1>2 DEF In

LEMMA OrderlyTail ==
    ASSUME NEW q, Orderly(q), q # <<>>
    PROVE  /\ Orderly(Tail(q)) /\ Head(q) \in Statements /\ In(q, Head(q))
           /\ \A s : OutOfOrder(Head(q), s) => ~In(Tail(q), s)
           /\ Head(q)[1] = "create" =>
                 Tail(q) # <<>> /\ Head(Tail(q)) = <<"await", Head(q)[2]>>
           /\ Head(q)[1] = "open" =>
                 Tail(q) # <<>> /\ Head(Tail(q)) = <<"awaitWriter", Head(q)[2]>>
           /\ Head(q) # <<"pause", "synthesizer">>
<1> DEFINE t == Tail(q)
<1>1. q \in Seq(Statements)
  BY DEF Orderly
<1>2. /\ t \in Seq(Statements) /\ Len(t) = Len(q) - 1 /\ Len(q) \in Nat \ {0}
      /\ Head(q) = q[1] /\ Head(q) \in Statements
      /\ DOMAIN q = 1 .. Len(q) /\ DOMAIN t = 1 .. Len(q) - 1
      /\ \A i \in DOMAIN t : i + 1 \in DOMAIN q /\ t[i] = q[i + 1]
  BY <1>1, TailIs
<1>3. 1 \in DOMAIN q
  BY <1>2
<1>4. \A i, j \in DOMAIN q : i < j => ~OutOfOrder(q[i], q[j])
  BY DEF Orderly
<1>5. \A i \in DOMAIN q :
          /\ q[i][1] = "create" => i + 1 \in DOMAIN q /\ q[i + 1] = <<"await", q[i][2]>>
          /\ q[i][1] = "open" => i + 1 \in DOMAIN q /\ q[i + 1] = <<"awaitWriter", q[i][2]>>
          /\ q[i] # <<"pause", "synthesizer">>
  BY DEF Orderly
<1> HIDE DEF t
<1>6. \A i, j \in DOMAIN t : i < j => ~OutOfOrder(t[i], t[j])
  <2> TAKE i, j \in DOMAIN t
  <2> HAVE i < j
  <2>1. i + 1 < j + 1 /\ i + 1 \in DOMAIN q /\ j + 1 \in DOMAIN q /\ t[i] = q[i + 1] /\ t[j] = q[j + 1]
    BY <1>2
  <2> QED
    BY <2>1, <1>4
<1>7. \A i \in DOMAIN t :
          /\ t[i][1] = "create" => i + 1 \in DOMAIN t /\ t[i + 1] = <<"await", t[i][2]>>
          /\ t[i][1] = "open" => i + 1 \in DOMAIN t /\ t[i + 1] = <<"awaitWriter", t[i][2]>>
          /\ t[i] # <<"pause", "synthesizer">>
  <2> TAKE i \in DOMAIN t
  <2>1. i + 1 \in DOMAIN q /\ t[i] = q[i + 1]
    BY <1>2
  <2>2. i + 1 + 1 \in DOMAIN q => i + 1 \in DOMAIN t /\ t[i + 1] = q[i + 1 + 1]
    BY <1>2
  <2> QED
    BY <2>1, <2>2, <1>5
<1>8. ASSUME NEW s, OutOfOrder(Head(q), s), In(t, s) PROVE FALSE
  <2>1. PICK j \in DOMAIN t : t[j] = s
    BY <1>8 DEF In
  <2>2. j + 1 \in DOMAIN q /\ 1 < j + 1 /\ q[j + 1] = s
    BY <1>2, <2>1
  <2> QED
    BY <1>2, <1>3, <1>4, <1>8, <2>2
<1>9. ASSUME NEW call, 1 + 1 \in DOMAIN q, q[1 + 1] = call
      PROVE  t # <<>> /\ Head(t) = call
  <2>1. 1 \in DOMAIN t /\ t[1] = call
    BY <1>2, <1>9
  <2> QED
    BY <1>2, <2>1
<1>10. In(q, Head(q))
  BY <1>2, <1>3 DEF In
<1>11. Orderly(t)
  BY <1>2, <1>6, <1>7 DEF Orderly
<1>12. Head(q)[1] = "create" => t # <<>> /\ Head(t) = <<"await", Head(q)[2]>>
  BY <1>2, <1>3, <1>5, <1>9
<1>13. Head(q)[1] = "open" => t # <<>> /\ Head(t) = <<"awaitWriter", Head(q)[2]>>
  BY <1>2, <1>3, <1>5, <1>9
<1>14. Head(q) # <<"pause", "synthesizer">>
  BY <1>2, <1>3, <1>5
<1> QED
  BY <1>2, <1>8, <1>10, <1>11, <1>12, <1>13, <1>14 DEF t

LEMMA EarlierTail ==
    ASSUME NEW q, Orderly(q), q # <<>>, NEW t, NEW S, Earlier(q, t, S)
    PROVE  Head(q) # t /\ (Head(q) \notin S => Earlier(Tail(q), t, S))
<1>1. q \in Seq(Statements)
  BY DEF Orderly
<1>2. /\ Head(q) = q[1] /\ 1 \in DOMAIN q
      /\ \A i \in DOMAIN Tail(q) : i + 1 \in DOMAIN q /\ Tail(q)[i] = q[i + 1] /\ i \in Nat
      /\ \A i \in Nat \ {0} : i + 1 \in DOMAIN q => Tail(q)[i] = q[i + 1]
  BY <1>1, TailIs
<1>3. Head(q) # t
  BY <1>2 DEF Earlier
<1>4. ASSUME Head(q) \notin S PROVE Earlier(Tail(q), t, S)
  <2> SUFFICES ASSUME NEW j \in DOMAIN Tail(q), Tail(q)[j] = t
               PROVE  \E i \in 1 .. j - 1 : Tail(q)[i] \in S
    BY DEF Earlier
  <2>1. j + 1 \in DOMAIN q /\ q[j + 1] = t /\ j \in Nat
    BY <1>2
  <2>2. PICK i \in 1 .. (j + 1) - 1 : q[i] \in S
    BY <2>1 DEF Earlier
  <2>3. i # 1
    BY <1>2, <1>4, <2>2
  <2>4. i - 1 \in 1 .. j - 1 /\ i - 1 + 1 = i /\ i - 1 \in Nat \ {0}
    BY <2>1, <2>3
  <2>5. i \in DOMAIN q
    <3>1. DOMAIN q = 1 .. Len(q)
      BY <1>1
    <3> QED
      BY <2>1, <3>1
  <2>6. Tail(q)[i - 1] = q[i]
    BY <1>2, <2>4, <2>5
  <2> QED
    BY <2>2, <2>4, <2>6
<1> QED
  BY <1>3, <1>4

----------------------------------------------------------------------------
(* The steps, and the types.                                               *)

\* What the messages a thread sends add to the others' queues.
SendsOf(c, sends) ==
    /\ sends \in [Components -> Nat]
    /\ sends["server"] = IF c = "engine" THEN 1 ELSE 0
    /\ sends["publisher"] \in 0 .. MaxUpdates
    /\ c # "engine" => sends["publisher"] = 0
    /\ sends["synthesizer"] = IF c = "publisher" THEN 1 ELSE 0
    /\ sends["engine"] = 0 /\ sends["gateway"] = 0 /\ sends["consumer"] = 0

Serves(c) ==
    \E sends \in [Components -> Nat] :
       /\ SendsOf(c, sends)
       /\ Serve(c, IF c \in {"engine", "consumer"} THEN "looking" ELSE "serving", sends)

Waits(c) == AwaitWriter(c) \/ AwaitQueue(c) \/ Join(c)

LEMMA ThreadMoves ==
    ASSUME NEW c \in Components, Thread(c)
    PROVE  Begin(c) \/ LookAtRun(c) \/ Idle(c) \/ Serves(c)
<1> USE LifecycleAssumption
<1>1. Nothing = [d \in Components |-> 0]
  BY DEF Nothing
<1>2. CASE c = "engine" /\ EngineTurn
  <2>1. CASE Idle("engine")
    BY <1>2, <2>1
  <2>2. ASSUME NEW updates \in 0 .. MaxUpdates,
               Serve("engine", "looking",
                     [Nothing EXCEPT !["server"] = 1, !["publisher"] = updates])
        PROVE  Serves(c)
    <3> DEFINE sends == [Nothing EXCEPT !["server"] = 1, !["publisher"] = updates]
    <3>1. sends \in [Components -> Nat]
      BY <1>1 DEF Components
    <3>2. SendsOf("engine", sends)
      BY <1>1, <3>1 DEF SendsOf, Components
    <3> HIDE DEF sends
    <3>3. Serve("engine", "looking", sends)
      BY <2>2 DEF sends
    <3> QED
      BY <1>2, <3>1, <3>2, <3>3 DEF Serves
  <2> QED
    BY <1>2, <2>1, <2>2 DEF EngineTurn
<1>3. CASE c = "publisher" /\ PublisherTurn
  <2>1. CASE Idle("publisher")
    BY <1>3, <2>1
  <2>2. CASE Serve("publisher", "serving", [Nothing EXCEPT !["synthesizer"] = 1])
    <3> DEFINE sends == [Nothing EXCEPT !["synthesizer"] = 1]
    <3>1. sends \in [Components -> Nat]
      BY <1>1 DEF Components
    <3>2. SendsOf("publisher", sends)
      BY <1>1, <3>1 DEF SendsOf, Components
    <3> HIDE DEF sends
    <3>3. Serve("publisher", "serving", sends)
      BY <2>2 DEF sends
    <3> QED
      BY <1>3, <3>1, <3>2, <3>3 DEF Serves
  <2> QED
    BY <1>3, <2>1, <2>2 DEF PublisherTurn
<1>4. ASSUME c \in {"synthesizer", "server", "gateway"}, Serve(c, "serving", Nothing)
      PROVE  Serves(c)
  <2>1. Nothing \in [Components -> Nat]
    BY <1>1
  <2>2. SendsOf(c, Nothing)
    BY <1>1, <1>4, <2>1 DEF SendsOf, Components
  <2>3. Serve(c, IF c \in {"engine", "consumer"} THEN "looking" ELSE "serving", Nothing)
    BY <1>4
  <2> QED
    BY <2>1, <2>2, <2>3 DEF Serves
<1>5. ASSUME c = "consumer", Serve(c, "looking", Nothing)
      PROVE  Serves(c)
  <2>1. Nothing \in [Components -> Nat]
    BY <1>1
  <2>2. SendsOf(c, Nothing)
    BY <1>1, <1>5, <2>1 DEF SendsOf, Components
  <2>3. Serve(c, IF c \in {"engine", "consumer"} THEN "looking" ELSE "serving", Nothing)
    BY <1>5
  <2> QED
    BY <2>1, <2>2, <2>3 DEF Serves
<1>6. CASE c = "synthesizer" /\ SynthesizerTurn
  BY <1>4, <1>6 DEF SynthesizerTurn
<1>7. CASE c = "server" /\ ServerTurn
  BY <1>4, <1>7 DEF ServerTurn
<1>8. CASE c = "gateway" /\ GatewayTurn
  BY <1>4, <1>8 DEF GatewayTurn
<1>9. CASE c = "consumer" /\ ConsumerTurn
  BY <1>5, <1>9 DEF ConsumerTurn
<1> QED
  BY <1>2, <1>3, <1>6, <1>7, <1>8, <1>9 DEF Thread

LEMMA Moves ==
    ASSUME [Next]_vars
    PROVE  \/ DeleteBooks
           \/ \E c \in Logged : OpenLogger(c) \/ Waits(c) \/ ClearRunning(c)
           \/ \E c \in Components :
                 SetRun(c) \/ Create(c) \/ AwaitThread(c) \/ Stop(c) \/ Pause(c) \/ Free(c)
           \/ \E c \in Components : Begin(c) \/ LookAtRun(c) \/ Idle(c) \/ Serves(c)
           \/ \E c \in Logged : Writer(c)
           \/ \E c \in {"gateway", "consumer"} : Arrive(c)
           \/ UNCHANGED vars
<1>1. CASE Owner
  BY <1>1 DEF Owner, Waits
<1>2. ASSUME NEW c \in Components, Thread(c)
      PROVE  Begin(c) \/ LookAtRun(c) \/ Idle(c) \/ Serves(c)
  BY <1>2, ThreadMoves
<1> QED
  BY <1>1, <1>2 DEF Next

LineSet == [format : Seq(Elements), args : Seq(Elements)]

LinesAreRight == Invalid \notin Elements /\ Line \in LineSet /\ BookLines \subseteq LineSet

LoggerTypes ==
    /\ process \in {"running", "fatal"}
    /\ lines \in [Logged -> Seq(LineSet)]
    /\ queue_ \in [Logged -> Seq(Elements)]
    /\ file_ \in [Logged -> Seq(Elements)]
    /\ running_ \in [Logged -> BOOLEAN]
    /\ writer \in [Logged -> {"none", "created", "looking", "draining", "ended"}]

ThreadTypes ==
    /\ run_ \in [Components -> BOOLEAN]
    /\ thread \in [Components -> {"none", "created", "looking", "serving", "ended"}]
    /\ inbox \in [Components -> Nat]
    /\ object \in [Components -> {"alive", "dying", "gone"}]
    /\ turns \in [Components -> Nat]
    /\ requests \in 0 .. MaxRequests

\* What a call to log() does.
Says(c, line) ==
    /\ lines' = [lines EXCEPT ![c] = Append(lines[c], line)]
    /\ IF Matching(line)
         THEN /\ queue_' = [queue_ EXCEPT ![c] = queue_[c] \o Rendered(line)]
              /\ Rendered(line) \in Seq(Elements)
              /\ process' = process
         ELSE process' = "fatal" /\ queue_' = queue_

LEMMA LogLineSays ==
    ASSUME Invalid \notin Elements, NEW c, NEW line \in LineSet, LogLine(c, line)
    PROVE  /\ file_' = file_ /\ running_' = running_ /\ writer' = writer
           /\ IF c \in Logged THEN Says(c, line)
                              ELSE process' = process /\ lines' = lines /\ queue_' = queue_
<1>1. line.format \in Seq(Elements) /\ line.args \in Seq(Elements)
  BY DEF LineSet
<1> DEFINE e == L!Log(line.format, line.args)
<1>2. /\ L!Fatal(e) <=> ~Matching(line)
      /\ Matching(line) => e = Rendered(line) /\ e \in Seq(Elements)
  BY <1>1, LogIsRight DEF Matching, Rendered
<1> HIDE DEF e
<1>3. CASE c \in Logged
  <2>1. /\ lines' = [lines EXCEPT ![c] = Append(@, line)]
        /\ IF L!Fatal(e)
             THEN process' = "fatal" /\ UNCHANGED queue_
             ELSE L!PushValues(c, e) /\ UNCHANGED process
        /\ UNCHANGED <<file_, running_, writer>>
    BY <1>3 DEF LogLine, e
  <2>2. CASE Matching(line)
    BY <1>2, <1>3, <2>1, <2>2 DEF Says, L!PushValues
  <2>3. CASE ~Matching(line)
    BY <1>2, <1>3, <2>1, <2>3 DEF Says
  <2> QED
    BY <2>2, <2>3
<1>4. CASE c \notin Logged
  BY <1>4 DEF LogLine, loggers
<1> QED
  BY <1>3, <1>4

LEMMA SaysTypes ==
    ASSUME LoggerTypes, NEW c \in Logged, NEW line \in LineSet, Says(c, line)
    PROVE  /\ process' \in {"running", "fatal"}
           /\ lines' \in [Logged -> Seq(LineSet)]
           /\ queue_' \in [Logged -> Seq(Elements)]
           /\ lines'[c] = Append(lines[c], line)
           /\ \A d \in Logged \ {c} : lines'[d] = lines[d] /\ queue_'[d] = queue_[d]
<1>1. lines[c] \in Seq(LineSet) /\ queue_[c] \in Seq(Elements)
  BY DEF LoggerTypes
<1>2. Append(lines[c], line) \in Seq(LineSet)
  BY <1>1
<1>3. lines' \in [Logged -> Seq(LineSet)] /\ lines'[c] = Append(lines[c], line)
      /\ \A d \in Logged \ {c} : lines'[d] = lines[d]
  <2> DEFINE more == Append(lines[c], line)
  <2> HIDE DEF more
  <2>1. lines' = [lines EXCEPT ![c] = more]
    BY DEF Says, more
  <2>2. more \in Seq(LineSet) /\ lines \in [Logged -> Seq(LineSet)]
    BY <1>2 DEF more, LoggerTypes
  <2>3. lines'[c] = more
    BY <2>1, <2>2
  <2> QED
    BY <2>1, <2>2, <2>3 DEF more
<1>4. CASE Matching(line)
  <2> DEFINE more == queue_[c] \o Rendered(line)
  <2>1. more \in Seq(Elements)
    BY <1>1, <1>4 DEF Says
  <2> HIDE DEF more
  <2>2. queue_' = [queue_ EXCEPT ![c] = more] /\ process' = process
    BY <1>4 DEF Says, more
  <2> QED
    BY <1>3, <2>1, <2>2 DEF LoggerTypes
<1>5. CASE ~Matching(line)
  BY <1>3, <1>5 DEF Says, LoggerTypes
<1> QED
  BY <1>4, <1>5

LEMMA LogLineTypes ==
    ASSUME LoggerTypes, Invalid \notin Elements, NEW c, NEW line \in LineSet,
           LogLine(c, line)
    PROVE  /\ LoggerTypes'
           /\ \A d \in Logged \ {c} : lines'[d] = lines[d] /\ queue_'[d] = queue_[d]
<1>1. /\ file_' = file_ /\ running_' = running_ /\ writer' = writer
      /\ IF c \in Logged THEN Says(c, line)
                         ELSE process' = process /\ lines' = lines /\ queue_' = queue_
  BY LogLineSays
<1>2. CASE c \in Logged
  <2>1. Says(c, line)
    BY <1>1, <1>2
  <2> QED
    BY <1>1, <1>2, <2>1, SaysTypes DEF LoggerTypes
<1>3. CASE c \notin Logged
  BY <1>1, <1>3 DEF LoggerTypes
<1> QED
  BY <1>2, <1>3

LEMMA TodoInductive == Orderly(todo) /\ [Next]_vars => Orderly(todo')
<1> SUFFICES ASSUME Orderly(todo), [Next]_vars PROVE Orderly(todo')
  OBVIOUS
<1>1. ASSUME NEW call, NEW c, At(call, c) PROVE Orderly(todo')
  BY <1>1, OrderlyTail DEF At
<1>2. ASSUME NEW c, Turn(c) PROVE todo' = todo
  BY <1>2 DEF Turn, owner
<1>3. ASSUME NEW c, Waits(c) PROVE Orderly(todo')
  <2>1. (\E call : At(call, c))
    BY <1>3 DEF Waits, AwaitWriter, AwaitQueue, Join, Await
  <2> QED
    BY <1>1, <2>1
<1>4. ASSUME NEW c, Begin(c) \/ LookAtRun(c) \/ Idle(c) \/ Serves(c) PROVE todo' = todo
  BY <1>2, <1>4 DEF Begin, LookAtRun, Idle, Serves, Serve
<1>5. ASSUME NEW c, Writer(c) \/ Arrive(c) PROVE todo' = todo
  BY <1>5 DEF Writer, Arrive, owner
<1>6. CASE DeleteBooks
  BY <1>1, <1>6 DEF DeleteBooks
<1>7. ASSUME NEW c, OpenLogger(c) \/ ClearRunning(c) PROVE Orderly(todo')
  BY <1>1, <1>7 DEF OpenLogger, ClearRunning
<1>8. ASSUME NEW c, SetRun(c) \/ Create(c) \/ AwaitThread(c) \/ Stop(c) \/ Pause(c) \/ Free(c)
      PROVE  Orderly(todo')
  BY <1>1, <1>8 DEF SetRun, Create, AwaitThread, Await, Stop, Pause, Free
<1>9. CASE UNCHANGED vars
  BY <1>9 DEF vars, owner
<1> QED
  BY <1>3, <1>4, <1>5, <1>6, <1>7, <1>8, <1>9, Moves

LEMMA LoggersInductive ==
    LinesAreRight /\ LoggerTypes /\ [Next]_vars => LoggerTypes'
<1> SUFFICES ASSUME LinesAreRight, LoggerTypes, [Next]_vars PROVE LoggerTypes'
  OBVIOUS
<1>1. ASSUME UNCHANGED <<process, loggers>> PROVE LoggerTypes'
  BY <1>1 DEF LoggerTypes, loggers
<1>2. Invalid \notin Elements /\ Line \in LineSet /\ BookLines \subseteq LineSet
  BY DEF LinesAreRight
<1>3. ASSUME NEW c, Begin(c) \/ Serves(c) PROVE LoggerTypes'
  <2>1. LogLine(c, Line)
    BY <1>3 DEF Begin, Serves, Serve
  <2> QED
    BY <1>2, <2>1, LogLineTypes
<1>4. ASSUME NEW c, LookAtRun(c) \/ Idle(c) PROVE LoggerTypes'
  BY <1>1, <1>4 DEF LookAtRun, Idle
<1>5. CASE DeleteBooks
  <2>1. PICK line \in BookLines : LogLine("engine", line)
    BY <1>5 DEF DeleteBooks
  <2> QED
    BY <1>2, <2>1, LogLineTypes
<1>6. ASSUME NEW c \in Logged, Writer(c) PROVE LoggerTypes'
  <2>0. process' = process /\ lines' = lines /\ L!FlushQueue(c)
    BY <1>6 DEF Writer
  <2> USE DEF LoggerTypes
  <2>1. CASE L!WriteNext(c)
    <3>1. /\ queue_[c] \in Seq(Elements) /\ queue_[c] # <<>>
          /\ file_' = [file_ EXCEPT ![c] = Append(@, Head(queue_[c]))]
          /\ queue_' = [queue_ EXCEPT ![c] = Tail(@)]
          /\ running_' = running_ /\ writer' = writer
      BY <2>1 DEF L!WriteNext
    <3>2. Tail(queue_[c]) \in Seq(Elements) /\ Head(queue_[c]) \in Elements
      BY <3>1, TailIs
    <3>3. Append(file_[c], Head(queue_[c])) \in Seq(Elements)
      BY <3>2
    <3> QED
      BY <2>0, <3>1, <3>2, <3>3
  <2>2. CASE L!Flush(c) \/ L!LookAtRunning(c)
    BY <2>0, <2>2 DEF L!Flush, L!LookAtRunning
  <2> QED
    BY <2>0, <2>1, <2>2 DEF L!FlushQueue
<1>7. ASSUME NEW c, Arrive(c) PROVE LoggerTypes'
  BY <1>1, <1>7 DEF Arrive
<1>8. ASSUME NEW c \in Logged, OpenLogger(c) \/ ClearRunning(c) PROVE LoggerTypes'
  <2>1. CASE OpenLogger(c)
    BY <2>1 DEF OpenLogger, L!Open, LoggerTypes, Rest
  <2>2. CASE ClearRunning(c)
    BY <2>2 DEF ClearRunning, L!ClearRunning, LoggerTypes, Rest
  <2> QED
    BY <1>8, <2>1, <2>2
<1>9. ASSUME NEW c, Waits(c) PROVE LoggerTypes'
  BY <1>1, <1>9 DEF Waits, AwaitWriter, AwaitQueue, Join, Await, Rest
<1>10. ASSUME NEW c, SetRun(c) \/ Create(c) \/ AwaitThread(c) \/ Stop(c) \/ Pause(c) \/ Free(c)
       PROVE  LoggerTypes'
  BY <1>1, <1>10 DEF SetRun, Create, AwaitThread, Await, Stop, Pause, Free, Rest
<1>11. CASE UNCHANGED vars
  BY <1>1, <1>11 DEF vars
<1> QED
  BY <1>3, <1>4, <1>5, <1>6, <1>7, <1>8, <1>9, <1>10, <1>11, Moves

LEMMA ThreadsInductive == ThreadTypes /\ [Next]_vars => ThreadTypes'
<1> SUFFICES ASSUME ThreadTypes, [Next]_vars PROVE ThreadTypes'
  OBVIOUS
<1> USE LifecycleAssumption DEF ThreadTypes
<1>1. ASSUME UNCHANGED <<object, run_, thread, inbox, turns, requests>> PROVE ThreadTypes'
  BY <1>1
<1>2. ASSUME NEW c \in Components, Turn(c)
      PROVE  turns' \in [Components -> Nat] /\ object' = object
  BY <1>2 DEF Turn, owner
<1>3. ASSUME NEW c \in Components, Begin(c) PROVE ThreadTypes'
  BY <1>2, <1>3 DEF Begin
<1>4. ASSUME NEW c \in Components, LookAtRun(c) PROVE ThreadTypes'
  <2>0. turns' \in [Components -> Nat] /\ object' = object /\ run_' = run_
    BY <1>2, <1>4 DEF LookAtRun
  <2>1. thread' = [thread EXCEPT ![c] = IF run_[c] THEN "serving" ELSE "ended"]
    BY <1>4 DEF LookAtRun
  <2>2. PICK new \in (IF c = "server" /\ run_[c] /\ requests < MaxRequests
                     THEN {0, 1} ELSE {0}) :
          /\ requests' = requests + new
          /\ inbox' = [inbox EXCEPT !["engine"] = @ + new]
    BY <1>4 DEF LookAtRun
  <2>3. requests' \in 0 .. MaxRequests
    BY <2>2
  <2>4. inbox' \in [Components -> Nat]
    <3>1. inbox["engine"] \in Nat /\ new \in Nat
      BY <2>2 DEF Components
    <3>2. inbox["engine"] + new \in Nat
      BY <3>1
    <3> QED
      BY <2>2, <3>2
  <2>5. thread' \in [Components -> {"none", "created", "looking", "serving", "ended"}]
    BY <2>1
  <2> QED
    BY <2>0, <2>3, <2>4, <2>5
<1>5. ASSUME NEW c \in Components, Idle(c) PROVE ThreadTypes'
  BY <1>2, <1>5 DEF Idle
<1>6. ASSUME NEW c \in Components, Serves(c) PROVE ThreadTypes'
  <2>1. PICK sends \in [Components -> Nat] :
           Serve(c, IF c \in {"engine", "consumer"} THEN "looking" ELSE "serving", sends)
    BY <1>6 DEF Serves
  <2>2. turns' \in [Components -> Nat] /\ object' = object /\ run_' = run_ /\ requests' = requests
    BY <1>2, <2>1 DEF Serve
  <2>3. thread' \in [Components -> {"none", "created", "looking", "serving", "ended"}]
    BY <2>1 DEF Serve
  <2>4. inbox' \in [Components -> Nat]
    <3>1. inbox' = [d \in Components |-> inbox[d] + sends[d] - (IF d = c THEN 1 ELSE 0)]
          /\ inbox[c] > 0
      BY <2>1 DEF Serve, Readable
    <3>2. ASSUME NEW d \in Components
          PROVE  inbox[d] + sends[d] - (IF d = c THEN 1 ELSE 0) \in Nat
      <4>1. inbox[d] \in Nat /\ sends[d] \in Nat
        OBVIOUS
      <4> QED
        BY <3>1, <4>1
    <3> QED
      BY <3>1, <3>2
  <2> QED
    BY <2>2, <2>3, <2>4
<1>7. ASSUME NEW c, Writer(c) PROVE ThreadTypes'
  BY <1>1, <1>7 DEF Writer, owner
<1>8. ASSUME NEW c \in {"gateway", "consumer"}, Arrive(c) PROVE ThreadTypes'
  <2>1. inbox[c] + 1 \in Nat /\ inbox' = [inbox EXCEPT ![c] = @ + 1]
    BY <1>8 DEF Arrive, Components
  <2>2. inbox' \in [Components -> Nat]
    BY <2>1
  <2>3. requests' \in 0 .. MaxRequests
    BY <1>8 DEF Arrive
  <2> QED
    BY <1>8, <2>2, <2>3 DEF Arrive, owner
<1>9. CASE DeleteBooks
  BY <1>1, <1>9 DEF DeleteBooks
<1>10. ASSUME NEW c, OpenLogger(c) \/ ClearRunning(c) PROVE ThreadTypes'
  BY <1>1, <1>10 DEF OpenLogger, ClearRunning, Rest
<1>11. ASSUME NEW c, Waits(c) \/ AwaitThread(c) PROVE ThreadTypes'
  BY <1>1, <1>11 DEF Waits, AwaitWriter, AwaitThread, AwaitQueue, Join, Await, Rest
<1>12. ASSUME NEW c \in Components, SetRun(c) \/ Create(c) PROVE ThreadTypes'
  BY <1>12 DEF SetRun, Create
<1>13. ASSUME NEW c \in Components, Stop(c) PROVE ThreadTypes'
  BY <1>13 DEF Stop
<1>14. ASSUME NEW c \in Components, Pause(c) PROVE ThreadTypes'
  BY <1>14 DEF Pause
<1>15. ASSUME NEW c \in Components, Free(c) PROVE ThreadTypes'
  BY <1>15 DEF Free, Rest
<1>16. CASE UNCHANGED vars
  BY <1>1, <1>16 DEF vars, owner
<1> QED
  BY <1>3, <1>4, <1>5, <1>6, <1>7, <1>8, <1>9, <1>10, <1>11, <1>12, <1>13, <1>14, <1>15, <1>16, Moves

----------------------------------------------------------------------------
(* Messages: how many there are, and may yet come.                         *)

Updates(n) == MaxUpdates * n

LEMMA UpdatesGrow ==
    /\ \A n \in Nat : Updates(n) \in Nat /\ Updates(n + 1) = Updates(n) + MaxUpdates
    /\ \A m, n \in Nat : m <= n => Updates(m) <= Updates(n)
<1>1. MaxUpdates \in Nat
  BY LifecycleAssumption
<1>2. ASSUME NEW n \in Nat PROVE Updates(n) \in Nat /\ Updates(n + 1) = Updates(n) + MaxUpdates
  BY <1>1, SMT DEF Updates
<1>3. ASSUME NEW m \in Nat, NEW n \in Nat, m <= n PROVE Updates(m) <= Updates(n)
  <2>1. PICK k \in Nat : n = m + k
    BY <1>3, n - m \in Nat
  <2>2. MaxUpdates * (m + k) = MaxUpdates * m + MaxUpdates * k
    BY <1>1, SMT
  <2>3. MaxUpdates * k \in Nat /\ MaxUpdates * m \in Nat
    BY <1>1, SMT
  <2> QED
    BY <2>1, <2>2, <2>3 DEF Updates
<1> QED
  BY <1>2, <1>3

\* What a step does to the queues.
Asked(c) ==     \* a request, or a datagram, comes in for c
    /\ c \in {"engine", "gateway", "consumer"}
    /\ requests' = requests + 1
    /\ inbox' = [inbox EXCEPT ![c] = @ + 1]

Served(c, sends) ==
    /\ SendsOf(c, sends)
    /\ requests' = requests
    /\ inbox[c] > 0
    /\ inbox' = [d \in Components |-> inbox[d] + sends[d] - (IF d = c THEN 1 ELSE 0)]

LEMMA ServesDoes ==
    ASSUME NEW c, Serves(c)
    PROVE  \E sends : Served(c, sends)
<1>1. PICK sends \in [Components -> Nat] :
         /\ SendsOf(c, sends)
         /\ Serve(c, IF c \in {"engine", "consumer"} THEN "looking" ELSE "serving", sends)
  BY DEF Serves
<1>2. Served(c, sends)
  BY <1>1 DEF Serve, Served, Readable
<1> QED
  BY <1>2

LEMMA Traffic ==
    ASSUME ThreadTypes, [Next]_vars
    PROVE  \/ inbox' = inbox /\ requests' = requests
           \/ \E c \in Components : Asked(c)
           \/ \E c \in Components : Serves(c) /\ \E sends : Served(c, sends)
<1>1. ASSUME NEW c \in Components, LookAtRun(c)
      PROVE  Asked("engine") \/ (inbox' = inbox /\ requests' = requests)
  <2>1. PICK new \in (IF c = "server" /\ run_[c] /\ requests < MaxRequests
                     THEN {0, 1} ELSE {0}) :
          /\ requests' = requests + new
          /\ inbox' = [inbox EXCEPT !["engine"] = @ + new]
    BY <1>1 DEF LookAtRun
  <2>2. requests \in Nat /\ inbox \in [Components -> Nat] /\ "engine" \in Components
    BY LifecycleAssumption DEF ThreadTypes, Components
  <2>3. CASE new = 0
    <3>1. requests' = requests
      BY <2>1, <2>2, <2>3
    <3>2. inbox["engine"] + 0 = inbox["engine"]
      BY <2>2
    <3>3. inbox' = inbox
      BY <2>1, <2>2, <2>3, <3>2
    <3> QED
      BY <3>1, <3>3
  <2>4. CASE new = 1
    <3>1. requests' = requests + 1 /\ inbox' = [inbox EXCEPT !["engine"] = @ + 1]
      BY ONLY <2>1, <2>4
    <3> QED
      BY <3>1 DEF Asked
  <2> QED
    BY <2>1, <2>3, <2>4
<1>2. ASSUME NEW c \in Components, Serves(c)
      PROVE  \E sends : Served(c, sends)
  BY <1>2, ServesDoes
<1>3. ASSUME NEW c, Begin(c) \/ Idle(c) PROVE inbox' = inbox /\ requests' = requests
  BY <1>3 DEF Begin, Idle
<1>4. ASSUME NEW c, Writer(c) PROVE inbox' = inbox /\ requests' = requests
  BY <1>4 DEF Writer
<1>5. ASSUME NEW c \in {"gateway", "consumer"}, Arrive(c) PROVE Asked(c) /\ c \in Components
  BY <1>5 DEF Arrive, Asked, Components
<1>6. CASE DeleteBooks
  BY <1>6 DEF DeleteBooks
<1>7. ASSUME NEW c, OpenLogger(c) \/ ClearRunning(c) \/ Waits(c) \/ AwaitThread(c)
      PROVE  inbox' = inbox /\ requests' = requests
  BY <1>7 DEF OpenLogger, ClearRunning, Waits, AwaitWriter, AwaitThread, AwaitQueue,
              Join, Await, Rest
<1>8. ASSUME NEW c, SetRun(c) \/ Create(c) \/ Stop(c) \/ Pause(c) \/ Free(c)
      PROVE  inbox' = inbox /\ requests' = requests
  BY <1>8 DEF SetRun, Create, Stop, Pause, Free, Rest
<1>9. CASE UNCHANGED vars
  BY <1>9 DEF vars
<1>10. "engine" \in Components
  BY DEF Components
<1> QED
  BY <1>1, <1>2, <1>3, <1>4, <1>5, <1>6, <1>7, <1>8, <1>9, <1>10, Moves

\* No more messages than requests, and no more updates than they can cause.
Counts ==
   /\ inbox["engine"] + inbox["server"] + inbox["gateway"] + inbox["consumer"] <= requests
   /\ inbox["publisher"] + inbox["synthesizer"] + Updates(inbox["engine"]) <= Updates(requests)

\* The queues, one by one, after a request for c.
LEMMA AskedDoes ==
    ASSUME ThreadTypes, NEW c, Asked(c)
    PROVE  /\ requests' = requests + 1
           /\ inbox'["engine"] = inbox["engine"] + (IF c = "engine" THEN 1 ELSE 0)
           /\ inbox'["gateway"] = inbox["gateway"] + (IF c = "gateway" THEN 1 ELSE 0)
           /\ inbox'["consumer"] = inbox["consumer"] + (IF c = "consumer" THEN 1 ELSE 0)
           /\ inbox'["server"] = inbox["server"]
           /\ inbox'["publisher"] = inbox["publisher"]
           /\ inbox'["synthesizer"] = inbox["synthesizer"]
  BY DEF Asked, ThreadTypes, Components

LEMMA ServedDoes ==
    ASSUME ThreadTypes, NEW c \in Components, NEW sends, Served(c, sends)
    PROVE  /\ requests' = requests /\ inbox[c] > 0
           /\ inbox'["engine"] = inbox["engine"] - (IF c = "engine" THEN 1 ELSE 0)
           /\ inbox'["gateway"] = inbox["gateway"] - (IF c = "gateway" THEN 1 ELSE 0)
           /\ inbox'["consumer"] = inbox["consumer"] - (IF c = "consumer" THEN 1 ELSE 0)
           /\ inbox'["server"] = inbox["server"] + (IF c = "engine" THEN 1 ELSE 0)
                                                 - (IF c = "server" THEN 1 ELSE 0)
           /\ inbox'["publisher"] <= inbox["publisher"] + (IF c = "engine" THEN MaxUpdates ELSE 0)
                                                        - (IF c = "publisher" THEN 1 ELSE 0)
           /\ inbox'["synthesizer"] = inbox["synthesizer"]
                                         + (IF c = "publisher" THEN 1 ELSE 0)
                                         - (IF c = "synthesizer" THEN 1 ELSE 0)
<1>1. /\ requests' = requests /\ inbox[c] > 0
      /\ \A d \in Components : inbox'[d] = inbox[d] + sends[d] - (IF d = c THEN 1 ELSE 0)
      /\ inbox \in [Components -> Nat] /\ sends \in [Components -> Nat]
  BY DEF Served, ThreadTypes, SendsOf
<1>2. /\ sends["server"] = IF c = "engine" THEN 1 ELSE 0
      /\ sends["publisher"] \in 0 .. MaxUpdates
      /\ c # "engine" => sends["publisher"] = 0
      /\ sends["synthesizer"] = IF c = "publisher" THEN 1 ELSE 0
      /\ sends["engine"] = 0 /\ sends["gateway"] = 0 /\ sends["consumer"] = 0
  BY DEF Served, SendsOf
<1>3. MaxUpdates \in Nat
  BY LifecycleAssumption
<1> QED
  BY <1>1, <1>2, <1>3 DEF Components

LEMMA InboxNat ==
    ThreadTypes => /\ inbox["engine"] \in Nat /\ inbox["server"] \in Nat
                   /\ inbox["gateway"] \in Nat /\ inbox["consumer"] \in Nat
                   /\ inbox["publisher"] \in Nat /\ inbox["synthesizer"] \in Nat
                   /\ requests \in Nat /\ requests <= MaxRequests /\ MaxRequests \in Nat
  BY LifecycleAssumption DEF ThreadTypes, Components

LEMMA CountsInductive ==
    ThreadTypes /\ ThreadTypes' /\ Counts /\ [Next]_vars => Counts'
<1> SUFFICES ASSUME ThreadTypes, ThreadTypes', Counts, [Next]_vars PROVE Counts'
  OBVIOUS
<1> DEFINE e == inbox["engine"]
           e1 == inbox'["engine"]
<1>0. /\ inbox["engine"] \in Nat /\ inbox["server"] \in Nat
      /\ inbox["gateway"] \in Nat /\ inbox["consumer"] \in Nat
      /\ inbox["publisher"] \in Nat /\ inbox["synthesizer"] \in Nat
      /\ requests \in Nat /\ MaxUpdates \in Nat
  BY InboxNat, LifecycleAssumption
<1>1. /\ inbox'["engine"] \in Nat /\ inbox'["server"] \in Nat
      /\ inbox'["gateway"] \in Nat /\ inbox'["consumer"] \in Nat
      /\ inbox'["publisher"] \in Nat /\ inbox'["synthesizer"] \in Nat
      /\ requests' \in Nat
  BY LifecycleAssumption DEF ThreadTypes, Components
<1>2. CASE inbox' = inbox /\ requests' = requests
  BY <1>2 DEF Counts
<1>3. ASSUME NEW c \in Components, Asked(c) PROVE Counts'
  <2>1. Updates(requests + 1) = Updates(requests) + MaxUpdates /\ Updates(requests) \in Nat
    BY <1>0, UpdatesGrow
  <2>2. Updates(e + 1) = Updates(e) + MaxUpdates /\ Updates(e) \in Nat
    BY <1>0, UpdatesGrow
  <2>3. c \in {"engine", "gateway", "consumer"}
    BY <1>3 DEF Asked
  <2>4. Updates(e1) = IF c = "engine" THEN Updates(e) + MaxUpdates ELSE Updates(e)
    <3>1. e1 = IF c = "engine" THEN e + 1 ELSE e
      BY <1>0, <1>3, AskedDoes
    <3> QED
      BY <2>2, <3>1
  <2>5. Updates(requests') = Updates(requests) + MaxUpdates
    BY <1>3, <2>1, AskedDoes
  <2> HIDE DEF e, e1
  <2> QED
    BY <1>0, <1>1, <1>3, <2>1, <2>2, <2>3, <2>4, <2>5, AskedDoes DEF Counts, e, e1
<1>4. ASSUME NEW c \in Components, NEW sends, Served(c, sends) PROVE Counts'
  <2>1. Updates(e1 + 1) = Updates(e1) + MaxUpdates /\ Updates(e1) \in Nat /\ Updates(e) \in Nat
    BY <1>0, <1>1, UpdatesGrow
  <2>2. Updates(e) = IF c = "engine" THEN Updates(e1) + MaxUpdates ELSE Updates(e1)
    <3>1. IF c = "engine" THEN e = e1 + 1 ELSE e1 = e
      BY <1>0, <1>1, <1>4, ServedDoes
    <3> QED
      BY <2>1, <3>1
  <2>3. Updates(requests') = Updates(requests) /\ Updates(requests) \in Nat
    BY <1>0, <1>4, ServedDoes, UpdatesGrow
  <2> QED
    BY <1>0, <1>1, <1>4, <2>1, <2>2, <2>3, ServedDoes DEF Counts, Components
<1> QED
  BY <1>2, <1>3, <1>4, Traffic

\* The queues are no longer than TypeOK says.
LEMMA InboxBound ==
    ThreadTypes /\ Counts => inbox \in [Components -> 0 .. MaxRequests * (MaxUpdates + 1)]
<1> SUFFICES ASSUME ThreadTypes, Counts
             PROVE  inbox \in [Components -> 0 .. MaxRequests * (MaxUpdates + 1)]
  OBVIOUS
<1>1. MaxRequests \in Nat /\ MaxUpdates \in Nat
  BY LifecycleAssumption
<1>2. MaxRequests * (MaxUpdates + 1) = Updates(MaxRequests) + MaxRequests
  BY <1>1, SMT DEF Updates
<1>3. /\ Updates(MaxRequests) \in Nat /\ Updates(requests) <= Updates(MaxRequests)
      /\ Updates(requests) \in Nat /\ Updates(inbox["engine"]) \in Nat
  BY InboxNat, UpdatesGrow
<1> DEFINE most == MaxRequests * (MaxUpdates + 1)
<1> HIDE DEF most
<1>4. /\ inbox["engine"] <= most /\ inbox["server"] <= most /\ inbox["gateway"] <= most
      /\ inbox["consumer"] <= most /\ inbox["publisher"] <= most
      /\ inbox["synthesizer"] <= most /\ most \in Nat
  BY <1>1, <1>2, <1>3, InboxNat DEF Counts, most
<1>5. \A c \in Components : inbox[c] \in 0 .. most
  BY <1>4, InboxNat DEF Components
<1>6. inbox \in [Components -> 0 .. most]
  BY <1>5 DEF ThreadTypes
<1> QED
  BY <1>6 DEF most

----------------------------------------------------------------------------
(* The pauses.                                                             *)

UpdatesToCome == Updates(inbox["engine"]) + Updates(MaxRequests) - Updates(requests)

\* How many messages thread d may still have to read.
Pending(d) ==
    IF d = "server" THEN inbox["server"] + inbox["engine"] + MaxRequests - requests
    ELSE IF d = "gateway" THEN inbox["gateway"] + MaxRequests - requests
    ELSE IF d = "publisher" THEN inbox["publisher"] + UpdatesToCome
    ELSE IF d = "synthesizer" THEN inbox["synthesizer"] + inbox["publisher"] + UpdatesToCome
    ELSE 0

\* How many turns a thread that has been told to stop takes to end, at most.
TurnsLeft(where, pending) ==
    IF where \in {"none", "ended"} THEN 0
    ELSE IF where = "looking" THEN 1
    ELSE IF where = "created" THEN 2
    ELSE 2 + pending

\* main() sleeps for d to end.
SleepsFor(d) == todo # <<>> /\ Head(todo)[1] = "pause" /\ d \in MeantFor(Head(todo)[2])

TurnsCount ==
    \A d \in Components :
       IF SleepsFor(d)
         THEN TurnsLeft(thread[d], Pending(d)) + turns[d] <= PauseTurns[Head(todo)[2]]
         ELSE turns[d] = 0

\* A pause gives a thread the turns it takes to read what there may be to read.
PausesSuffice ==
    /\ PauseTurns["engine"] >= 2
    /\ PauseTurns["consumer"] >= 2
    /\ PauseTurns["server"] >= MaxRequests + 2
    /\ PauseTurns["gateway"] >= MaxRequests + 2
    /\ PauseTurns["publisher"] >= MaxUpdates * MaxRequests + 2

LEMMA UpdatesNat ==
    ASSUME ThreadTypes
    PROVE  /\ Updates(inbox["engine"]) \in Nat /\ Updates(MaxRequests) \in Nat
           /\ Updates(requests) \in Nat /\ Updates(requests) <= Updates(MaxRequests)
           /\ UpdatesToCome \in Nat
<1>1. /\ Updates(inbox["engine"]) \in Nat /\ Updates(MaxRequests) \in Nat
      /\ Updates(requests) \in Nat /\ Updates(requests) <= Updates(MaxRequests)
  BY InboxNat, UpdatesGrow
<1> QED
  BY <1>1 DEF UpdatesToCome

LEMMA PendingNat ==
    ASSUME ThreadTypes, NEW d \in Components
    PROVE  Pending(d) \in Nat
<1>1. UpdatesToCome \in Nat
  BY UpdatesNat
<1> QED
  BY <1>1, InboxNat DEF Pending

\* What is pending can always be read in a pause.
LEMMA PendingBound ==
    ASSUME ThreadTypes, Counts, PausesSuffice, NEW c \in Components, c # "synthesizer",
           NEW d \in MeantFor(c)
    PROVE  2 + Pending(d) <= PauseTurns[c]
<1>1. /\ Updates(inbox["engine"]) \in Nat /\ Updates(MaxRequests) \in Nat
      /\ Updates(requests) \in Nat /\ MaxUpdates * MaxRequests = Updates(MaxRequests)
      /\ inbox["publisher"] + inbox["synthesizer"] + Updates(inbox["engine"]) <= Updates(requests)
  BY UpdatesNat DEF Counts, Updates
<1>2. PauseTurns[c] \in Nat
  BY LifecycleAssumption
<1> HIDE DEF Updates
<1>3. CASE c = "publisher"
  <2>1. d \in {"publisher", "synthesizer"}
    BY <1>3 DEF MeantFor
  <2> QED
    BY <1>1, <1>2, <1>3, <2>1, InboxNat DEF Pending, UpdatesToCome, PausesSuffice
<1>4. CASE c # "publisher"
  <2>1. d = c
    BY <1>4 DEF MeantFor
  <2> QED
    BY <1>2, <1>4, <2>1, InboxNat DEF Pending, PausesSuffice, Counts, Components
<1> QED
  BY <1>3, <1>4

LEMMA LeftBound ==
    ASSUME ThreadTypes, Counts, PausesSuffice, NEW c \in Components, c # "synthesizer",
           NEW d \in MeantFor(c), d \in Components
    PROVE  TurnsLeft(thread[d], Pending(d)) <= PauseTurns[c]
<1>1. 2 + Pending(d) <= PauseTurns[c] /\ Pending(d) \in Nat /\ PauseTurns[c] \in Nat
  BY PendingBound, PendingNat, LifecycleAssumption
<1> QED
  BY <1>1 DEF TurnsLeft

\* Nothing that happens makes a stopped thread's work any more.
LEMMA PendingFalls ==
    ASSUME ThreadTypes, ThreadTypes', [Next]_vars, NEW d \in Components
    PROVE  Pending(d)' <= Pending(d)
<1>1. CASE inbox' = inbox /\ requests' = requests
  <2>1. Pending(d)' = Pending(d)
    BY <1>1 DEF Pending, UpdatesToCome
  <2> QED
    BY <2>1, PendingNat
<1>2. ASSUME NEW c \in Components, Asked(c) PROVE Pending(d)' <= Pending(d)
  <2>1. /\ Updates(requests + 1) = Updates(requests) + MaxUpdates
        /\ Updates(inbox["engine"] + 1) = Updates(inbox["engine"]) + MaxUpdates
        /\ MaxUpdates \in Nat
    BY InboxNat, UpdatesGrow, LifecycleAssumption
  <2>2. c \in {"engine", "gateway", "consumer"}
    BY <1>2 DEF Asked
  <2>3. Updates(requests') = Updates(requests) + MaxUpdates
    BY <1>2, <2>1, AskedDoes
  <2>4. Updates(inbox'["engine"]) = IF c = "engine" THEN Updates(inbox["engine"]) + MaxUpdates
                                                    ELSE Updates(inbox["engine"])
    <3>1. inbox'["engine"] = IF c = "engine" THEN inbox["engine"] + 1 ELSE inbox["engine"]
      BY <1>2, AskedDoes, InboxNat
    <3> QED
      BY <2>1, <3>1
  <2>5. UpdatesToCome' <= UpdatesToCome /\ UpdatesToCome \in Nat /\ UpdatesToCome' \in Int
    BY <2>1, <2>3, <2>4, UpdatesNat DEF UpdatesToCome
  <2>6. /\ requests' = requests + 1
        /\ inbox'["engine"] = inbox["engine"] + (IF c = "engine" THEN 1 ELSE 0)
        /\ inbox'["gateway"] = inbox["gateway"] + (IF c = "gateway" THEN 1 ELSE 0)
        /\ inbox'["server"] = inbox["server"]
        /\ inbox'["publisher"] = inbox["publisher"]
        /\ inbox'["synthesizer"] = inbox["synthesizer"]
    BY <1>2, AskedDoes
  <2> HIDE DEF UpdatesToCome
  <2> QED
    BY <2>5, <2>6, InboxNat DEF Pending
<1>3. ASSUME NEW c \in Components, NEW sends, Served(c, sends) PROVE Pending(d)' <= Pending(d)
  <2>1. /\ requests' = requests /\ inbox[c] > 0
        /\ inbox'["engine"] = inbox["engine"] - (IF c = "engine" THEN 1 ELSE 0)
        /\ inbox'["gateway"] = inbox["gateway"] - (IF c = "gateway" THEN 1 ELSE 0)
        /\ inbox'["server"] = inbox["server"] + (IF c = "engine" THEN 1 ELSE 0)
                                              - (IF c = "server" THEN 1 ELSE 0)
        /\ inbox'["publisher"] <= inbox["publisher"] + (IF c = "engine" THEN MaxUpdates ELSE 0)
                                                     - (IF c = "publisher" THEN 1 ELSE 0)
        /\ inbox'["synthesizer"] = inbox["synthesizer"]
                                      + (IF c = "publisher" THEN 1 ELSE 0)
                                      - (IF c = "synthesizer" THEN 1 ELSE 0)
    BY <1>3, ServedDoes
  <2>2. /\ Updates(inbox'["engine"]) \in Nat /\ Updates(inbox["engine"]) \in Nat
        /\ inbox'["engine"] \in Nat /\ inbox'["publisher"] \in Nat
        /\ Updates(inbox'["engine"] + 1) = Updates(inbox'["engine"]) + MaxUpdates
        /\ MaxUpdates \in Nat
    <3>1. inbox'["engine"] \in Nat /\ inbox["engine"] \in Nat /\ inbox'["publisher"] \in Nat
      BY DEF ThreadTypes, Components
    <3> QED
      BY <3>1, UpdatesGrow, LifecycleAssumption
  <2>3. Updates(inbox["engine"]) = IF c = "engine" THEN Updates(inbox'["engine"]) + MaxUpdates
                                                   ELSE Updates(inbox'["engine"])
    <3>1. IF c = "engine" THEN inbox["engine"] = inbox'["engine"] + 1
                          ELSE inbox'["engine"] = inbox["engine"]
      BY <2>1, InboxNat
    <3> QED
      BY <2>2, <3>1
  <2>4. Updates(requests') = Updates(requests)
    BY <2>1
  <2>5. UpdatesToCome = UpdatesToCome' + (IF c = "engine" THEN MaxUpdates ELSE 0)
        /\ UpdatesToCome \in Nat /\ UpdatesToCome' \in Int
    BY <2>2, <2>3, <2>4, UpdatesNat DEF UpdatesToCome
  <2> HIDE DEF UpdatesToCome
  <2> QED
    BY <2>1, <2>2, <2>5, InboxNat DEF Pending
<1> QED
  BY <1>1, <1>2, <1>3, Traffic

LEMMA ServingCounts ==
    ASSUME ThreadTypes, ThreadTypes', NEW d \in Components, NEW sends, Served(d, sends),
           d \notin {"engine", "consumer"}
    PROVE  Pending(d)' <= Pending(d) - 1
<1>1. /\ requests' = requests /\ inbox'["engine"] = inbox["engine"] - 0
      /\ inbox'["gateway"] = inbox["gateway"] - (IF d = "gateway" THEN 1 ELSE 0)
      /\ inbox'["server"] = inbox["server"] + 0 - (IF d = "server" THEN 1 ELSE 0)
      /\ inbox'["publisher"] <= inbox["publisher"] + 0 - (IF d = "publisher" THEN 1 ELSE 0)
      /\ inbox'["synthesizer"] = inbox["synthesizer"]
                                    + (IF d = "publisher" THEN 1 ELSE 0)
                                    - (IF d = "synthesizer" THEN 1 ELSE 0)
      /\ inbox'["publisher"] \in Nat
  <2>1. inbox'["publisher"] \in Nat
    BY DEF ThreadTypes, Components
  <2> QED
    BY <2>1, ServedDoes
<1>2. inbox'["engine"] = inbox["engine"]
  BY <1>1, InboxNat
<1>3. UpdatesToCome' = UpdatesToCome /\ UpdatesToCome \in Nat
  BY <1>1, <1>2, UpdatesNat DEF UpdatesToCome
<1> HIDE DEF UpdatesToCome
<1> QED
  BY <1>1, <1>2, <1>3, InboxNat DEF Pending, Components

----------------------------------------------------------------------------
(* What main() has done already.                                           *)

Stopped(d) == /\ run_[d] = FALSE
              /\ ~In(todo, <<"run", d>>)
              /\ ~In(todo, <<"create", d>>)
Done(d) == Ended(d) /\ Stopped(d)
NoMoreBooks(c) == c = "engine" => ~In(todo, <<"deleteBooks", "engine">>)
Closed(c) == Done(c) /\ queue_[c] = <<>> /\ NoMoreBooks(c)
Joined(c) == writer[c] = "ended" /\ ~In(todo, <<"open", c>>)

\* What has to come before has yet to come, or has been done.
Owed(c) ==
    /\ \A d \in MeantFor(c) : Earlier(todo, <<"pause", c>>, {<<"stop", d>>}) \/ Stopped(d)
    /\ Earlier(todo, <<"free", c>>, PausesFor(c)) \/ Done(c)
    /\ c \in Logged =>
          /\ Earlier(todo, <<"awaitQueue", c>>, PausesFor(c)) \/ Done(c)
          /\ Earlier(todo, <<"free", c>>, {<<"awaitQueue", c>>}) \/ Closed(c)
          /\ Earlier(todo, <<"free", c>>, {<<"join", c>>}) \/ Joined(c)

Buried(c) ==
    /\ object[c] = "dying" => \A d \in MeantFor(c) : Done(d)
    /\ object[c] = "gone" => Done(c) /\ (c \in Logged => Closed(c) /\ Joined(c))

Waiting(c) ==
    /\ thread[c] = "created" => todo # <<>> /\ Head(todo) = <<"await", c>>
    /\ c \in Logged /\ writer[c] = "created" =>
          todo # <<>> /\ Head(todo) = <<"awaitWriter", c>>

\* A step of main() is its statement; any other leaves main() where it is.
MainActs ==
    /\ todo # <<>> /\ todo' = Tail(todo) /\ Len(todo') # Len(todo)
    /\ Head(todo) \in Statements
    /\ \A c \in Components :
          /\ Head(todo) = <<"run", c>> => SetRun(c)
          /\ Head(todo) = <<"create", c>> => Create(c)
          /\ Head(todo) = <<"await", c>> => AwaitThread(c)
          /\ Head(todo) = <<"stop", c>> => Stop(c)
          /\ Head(todo) = <<"pause", c>> => Pause(c)
          /\ Head(todo) = <<"free", c>> => Free(c)
          /\ Head(todo) = <<"deleteBooks", c>> => c = "engine" /\ DeleteBooks
          /\ Head(todo) = <<"open", c>> => c \in Logged /\ OpenLogger(c)
          /\ Head(todo) = <<"awaitWriter", c>> => c \in Logged /\ AwaitWriter(c)
          /\ Head(todo) = <<"awaitQueue", c>> => c \in Logged /\ AwaitQueue(c)
          /\ Head(todo) = <<"clearRunning", c>> => c \in Logged /\ ClearRunning(c)
          /\ Head(todo) = <<"join", c>> => c \in Logged /\ Join(c)

OthersAct ==
    /\ todo' = todo /\ object' = object
    /\ \/ \E c \in Components : Begin(c) \/ LookAtRun(c) \/ Idle(c) \/ Serves(c)
       \/ \E c \in Logged : Writer(c)
       \/ \E c \in {"gateway", "consumer"} : Arrive(c)
       \/ UNCHANGED vars

LEMMA MainOrOthers ==
    ASSUME Orderly(todo), [Next]_vars
    PROVE  MainActs \/ OthersAct
<1>1. todo # <<>> => /\ Len(Tail(todo)) # Len(todo) /\ Head(todo) \in Statements
  <2>1. todo \in Seq(Statements)
    BY DEF Orderly
  <2> QED
    BY <2>1, TailIs
<1>2. ASSUME NEW call, NEW c, At(call, c)
      PROVE  /\ todo # <<>> /\ todo' = Tail(todo) /\ Len(todo') # Len(todo)
             /\ Head(todo) = <<call, c>> /\ Head(todo) \in Statements
  BY <1>1, <1>2 DEF At
<1>3. CASE DeleteBooks
  <2>1. At("deleteBooks", "engine")
    BY <1>3 DEF DeleteBooks
  <2> QED
    BY <1>2, <1>3, <2>1 DEF MainActs
<1>4. ASSUME NEW c \in Logged, OpenLogger(c) PROVE MainActs
  <2>1. At("open", c)
    BY <1>4 DEF OpenLogger
  <2> QED
    BY <1>2, <1>4, <2>1 DEF MainActs
<1>5. ASSUME NEW c \in Logged, AwaitWriter(c) PROVE MainActs
  <2>1. At("awaitWriter", c)
    BY <1>5 DEF AwaitWriter, Await
  <2> QED
    BY <1>2, <1>5, <2>1 DEF MainActs
<1>6. ASSUME NEW c \in Logged, AwaitQueue(c) PROVE MainActs
  <2>1. At("awaitQueue", c)
    BY <1>6 DEF AwaitQueue, Await
  <2> QED
    BY <1>2, <1>6, <2>1 DEF MainActs
<1>7. ASSUME NEW c \in Logged, ClearRunning(c) PROVE MainActs
  <2>1. At("clearRunning", c)
    BY <1>7 DEF ClearRunning
  <2> QED
    BY <1>2, <1>7, <2>1 DEF MainActs
<1>8. ASSUME NEW c \in Logged, Join(c) PROVE MainActs
  <2>1. At("join", c)
    BY <1>8 DEF Join, Await
  <2> QED
    BY <1>2, <1>8, <2>1 DEF MainActs
<1>9. ASSUME NEW c \in Components, SetRun(c) PROVE MainActs
  <2>1. At("run", c)
    BY <1>9 DEF SetRun
  <2> QED
    BY <1>2, <1>9, <2>1 DEF MainActs
<1>10. ASSUME NEW c \in Components, Create(c) PROVE MainActs
  <2>1. At("create", c)
    BY <1>10 DEF Create
  <2> QED
    BY <1>2, <1>10, <2>1 DEF MainActs
<1>11. ASSUME NEW c \in Components, AwaitThread(c) PROVE MainActs
  <2>1. At("await", c)
    BY <1>11 DEF AwaitThread, Await
  <2> QED
    BY <1>2, <1>11, <2>1 DEF MainActs
<1>12. ASSUME NEW c \in Components, Stop(c) PROVE MainActs
  <2>1. At("stop", c)
    BY <1>12 DEF Stop
  <2> QED
    BY <1>2, <1>12, <2>1 DEF MainActs
<1>13. ASSUME NEW c \in Components, Pause(c) PROVE MainActs
  <2>1. At("pause", c)
    BY <1>13 DEF Pause
  <2> QED
    BY <1>2, <1>13, <2>1 DEF MainActs
<1>14. ASSUME NEW c \in Components, Free(c) PROVE MainActs
  <2>1. At("free", c)
    BY <1>14 DEF Free
  <2> QED
    BY <1>2, <1>14, <2>1 DEF MainActs
<1>15. ASSUME NEW c \in Components, Begin(c) \/ LookAtRun(c) \/ Idle(c) \/ Serves(c)
       PROVE  OthersAct
  <2>1. Turn(c)
    BY <1>15 DEF Begin, LookAtRun, Idle, Serves, Serve
  <2>2. todo' = todo /\ object' = object
    BY <2>1 DEF Turn, owner
  <2> QED
    BY <1>15, <2>2 DEF OthersAct
<1>16. ASSUME NEW c \in Logged, Writer(c) PROVE OthersAct
  BY <1>16 DEF OthersAct, Writer, owner
<1>17. ASSUME NEW c \in {"gateway", "consumer"}, Arrive(c) PROVE OthersAct
  BY <1>17 DEF OthersAct, Arrive, owner
<1>18. CASE UNCHANGED vars
  BY <1>18 DEF OthersAct, vars, owner
<1> QED
  BY <1>3, <1>4, <1>5, <1>6, <1>7, <1>8, <1>9, <1>10, <1>11, <1>12, <1>13, <1>14, <1>15,
     <1>16, <1>17, <1>18, Moves DEF Waits

----------------------------------------------------------------------------
\* What a statement changes, and what it leaves alone.
MainChanges(call, c) ==
    /\ run_' = IF call = "run" THEN [run_ EXCEPT ![c] = TRUE]
               ELSE IF call = "stop" THEN [run_ EXCEPT ![c] = FALSE] ELSE run_
    /\ thread' = IF call = "create" THEN [thread EXCEPT ![c] = "created"] ELSE thread
    /\ inbox' = inbox /\ requests' = requests
    /\ call \notin {"stop", "pause", "free"} => object' = object
    /\ turns' = IF call = "pause" THEN [d \in Components |-> 0] ELSE turns
    /\ file_' = file_
    /\ call # "deleteBooks" => queue_' = queue_ /\ lines' = lines /\ process' = process
    /\ writer' = IF call = "open" THEN [writer EXCEPT ![c] = "created"] ELSE writer

LEMMA MainDoes ==
    ASSUME MainActs, LinesAreRight
    PROVE  \E call \in Calls : \E c \in Components :
              Head(todo) = <<call, c>> /\ MainChanges(call, c)
<1>1. PICK call \in Calls, c \in Components : Head(todo) = <<call, c>>
  BY DEF MainActs, Statements
<1>2. CASE call = "run"
  <2>1. SetRun(c)
    BY <1>1, <1>2 DEF MainActs
  <2> QED
    BY <1>1, <1>2, <2>1 DEF MainChanges, SetRun, loggers
<1>3. CASE call = "create"
  <2>1. Create(c)
    BY <1>1, <1>3 DEF MainActs
  <2> QED
    BY <1>1, <1>3, <2>1 DEF MainChanges, Create, loggers
<1>4. CASE call = "await"
  <2>1. AwaitThread(c)
    BY <1>1, <1>4 DEF MainActs
  <2> QED
    BY <1>1, <1>4, <2>1 DEF MainChanges, AwaitThread, Await, loggers, Rest
<1>5. CASE call = "stop"
  <2>1. Stop(c)
    BY <1>1, <1>5 DEF MainActs
  <2> QED
    BY <1>1, <1>5, <2>1 DEF MainChanges, Stop, loggers
<1>6. CASE call = "pause"
  <2>1. Pause(c)
    BY <1>1, <1>6 DEF MainActs
  <2> QED
    BY <1>1, <1>6, <2>1 DEF MainChanges, Pause, loggers
<1>7. CASE call = "free"
  <2>1. Free(c)
    BY <1>1, <1>7 DEF MainActs
  <2> QED
    BY <1>1, <1>7, <2>1 DEF MainChanges, Free, loggers, Rest
<1>8. CASE call = "deleteBooks"
  <2>1. DeleteBooks
    BY <1>1, <1>8 DEF MainActs
  <2>2. PICK line \in BookLines : LogLine("engine", line)
    BY <2>1 DEF DeleteBooks
  <2>3. file_' = file_ /\ writer' = writer
    BY <2>2, LogLineSays DEF LinesAreRight
  <2> QED
    BY <1>1, <1>8, <2>1, <2>3 DEF MainChanges, DeleteBooks
<1>9. CASE call = "open"
  <2>1. OpenLogger(c)
    BY <1>1, <1>9 DEF MainActs
  <2> QED
    BY <1>1, <1>9, <2>1 DEF MainChanges, OpenLogger, L!Open, Rest
<1>10. CASE call = "awaitWriter"
  <2>1. AwaitWriter(c)
    BY <1>1, <1>10 DEF MainActs
  <2> QED
    BY <1>1, <1>10, <2>1 DEF MainChanges, AwaitWriter, Await, loggers, Rest
<1>11. CASE call = "awaitQueue"
  <2>1. AwaitQueue(c)
    BY <1>1, <1>11 DEF MainActs
  <2> QED
    BY <1>1, <1>11, <2>1 DEF MainChanges, AwaitQueue, Await, loggers, Rest
<1>12. CASE call = "clearRunning"
  <2>1. ClearRunning(c)
    BY <1>1, <1>12 DEF MainActs
  <2> QED
    BY <1>1, <1>12, <2>1 DEF MainChanges, ClearRunning, L!ClearRunning, Rest
<1>13. CASE call = "join"
  <2>1. Join(c)
    BY <1>1, <1>13 DEF MainActs
  <2> QED
    BY <1>1, <1>13, <2>1 DEF MainChanges, Join, Await, loggers, Rest
<1> QED
  BY <1>2, <1>3, <1>4, <1>5, <1>6, <1>7, <1>8, <1>9, <1>10, <1>11, <1>12, <1>13 DEF Calls

\* Threads that have not been created or have ended do nothing, and nobody
\* creates one but main(); the same for the loggers' writers.
LEMMA OthersDo ==
    ASSUME OthersAct, ThreadTypes, LoggerTypes, LinesAreRight
    PROVE  /\ run_' = run_ /\ todo' = todo /\ object' = object
           /\ \A d \in Components :
                 /\ Ended(d) => thread'[d] = thread[d]
                 /\ thread'[d] = "created" => thread[d] = "created"
           /\ \A d \in Logged :
                 /\ writer[d] \in {"none", "ended"} => writer'[d] = writer[d]
                 /\ writer'[d] = "created" => writer[d] = "created"
<1>0. run_' = run_ /\ todo' = todo /\ object' = object
  <2>1. ASSUME NEW c, Begin(c) \/ LookAtRun(c) \/ Idle(c) \/ Serves(c) PROVE run_' = run_
    BY <2>1 DEF Begin, LookAtRun, Idle, Serves, Serve
  <2>2. ASSUME NEW c, Writer(c) \/ Arrive(c) PROVE run_' = run_
    BY <2>2 DEF Writer, Arrive
  <2>3. CASE UNCHANGED vars
    BY <2>3 DEF vars, owner
  <2> QED
    BY <2>1, <2>2, <2>3 DEF OthersAct
<1>1. ASSUME NEW d \in Components
      PROVE  /\ Ended(d) => thread'[d] = thread[d]
             /\ thread'[d] = "created" => thread[d] = "created"
  <2>1. ASSUME NEW c \in Components, Begin(c)
        PROVE  thread[c] = "created" /\ thread' = [thread EXCEPT ![c] = "looking"]
    BY <2>1 DEF Begin
  <2>2. ASSUME NEW c \in Components, LookAtRun(c)
        PROVE  /\ thread[c] = "looking"
               /\ thread' = [thread EXCEPT ![c] = IF run_[c] THEN "serving" ELSE "ended"]
    BY <2>2 DEF LookAtRun
  <2>3. ASSUME NEW c \in Components, Idle(c)
        PROVE  thread[c] = "serving" /\ thread' = [thread EXCEPT ![c] = "looking"]
    BY <2>3 DEF Idle
  <2>4. ASSUME NEW c \in Components, Serves(c)
        PROVE  /\ thread[c] = "serving"
               /\ thread' = [thread EXCEPT ![c] =
                     IF c \in {"engine", "consumer"} THEN "looking" ELSE "serving"]
    BY <2>4 DEF Serves, Serve
  <2>5. ASSUME NEW c, Writer(c) \/ Arrive(c) PROVE thread' = thread
    BY <2>5 DEF Writer, Arrive
  <2>6. CASE thread' = thread
    BY <2>6
  <2>7. ASSUME NEW c \in Components, NEW x, x # "created",
               ~Ended(c), thread' = [thread EXCEPT ![c] = x]
        PROVE  /\ Ended(d) => thread'[d] = thread[d]
               /\ thread'[d] = "created" => thread[d] = "created"
    BY <2>7 DEF Ended, ThreadTypes
  <2>8. ASSUME NEW c \in Components, Begin(c) \/ LookAtRun(c) \/ Idle(c) \/ Serves(c)
        PROVE  ~Ended(c) /\ \E x : x # "created" /\ thread' = [thread EXCEPT ![c] = x]
    <3>1. CASE Begin(c)
      BY <2>1, <3>1 DEF Ended
    <3>2. CASE LookAtRun(c)
      BY <2>2, <3>2 DEF Ended
    <3>3. CASE Idle(c)
      BY <2>3, <3>3 DEF Ended
    <3>4. CASE Serves(c)
      BY <2>4, <3>4 DEF Ended
    <3> QED
      BY <2>8, <3>1, <3>2, <3>3, <3>4
  <2>9. CASE UNCHANGED vars
    BY <2>6, <2>9 DEF vars
  <2>10. ASSUME NEW c \in Components, Begin(c) \/ LookAtRun(c) \/ Idle(c) \/ Serves(c)
         PROVE  /\ Ended(d) => thread'[d] = thread[d]
                /\ thread'[d] = "created" => thread[d] = "created"
    BY <2>7, <2>8, <2>10
  <2> QED
    BY <2>5, <2>6, <2>9, <2>10 DEF OthersAct
<1>2. ASSUME NEW d \in Logged
      PROVE  /\ writer[d] \in {"none", "ended"} => writer'[d] = writer[d]
             /\ writer'[d] = "created" => writer[d] = "created"
  <2>1. ASSUME NEW c \in Components, Begin(c) \/ Serves(c) PROVE writer' = writer
    <3>1. LogLine(c, Line)
      BY <2>1 DEF Begin, Serves, Serve
    <3> QED
      BY <3>1, LogLineSays DEF LinesAreRight
  <2>2. ASSUME NEW c \in Components, LookAtRun(c) \/ Idle(c) PROVE writer' = writer
    BY <2>2 DEF LookAtRun, Idle, loggers
  <2>3. ASSUME NEW c, Arrive(c) PROVE writer' = writer
    BY <2>3 DEF Arrive, loggers
  <2>4. ASSUME NEW c \in Logged, Writer(c)
        PROVE  \/ writer' = writer
               \/ writer[c] = "draining" /\ writer' = [writer EXCEPT ![c] = "looking"]
               \/ /\ writer[c] \in {"created", "looking"}
                  /\ writer' = [writer EXCEPT ![c] = IF running_[c] THEN "draining" ELSE "ended"]
    BY <2>4 DEF Writer, L!FlushQueue, L!WriteNext, L!Flush, L!LookAtRunning
  <2>5. CASE UNCHANGED vars
    BY <2>5 DEF vars, loggers
  <2>6. writer \in [Logged -> {"none", "created", "looking", "draining", "ended"}]
    BY DEF LoggerTypes
  <2>7. ASSUME NEW c \in Logged, Writer(c)
        PROVE  /\ writer[d] \in {"none", "ended"} => writer'[d] = writer[d]
               /\ writer'[d] = "created" => writer[d] = "created"
    BY <2>4, <2>6, <2>7
  <2> QED
    BY <2>1, <2>2, <2>3, <2>5, <2>7 DEF OthersAct
<1> QED
  BY <1>0, <1>1, <1>2

LEMMA StaysOut ==
    ASSUME Orderly(todo), [Next]_vars, NEW s, ~In(todo, s)
    PROVE  ~In(todo', s)
<1>1. CASE MainActs
  BY <1>1, InTail DEF MainActs
<1>2. CASE OthersAct
  BY <1>2 DEF OthersAct
<1> QED
  BY <1>1, <1>2, MainOrOthers

LEMMA StoppedStays ==
    ASSUME Orderly(todo), LinesAreRight, ThreadTypes, LoggerTypes, [Next]_vars,
           NEW d \in Components, Stopped(d)
    PROVE  Stopped(d)'
<1>1. ~In(todo', <<"run", d>>) /\ ~In(todo', <<"create", d>>)
  BY StaysOut DEF Stopped
<1>2. run_'[d] = FALSE
  <2>1. run_[d] = FALSE /\ run_ \in [Components -> BOOLEAN]
    BY DEF Stopped, ThreadTypes
  <2>2. CASE MainActs
    <3>1. PICK call \in Calls, c \in Components : Head(todo) = <<call, c>> /\ MainChanges(call, c)
      BY <2>2, MainDoes
    <3>2. call = "run" => c # d
      <4>1. In(todo, Head(todo))
        BY <2>2, OrderlyTail DEF MainActs
      <4> QED
        BY <3>1, <4>1 DEF Stopped
    <3> QED
      BY <2>1, <3>1, <3>2 DEF MainChanges
  <2>3. CASE OthersAct
    BY <2>1, <2>3, OthersDo
  <2> QED
    BY <2>2, <2>3, MainOrOthers
<1> QED
  BY <1>1, <1>2 DEF Stopped

LEMMA DoneStays ==
    ASSUME Orderly(todo), LinesAreRight, ThreadTypes, LoggerTypes, [Next]_vars,
           NEW d \in Components, Done(d)
    PROVE  Done(d)' /\ thread'[d] = thread[d]
<1>1. Stopped(d)'
  BY StoppedStays DEF Done
<1>2. thread'[d] = thread[d]
  <2>1. CASE MainActs
    <3>1. PICK call \in Calls, c \in Components : Head(todo) = <<call, c>> /\ MainChanges(call, c)
      BY <2>1, MainDoes
    <3>2. call = "create" => c # d
      <4>1. In(todo, Head(todo))
        BY <2>1, OrderlyTail DEF MainActs
      <4> QED
        BY <3>1, <4>1 DEF Done, Stopped
    <3> QED
      BY <3>1, <3>2 DEF MainChanges, ThreadTypes
  <2>2. CASE OthersAct
    BY <2>2, OthersDo DEF Done
  <2> QED
    BY <2>1, <2>2, MainOrOthers
<1> QED
  BY <1>1, <1>2 DEF Done, Ended

LEMMA JoinedStays ==
    ASSUME Orderly(todo), LinesAreRight, ThreadTypes, LoggerTypes, [Next]_vars,
           NEW c \in Logged, Joined(c)
    PROVE  Joined(c)'
<1>1. ~In(todo', <<"open", c>>)
  BY StaysOut DEF Joined
<1>2. writer'[c] = writer[c]
  <2>1. CASE MainActs
    <3>1. PICK call \in Calls, d \in Components : Head(todo) = <<call, d>> /\ MainChanges(call, d)
      BY <2>1, MainDoes
    <3>2. call = "open" => c # d
      <4>1. In(todo, Head(todo))
        BY <2>1, OrderlyTail DEF MainActs
      <4> QED
        BY <3>1, <4>1 DEF Joined
    <3> QED
      BY <3>1, <3>2 DEF MainChanges, LoggerTypes
  <2>2. CASE OthersAct
    BY <2>2, OthersDo DEF Joined
  <2> QED
    BY <2>1, <2>2, MainOrOthers
<1> QED
  BY <1>1, <1>2 DEF Joined

\* A logger whose owner is done is told nothing any more.
LEMMA QuietStep ==
    ASSUME Orderly(todo), LinesAreRight, ThreadTypes, LoggerTypes, [Next]_vars,
           NEW c \in Logged, Done(c), NoMoreBooks(c)
    PROVE  /\ NoMoreBooks(c)' /\ lines'[c] = lines[c]
           /\ queue_'[c] = queue_[c]
              \/ (Writer(c) /\ L!WriteNext(c))
<1>1. NoMoreBooks(c)'
  BY StaysOut DEF NoMoreBooks
<1>2. CASE MainActs
  <2>1. PICK call \in Calls, d \in Components : Head(todo) = <<call, d>> /\ MainChanges(call, d)
    BY <1>2, MainDoes
  <2>2. CASE call # "deleteBooks"
    BY <1>1, <2>1, <2>2 DEF MainChanges
  <2>3. CASE call = "deleteBooks"
    <3>1. DeleteBooks /\ In(todo, <<"deleteBooks", "engine">>)
      <4>1. In(todo, Head(todo))
        BY <1>2, OrderlyTail DEF MainActs
      <4> QED
        BY <1>2, <2>1, <2>3, <4>1 DEF MainActs
    <3>2. c # "engine"
      BY <3>1 DEF NoMoreBooks
    <3>3. PICK line \in BookLines : LogLine("engine", line)
      BY <3>1 DEF DeleteBooks
    <3>4. lines'[c] = lines[c] /\ queue_'[c] = queue_[c]
      BY <3>2, <3>3, LogLineTypes DEF LinesAreRight
    <3> QED
      BY <1>1, <3>4
  <2> QED
    BY <2>2, <2>3
<1>3. CASE OthersAct
  <2>1. ASSUME NEW d \in Components, Begin(d) \/ Serves(d)
        PROVE  lines'[c] = lines[c] /\ queue_'[c] = queue_[c]
    <3>1. LogLine(d, Line) /\ ~Ended(d)
      BY <2>1 DEF Begin, Serves, Serve, Ended
    <3>2. d # c
      BY <3>1 DEF Done
    <3> QED
      BY <3>1, <3>2, LogLineTypes DEF LinesAreRight
  <2>2. ASSUME NEW d, LookAtRun(d) \/ Idle(d) \/ Arrive(d)
        PROVE  lines'[c] = lines[c] /\ queue_'[c] = queue_[c]
    BY <2>2 DEF LookAtRun, Idle, Arrive, loggers
  <2>3. ASSUME NEW d \in Logged, Writer(d)
        PROVE  /\ lines'[c] = lines[c]
               /\ queue_'[c] = queue_[c] \/ (Writer(c) /\ L!WriteNext(c))
    <3>1. lines' = lines
      BY <2>3 DEF Writer
    <3>2. CASE d = c
      BY <2>3, <3>1, <3>2 DEF Writer, L!FlushQueue, L!Flush, L!LookAtRunning
    <3>3. CASE d # c
      BY <2>3, <3>1, <3>3 DEF Writer, L!FlushQueue, L!Flush, L!LookAtRunning, L!WriteNext,
                              LoggerTypes
    <3> QED
      BY <3>2, <3>3
  <2>4. CASE UNCHANGED vars
    BY <1>1, <2>4 DEF vars, loggers
  <2> QED
    BY <1>1, <1>3, <2>1, <2>2, <2>3, <2>4 DEF OthersAct
<1> QED
  BY <1>2, <1>3, MainOrOthers

LEMMA ClosedStays ==
    ASSUME Orderly(todo), LinesAreRight, ThreadTypes, LoggerTypes, [Next]_vars,
           NEW c \in Components, c \in Logged, Closed(c)
    PROVE  Closed(c)'
<1>1. Done(c)'
  BY DoneStays DEF Closed
<1>2. NoMoreBooks(c)' /\ (queue_'[c] = queue_[c] \/ L!WriteNext(c))
  BY QuietStep DEF Closed
<1>3. queue_'[c] = <<>>
  BY <1>2 DEF Closed, L!WriteNext
<1> QED
  BY <1>1, <1>2, <1>3 DEF Closed

----------------------------------------------------------------------------
Sound ==
    /\ Orderly(todo)
    /\ LinesAreRight
    /\ ThreadTypes
    /\ LoggerTypes
    /\ Counts

AllOwed == \A c \in Components : Owed(c)
AllBuried == \A c \in Components : Buried(c)
AllWaiting == \A c \in Components : Waiting(c)

LEMMA StillOwed ==
    ASSUME Sound, [Next]_vars, NEW t, NEW S, Earlier(todo, t, S)
    PROVE  Earlier(todo', t, S) \/ (MainActs /\ Head(todo) \in S)
<1>0. Orderly(todo)
  BY DEF Sound
<1>1. CASE MainActs
  BY <1>0, <1>1, EarlierTail DEF MainActs
<1>2. CASE OthersAct
  BY <1>2 DEF OthersAct
<1> QED
  BY <1>0, <1>1, <1>2, MainOrOthers

LEMMA NotOwedAtHead ==
    ASSUME Sound, MainActs, NEW S
    PROVE  ~Earlier(todo, Head(todo), S)
  BY EarlierTail DEF Sound, MainActs

LEMMA MeantForComponents ==
    ASSUME NEW c \in Components
    PROVE  MeantFor(c) \subseteq Components /\ c \in MeantFor(c)
  BY DEF MeantFor, Components

\* Nothing is destroyed before every thread that the pause was for has ended.
LEMMA PauseWorks ==
    ASSUME Sound, TurnsCount, AllOwed, MainActs, NEW e \in Components,
           Head(todo) = <<"pause", e>>, NEW d \in MeantFor(e)
    PROVE  d \in Components /\ Done(d)
<1>1. d \in Components
  BY MeantForComponents
<1>2. Stopped(d)
  <2>1. Earlier(todo, <<"pause", e>>, {<<"stop", d>>}) \/ Stopped(d)
    BY DEF AllOwed, Owed
  <2>2. ~Earlier(todo, Head(todo), {<<"stop", d>>})
    BY NotOwedAtHead
  <2> QED
    BY <2>1, <2>2
<1>3. Ended(d) \/ turns[d] >= PauseTurns[e]
  <2>1. Pause(e)
    BY DEF MainActs
  <2> QED
    BY <2>1 DEF Pause
<1>4. Ended(d)
  <2>1. SleepsFor(d) /\ Head(todo)[2] = e
    BY DEF SleepsFor, MainActs
  <2>2. TurnsLeft(thread[d], Pending(d)) + turns[d] <= PauseTurns[e]
    BY <1>1, <2>1 DEF TurnsCount
  <2>3. Pending(d) \in Nat /\ turns[d] \in Nat /\ PauseTurns[e] \in Nat
        /\ thread[d] \in {"none", "created", "looking", "serving", "ended"}
    BY <1>1, PendingNat, LifecycleAssumption DEF Sound, ThreadTypes
  <2> QED
    BY <1>3, <2>2, <2>3 DEF TurnsLeft, Ended
<1> QED
  BY <1>1, <1>2, <1>4 DEF Done

LEMMA OwedInductive ==
    ASSUME Sound, TurnsCount, AllOwed, [Next]_vars, NEW c \in Components
    PROVE  Owed(c)'
<1>0. Orderly(todo) /\ LinesAreRight /\ ThreadTypes /\ LoggerTypes
  BY DEF Sound
<1>o. Owed(c)
  BY DEF AllOwed
<1>d. Done(c) => Done(c)'
  BY <1>0, DoneStays
<1>p. ASSUME MainActs, Head(todo) \in PausesFor(c) PROVE Done(c)'
  <2>1. PICK e \in Components : c \in MeantFor(e) /\ Head(todo) = <<"pause", e>>
    BY <1>p DEF PausesFor
  <2>2. Done(c)
    BY <1>p, <2>1, PauseWorks
  <2> QED
    BY <1>d, <2>2
<1>1. ASSUME NEW d \in MeantFor(c)
      PROVE  (Earlier(todo, <<"pause", c>>, {<<"stop", d>>}) \/ Stopped(d))'
  <2>0. d \in Components
    BY MeantForComponents
  <2>1. CASE Stopped(d)
    BY <1>0, <2>0, <2>1, StoppedStays
  <2>2. CASE Earlier(todo, <<"pause", c>>, {<<"stop", d>>})
    <3>1. CASE MainActs /\ Head(todo) \in {<<"stop", d>>}
      <4>1. Stop(d) /\ Head(todo) = <<"stop", d>> /\ todo # <<>> /\ todo' = Tail(todo)
        BY <2>0, <3>1 DEF MainActs
      <4>2. run_'[d] = FALSE
        BY <1>0, <2>0, <4>1 DEF Stop, ThreadTypes
      <4>3. ~In(todo', <<"run", d>>) /\ ~In(todo', <<"create", d>>)
        <5>1. OutOfOrder(Head(todo), <<"run", d>>) /\ OutOfOrder(Head(todo), <<"create", d>>)
          BY <4>1 DEF OutOfOrder
        <5> QED
          BY <1>0, <4>1, <5>1, OrderlyTail
      <4> QED
        BY <4>2, <4>3 DEF Stopped
    <3>2. CASE Earlier(todo', <<"pause", c>>, {<<"stop", d>>})
      BY <3>2
    <3> QED
      BY <2>2, <3>1, <3>2, StillOwed
  <2> QED
    BY <1>o, <2>1, <2>2 DEF Owed
<1>2. (Earlier(todo, <<"free", c>>, PausesFor(c)) \/ Done(c))'
  BY <1>o, <1>d, <1>p, StillOwed DEF Owed, PausesFor
<1>3. ASSUME c \in Logged
      PROVE  (Earlier(todo, <<"awaitQueue", c>>, PausesFor(c)) \/ Done(c))'
  BY <1>o, <1>d, <1>p, <1>3, StillOwed DEF Owed, PausesFor
<1>4. ASSUME c \in Logged
      PROVE  (Earlier(todo, <<"free", c>>, {<<"awaitQueue", c>>}) \/ Closed(c))'
  <2>1. CASE Closed(c)
    BY <1>0, <1>4, <2>1, ClosedStays
  <2>2. CASE Earlier(todo, <<"free", c>>, {<<"awaitQueue", c>>})
    <3>1. CASE MainActs /\ Head(todo) \in {<<"awaitQueue", c>>}
      <4>1. AwaitQueue(c) /\ Head(todo) = <<"awaitQueue", c>> /\ todo # <<>> /\ todo' = Tail(todo)
        BY <3>1 DEF MainActs
      <4>2. Done(c)
        <5>1. ~Earlier(todo, <<"awaitQueue", c>>, PausesFor(c))
          BY <3>1, <4>1, NotOwedAtHead
        <5> QED
          BY <1>4, <1>o, <5>1 DEF Owed
      <4>3. queue_'[c] = <<>>
        BY <4>1 DEF AwaitQueue, Await, L!QueueEmpty, loggers
      <4>4. NoMoreBooks(c)'
        <5>1. c = "engine" => OutOfOrder(Head(todo), <<"deleteBooks", "engine">>)
          BY <4>1 DEF OutOfOrder
        <5> QED
          BY <1>0, <4>1, <5>1, OrderlyTail DEF NoMoreBooks
      <4> QED
        BY <1>d, <4>2, <4>3, <4>4 DEF Closed
    <3>2. CASE Earlier(todo', <<"free", c>>, {<<"awaitQueue", c>>})
      BY <3>2
    <3> QED
      BY <2>2, <3>1, <3>2, StillOwed
  <2> QED
    BY <1>4, <1>o, <2>1, <2>2 DEF Owed
<1>5. ASSUME c \in Logged
      PROVE  (Earlier(todo, <<"free", c>>, {<<"join", c>>}) \/ Joined(c))'
  <2>1. CASE Joined(c)
    BY <1>0, <1>5, <2>1, JoinedStays
  <2>2. CASE Earlier(todo, <<"free", c>>, {<<"join", c>>})
    <3>1. CASE MainActs /\ Head(todo) \in {<<"join", c>>}
      <4>1. Join(c) /\ Head(todo) = <<"join", c>> /\ todo # <<>> /\ todo' = Tail(todo)
        BY <3>1 DEF MainActs
      <4>2. writer'[c] = "ended"
        BY <4>1 DEF Join, Await, loggers
      <4>3. ~In(todo', <<"open", c>>)
        <5>1. OutOfOrder(Head(todo), <<"open", c>>)
          BY <4>1 DEF OutOfOrder
        <5> QED
          BY <1>0, <4>1, <5>1, OrderlyTail
      <4> QED
        BY <4>2, <4>3 DEF Joined
    <3>2. CASE Earlier(todo', <<"free", c>>, {<<"join", c>>})
      BY <3>2
    <3> QED
      BY <2>2, <3>1, <3>2, StillOwed
  <2> QED
    BY <1>5, <1>o, <2>1, <2>2 DEF Owed
<1> QED
  BY <1>1, <1>2, <1>3, <1>4, <1>5 DEF Owed

LEMMA BuriedInductive ==
    ASSUME Sound, TurnsCount, AllOwed, AllBuried, [Next]_vars, NEW c \in Components
    PROVE  Buried(c)'
<1>0. Orderly(todo) /\ LinesAreRight /\ ThreadTypes /\ LoggerTypes
  BY DEF Sound
<1>1. \A d \in Components : Done(d) => Done(d)'
  BY <1>0, DoneStays
<1>2. c \in Logged => (Closed(c) => Closed(c)') /\ (Joined(c) => Joined(c)')
  BY <1>0, ClosedStays, JoinedStays
<1>3. CASE object'[c] = object[c]
  BY <1>1, <1>2, <1>3, MeantForComponents DEF AllBuried, Buried
<1>4. CASE object'[c] # object[c]
  <2>1. MainActs
    BY <1>0, <1>4, MainOrOthers DEF OthersAct
  <2>2. PICK call \in Calls, d \in Components : Head(todo) = <<call, d>> /\ MainChanges(call, d)
    BY <1>0, <2>1, MainDoes
  <2>3. call \in {"stop", "pause", "free"}
    BY <1>4, <2>2 DEF MainChanges
  <2>4. CASE call = "stop"
    <3>1. Stop(d)
      BY <2>1, <2>2, <2>4 DEF MainActs
    <3>2. d = "synthesizer" /\ object["publisher"] = "dying" /\ c = d /\ object'[c] = "dying"
      BY <1>0, <1>4, <3>1 DEF Stop, ThreadTypes
    <3>3. MeantFor(c) = {c} /\ c \in MeantFor("publisher") /\ "publisher" \in Components
      BY <3>2 DEF MeantFor, Components
    <3>4. Done(c)
      BY <3>2, <3>3 DEF AllBuried, Buried
    <3> QED
      BY <1>1, <3>2, <3>3, <3>4 DEF Buried
  <2>5. CASE call = "pause"
    <3>1. Pause(d)
      BY <2>1, <2>2, <2>5 DEF MainActs
    <3>2. c = d /\ object'[c] = "dying"
      BY <1>0, <1>4, <3>1 DEF Pause, ThreadTypes
    <3>3. \A e \in MeantFor(c) : Done(e)'
      BY <1>1, <2>1, <2>2, <2>5, <3>2, PauseWorks
    <3> QED
      BY <3>2, <3>3 DEF Buried
  <2>6. CASE call = "free"
    <3>1. Free(d)
      BY <2>1, <2>2, <2>6 DEF MainActs
    <3>2. c = d /\ object'[c] = "gone"
      BY <1>0, <1>4, <3>1 DEF Free, ThreadTypes
    <3>3. \A S : ~Earlier(todo, <<"free", c>>, S)
      BY <2>1, <2>2, <2>6, <3>2, NotOwedAtHead
    <3>4. Done(c) /\ (c \in Logged => Closed(c) /\ Joined(c))
      BY <3>3 DEF AllOwed, Owed
    <3> QED
      BY <1>1, <1>2, <3>2, <3>4 DEF Buried
  <2> QED
    BY <2>3, <2>4, <2>5, <2>6
<1> QED
  BY <1>3, <1>4

\* createAndStartThread is left only by a thread that has begun.
LEMMA WaitingInductive ==
    ASSUME Sound, AllWaiting, [Next]_vars, NEW c \in Components
    PROVE  Waiting(c)'
<1>0. Orderly(todo) /\ LinesAreRight /\ ThreadTypes /\ LoggerTypes
  BY DEF Sound
<1>w. Waiting(c)
  BY DEF AllWaiting
<1>1. CASE OthersAct
  BY <1>0, <1>1, <1>w, OthersDo DEF Waiting
<1>2. CASE MainActs
  <2>1. PICK call \in Calls, d \in Components : Head(todo) = <<call, d>> /\ MainChanges(call, d)
    BY <1>0, <1>2, MainDoes
  <2>2. /\ todo # <<>> /\ todo' = Tail(todo)
        /\ call = "create" => todo' # <<>> /\ Head(todo') = <<"await", d>>
        /\ call = "open" => todo' # <<>> /\ Head(todo') = <<"awaitWriter", d>>
    BY <1>0, <1>2, <2>1, OrderlyTail DEF MainActs
  <2>3. ASSUME thread'[c] = "created" PROVE todo' # <<>> /\ Head(todo') = <<"await", c>>
    <3>1. ASSUME thread[c] = "created" PROVE FALSE
      <4>1. Head(todo) = <<"await", c>>
        BY <1>w, <3>1 DEF Waiting
      <4>2. AwaitThread(c)
        BY <1>2, <4>1 DEF MainActs
      <4> QED
        BY <3>1, <4>2 DEF AwaitThread, Await
    <3>2. call = "create" /\ c = d
      BY <1>0, <2>1, <2>3, <3>1 DEF MainChanges, ThreadTypes
    <3> QED
      BY <2>2, <3>2
  <2>4. ASSUME c \in Logged, writer'[c] = "created"
        PROVE  todo' # <<>> /\ Head(todo') = <<"awaitWriter", c>>
    <3>1. ASSUME writer[c] = "created" PROVE FALSE
      <4>1. Head(todo) = <<"awaitWriter", c>>
        BY <1>w, <2>4, <3>1 DEF Waiting
      <4>2. AwaitWriter(c)
        BY <1>2, <4>1 DEF MainActs
      <4> QED
        BY <3>1, <4>2 DEF AwaitWriter, Await
    <3>2. call = "open" /\ c = d
      BY <1>0, <2>1, <2>4, <3>1 DEF MainChanges, LoggerTypes
    <3> QED
      BY <2>2, <3>2
  <2> QED
    BY <2>3, <2>4 DEF Waiting
<1> QED
  BY <1>0, <1>1, <1>2, MainOrOthers

----------------------------------------------------------------------------
\* A thread that main() sleeps for takes its turns, and they are enough.
LEMMA PausesAre ==
    ASSUME NEW q, Orderly(q), q # <<>>, Head(q)[1] = "pause"
    PROVE  /\ Head(q) = <<"pause", Head(q)[2]>>
           /\ Head(q)[2] \in Components /\ Head(q)[2] # "synthesizer"
<1>1. Head(q) \in Statements /\ Head(q) # <<"pause", "synthesizer">>
  BY OrderlyTail
<1> QED
  BY <1>1 DEF Statements

LEMMA LeftBounded ==
    ThreadTypes /\ Counts /\ PausesSuffice =>
       \A c \in Components, d \in Components : c # "synthesizer" /\ d \in MeantFor(c) =>
          TurnsLeft(thread[d], Pending(d)) <= PauseTurns[c]
  BY LeftBound

LEMMA LeftBoundedNext ==
    (ThreadTypes /\ Counts /\ PausesSuffice =>
       \A c \in Components, d \in Components : c # "synthesizer" /\ d \in MeantFor(c) =>
          TurnsLeft(thread[d], Pending(d)) <= PauseTurns[c])'
  BY LeftBounded, PTL

LEMMA PendingNats == ThreadTypes => \A d \in Components : Pending(d) \in Nat
  BY PendingNat

LEMMA PendingNatNext == (ThreadTypes => \A d \in Components : Pending(d) \in Nat)'
  BY PendingNats, PTL

LEMMA TurnsAre ==
    ASSUME ThreadTypes, NEW c \in Components, Turn(c), NEW d \in Components
    PROVE  /\ d # c \/ ~SleepsFor(d) => turns'[d] = turns[d]
           /\ turns'[d] <= turns[d] + 1
  BY DEF Turn, SleepsFor, ThreadTypes

\* What a turn does to the thread, and to what a stopped thread has left to do.
LEMMA LeftFalls ==
    ASSUME ThreadTypes, ThreadTypes', [Next]_vars, NEW d \in Components, thread'[d] = thread[d]
    PROVE  TurnsLeft(thread[d], Pending(d))' <= TurnsLeft(thread[d], Pending(d))
<1>1. Pending(d)' <= Pending(d) /\ Pending(d) \in Nat /\ Pending(d)' \in Nat
  BY PendingFalls, PendingNat, PendingNatNext
<1> QED
  BY <1>1 DEF TurnsLeft

LEMMA TurnLowers ==
    ASSUME ThreadTypes, ThreadTypes', [Next]_vars, NEW d \in Components, run_[d] = FALSE,
           Begin(d) \/ LookAtRun(d) \/ Idle(d) \/ Serves(d)
    PROVE  TurnsLeft(thread[d], Pending(d))' <= TurnsLeft(thread[d], Pending(d)) - 1
<1>1. Pending(d)' <= Pending(d) /\ Pending(d) \in Nat /\ Pending(d)' \in Nat
  BY PendingFalls, PendingNat, PendingNatNext
<1>0. thread \in [Components -> {"none", "created", "looking", "serving", "ended"}]
  BY DEF ThreadTypes
<1>2. CASE Begin(d)
  <2>1. thread[d] = "created" /\ thread'[d] = "looking"
    BY <1>0, <1>2 DEF Begin
  <2> QED
    BY <1>1, <2>1 DEF TurnsLeft
<1>3. CASE LookAtRun(d)
  <2>1. thread[d] = "looking" /\ thread'[d] = "ended"
    BY <1>0, <1>3 DEF LookAtRun
  <2> QED
    BY <1>1, <2>1 DEF TurnsLeft
<1>4. CASE Idle(d)
  <2>1. thread[d] = "serving" /\ thread'[d] = "looking"
    BY <1>0, <1>4 DEF Idle
  <2> QED
    BY <1>1, <2>1 DEF TurnsLeft
<1>5. CASE Serves(d)
  <2>1. thread[d] = "serving"
        /\ thread'[d] = IF d \in {"engine", "consumer"} THEN "looking" ELSE "serving"
    BY <1>0, <1>5 DEF Serves, Serve
  <2>2. d \notin {"engine", "consumer"} => Pending(d)' <= Pending(d) - 1
    BY <1>5, ServesDoes, ServingCounts
  <2> QED
    BY <1>1, <2>1, <2>2 DEF TurnsLeft
<1> QED
  BY <1>2, <1>3, <1>4, <1>5

LEMMA TurnsInductive ==
    ASSUME Sound, Sound', PausesSuffice, TurnsCount, AllOwed, [Next]_vars
    PROVE  TurnsCount'
<1>0. /\ Orderly(todo) /\ LinesAreRight /\ ThreadTypes /\ LoggerTypes /\ Counts
      /\ Orderly(todo') /\ ThreadTypes' /\ Counts' /\ PausesSuffice'
  BY DEF Sound, PausesSuffice
<1> SUFFICES ASSUME NEW d \in Components
             PROVE  IF SleepsFor(d)'
                      THEN (TurnsLeft(thread[d], Pending(d)) + turns[d]
                              <= PauseTurns[Head(todo)[2]])'
                      ELSE turns'[d] = 0
  BY DEF TurnsCount
<1>1. CASE MainActs
  <2>1. turns'[d] = 0
    <3>1. PICK call \in Calls, c \in Components : Head(todo) = <<call, c>> /\ MainChanges(call, c)
      BY <1>0, <1>1, MainDoes
    <3>2. CASE call = "pause"
      BY <3>1, <3>2 DEF MainChanges
    <3>3. CASE call # "pause"
      <4>1. ~SleepsFor(d)
        BY <3>1, <3>3 DEF SleepsFor
      <4>2. turns[d] = 0
        BY <4>1 DEF TurnsCount
      <4> QED
        BY <3>1, <3>3, <4>2 DEF MainChanges
    <3> QED
      BY <3>2, <3>3
  <2>2. ASSUME SleepsFor(d)'
        PROVE  TurnsLeft(thread[d], Pending(d))' <= PauseTurns[Head(todo')[2]]
    <3>1. todo' # <<>> /\ Head(todo')[1] = "pause" /\ d \in MeantFor(Head(todo')[2])
      BY <2>2 DEF SleepsFor
    <3>2. Head(todo')[2] \in Components /\ Head(todo')[2] # "synthesizer"
      BY <1>0, <3>1, PausesAre
    <3> QED
      BY <1>0, <3>1, <3>2, LeftBoundedNext
  <2>3. TurnsLeft(thread[d], Pending(d))' \in Nat
    BY <1>0, PendingNatNext DEF TurnsLeft
  <2> QED
    BY <2>1, <2>2, <2>3
<1>2. CASE OthersAct
  <2>0. todo' = todo
    BY <1>2 DEF OthersAct
  <2>1. SleepsFor(d)' = SleepsFor(d)
    BY <2>0 DEF SleepsFor
  <2>2. /\ TurnsLeft(thread[d], Pending(d)) \in Nat /\ TurnsLeft(thread[d], Pending(d))' \in Nat
        /\ turns[d] \in Nat /\ turns'[d] \in Nat
    BY <1>0, PendingNat, PendingNatNext DEF TurnsLeft, ThreadTypes
  <2>3. ASSUME turns'[d] = turns[d], thread'[d] = thread[d]
        PROVE  TurnsCount => IF SleepsFor(d)'
                      THEN (TurnsLeft(thread[d], Pending(d)) + turns[d]
                              <= PauseTurns[Head(todo)[2]])'
                      ELSE turns'[d] = 0
    <3>1. TurnsLeft(thread[d], Pending(d))' <= TurnsLeft(thread[d], Pending(d))
      BY <1>0, <2>3, LeftFalls
    <3>2. SleepsFor(d) => PauseTurns[Head(todo)[2]] \in Nat
      BY <1>0, PausesAre, LifecycleAssumption DEF SleepsFor
    <3> QED
      BY <2>0, <2>1, <2>2, <2>3, <3>1, <3>2 DEF TurnsCount
  <2>4. ASSUME NEW c \in Components, Begin(c) \/ LookAtRun(c) \/ Idle(c) \/ Serves(c)
        PROVE  IF SleepsFor(d)'
                 THEN (TurnsLeft(thread[d], Pending(d)) + turns[d]
                         <= PauseTurns[Head(todo)[2]])'
                 ELSE turns'[d] = 0
    <3>1. Turn(c)
      BY <2>4 DEF Begin, LookAtRun, Idle, Serves, Serve
    <3>2. CASE c # d
      <4>1. thread'[d] = thread[d]
        BY <1>0, <2>4, <3>2 DEF Begin, LookAtRun, Idle, Serves, Serve, ThreadTypes
      <4>2. turns'[d] = turns[d]
        BY <1>0, <3>1, <3>2, TurnsAre
      <4> QED
        BY <2>3, <4>1, <4>2
    <3>3. CASE c = d /\ ~SleepsFor(d)
      <4>1. turns'[d] = turns[d]
        BY <1>0, <3>1, <3>3, TurnsAre
      <4> QED
        BY <2>1, <3>3, <4>1 DEF TurnsCount
    <3>4. CASE c = d /\ SleepsFor(d)
      <4> DEFINE e == Head(todo)[2]
      <4>1. /\ todo # <<>> /\ Head(todo) = <<"pause", e>> /\ d \in MeantFor(e)
            /\ e \in Components /\ PauseTurns[e] \in Nat
        BY <1>0, <3>4, PausesAre, LifecycleAssumption DEF SleepsFor
      <4>2. run_[d] = FALSE
        <5>1. Earlier(todo, <<"pause", e>>, {<<"stop", d>>}) \/ Stopped(d)
          BY <4>1 DEF AllOwed, Owed
        <5>2. ~Earlier(todo, Head(todo), {<<"stop", d>>})
          BY <1>0, <4>1, EarlierTail
        <5> QED
          BY <4>1, <5>1, <5>2 DEF Stopped
      <4>3. TurnsLeft(thread[d], Pending(d))' <= TurnsLeft(thread[d], Pending(d)) - 1
        BY <1>0, <2>4, <3>4, <4>2, TurnLowers
      <4>4. turns'[d] <= turns[d] + 1
        BY <1>0, <3>1, TurnsAre
      <4>5. TurnsLeft(thread[d], Pending(d)) + turns[d] <= PauseTurns[e]
        BY <3>4 DEF TurnsCount
      <4>6. SleepsFor(d)' /\ Head(todo')[2] = e
        BY <2>0, <2>1, <3>4
      <4> HIDE DEF e
      <4>7. TurnsLeft(thread[d], Pending(d))' + turns'[d] <= PauseTurns[e]
        BY <2>2, <4>1, <4>3, <4>4, <4>5
      <4> QED
        BY <4>6, <4>7
    <3> QED
      BY <3>2, <3>3, <3>4
  <2>5. ASSUME NEW c, Writer(c) \/ Arrive(c) PROVE turns' = turns /\ thread' = thread
    BY <2>5 DEF Writer, Arrive
  <2>6. CASE UNCHANGED vars
    BY <2>3, <2>6 DEF vars
  <2> QED
    BY <1>2, <2>3, <2>4, <2>5, <2>6 DEF OthersAct
<1> QED
  BY <1>0, <1>1, <1>2, MainOrOthers

----------------------------------------------------------------------------
(* What the loggers write.                                                 *)

AllMatch(ls) == \A i \in DOMAIN ls : Matching(ls[i])

LinesKept(c) == AllMatch(lines[c]) => file_[c] \o queue_[c] = Written(lines[c])

\* Only a line whose places are not its arguments ends the process; the file
\* and the queue hold every line; and a logger outlives no such line.
LogsKept ==
    /\ \A c \in Logged : LinesKept(c)
    /\ \A c \in Logged : object[c] = "gone" => AllMatch(lines[c])
    /\ process = "fatal" <=> \E c \in Logged : ~AllMatch(lines[c])

LEMMA RenderedIs ==
    ASSUME Invalid \notin Elements, NEW line \in LineSet, Matching(line)
    PROVE  Rendered(line) \in Seq(Elements)
<1>1. line.format \in Seq(Elements) /\ line.args \in Seq(Elements)
  BY DEF LineSet
<1> QED
  BY <1>1, LogIsRight DEF Matching, Rendered

LEMMA AllMatchAppend ==
    ASSUME NEW ls \in Seq(LineSet), NEW line \in LineSet
    PROVE  AllMatch(Append(ls, line)) <=> AllMatch(ls) /\ Matching(line)
<1>1. /\ DOMAIN Append(ls, line) = 1 .. Len(ls) + 1 /\ DOMAIN ls = 1 .. Len(ls)
      /\ Append(ls, line)[Len(ls) + 1] = line /\ Len(ls) \in Nat
      /\ \A i \in 1 .. Len(ls) : Append(ls, line)[i] = ls[i]
  OBVIOUS
<1>2. ASSUME AllMatch(Append(ls, line)) PROVE AllMatch(ls) /\ Matching(line)
  <2>1. Len(ls) + 1 \in DOMAIN Append(ls, line) /\ \A i \in DOMAIN ls : i \in DOMAIN Append(ls, line)
    BY <1>1
  <2> QED
    BY <1>1, <1>2, <2>1 DEF AllMatch
<1>3. ASSUME AllMatch(ls), Matching(line) PROVE AllMatch(Append(ls, line))
  <2> SUFFICES ASSUME NEW i \in DOMAIN Append(ls, line)
               PROVE  Matching(Append(ls, line)[i])
    BY DEF AllMatch
  <2>1. CASE i = Len(ls) + 1
    BY <1>1, <1>3, <2>1
  <2>2. CASE i # Len(ls) + 1
    <3>1. i \in 1 .. Len(ls)
      BY <1>1, <2>2
    <3> QED
      BY <1>1, <1>3, <3>1 DEF AllMatch
  <2> QED
    BY <2>1, <2>2
<1> QED
  BY <1>2, <1>3

\* One line more is logged, or what has been logged is written.
Logs(c, line) == process = "running" /\ LogLine(c, line) /\ object' = object

WritesOnly ==
    /\ process' = process /\ lines' = lines
    /\ \A c \in Logged : \/ queue_'[c] = queue_[c] /\ file_'[c] = file_[c]
                         \/ L!WriteNext(c)
    /\ process = "fatal" => object' = object

LEMMA LogSteps ==
    ASSUME LoggerTypes, [Next]_vars
    PROVE  WritesOnly \/ \E c, line : line \in {Line} \cup BookLines /\ Logs(c, line)
<1>1. ASSUME UNCHANGED <<process, loggers>>, process = "running" \/ object' = object
      PROVE  WritesOnly
  BY <1>1 DEF WritesOnly, loggers, LoggerTypes
<1>2. ASSUME NEW c, Begin(c) \/ Serves(c) PROVE Logs(c, Line)
  BY <1>2 DEF Begin, Serves, Serve, Turn, owner, Logs
<1>3. ASSUME NEW c, LookAtRun(c) \/ Idle(c) PROVE WritesOnly
  BY <1>1, <1>3 DEF LookAtRun, Idle, Turn, owner
<1>4. CASE DeleteBooks
  <2>1. PICK line \in BookLines : LogLine("engine", line)
    BY <1>4 DEF DeleteBooks
  <2> QED
    BY <1>4, <2>1 DEF DeleteBooks, At, Logs
<1>5. ASSUME NEW c \in Logged, Writer(c) PROVE WritesOnly
  <2>1. lines' = lines /\ process' = process /\ object' = object
    BY <1>5 DEF Writer, owner
  <2>2. CASE L!WriteNext(c)
    <3>1. \A d \in Logged \ {c} : queue_'[d] = queue_[d] /\ file_'[d] = file_[d]
      BY <2>2 DEF L!WriteNext, LoggerTypes
    <3> QED
      BY <2>1, <2>2, <3>1 DEF WritesOnly
  <2>3. CASE L!Flush(c) \/ L!LookAtRunning(c)
    BY <2>1, <2>3 DEF L!Flush, L!LookAtRunning, WritesOnly
  <2> QED
    BY <1>5, <2>2, <2>3 DEF Writer, L!FlushQueue
<1>6. ASSUME NEW c, Arrive(c) PROVE WritesOnly
  BY <1>1, <1>6 DEF Arrive
<1>7. ASSUME NEW c \in Logged, OpenLogger(c) \/ ClearRunning(c) PROVE WritesOnly
  <2>1. CASE OpenLogger(c)
    BY <2>1 DEF OpenLogger, L!Open, WritesOnly, Rest
  <2>2. CASE ClearRunning(c)
    BY <2>2 DEF ClearRunning, L!ClearRunning, WritesOnly, Rest
  <2> QED
    BY <1>7, <2>1, <2>2
<1>8. ASSUME NEW c, Waits(c) PROVE WritesOnly
  BY <1>1, <1>8 DEF Waits, AwaitWriter, AwaitQueue, Join, Await, Rest
<1>9. ASSUME NEW c, SetRun(c) \/ Create(c) \/ AwaitThread(c) \/ Stop(c) \/ Pause(c) \/ Free(c)
      PROVE  WritesOnly
  <2>1. process = "running"
    BY <1>9 DEF SetRun, Create, AwaitThread, Await, Stop, Pause, Free, At
  <2> QED
    BY <1>1, <1>9, <2>1 DEF SetRun, Create, AwaitThread, Await, Stop, Pause, Free, Rest
<1>10. CASE UNCHANGED vars
  BY <1>1, <1>10 DEF vars, owner
<1> QED
  BY <1>2, <1>3, <1>4, <1>5, <1>6, <1>7, <1>8, <1>9, <1>10, Moves

LEMMA WritingKeeps ==
    ASSUME LoggerTypes, NEW c \in Logged, L!WriteNext(c)
    PROVE  file_'[c] \o queue_'[c] = file_[c] \o queue_[c]
<1>1. /\ queue_[c] \in Seq(Elements) /\ queue_[c] # <<>> /\ file_[c] \in Seq(Elements)
      /\ file_'[c] = Append(file_[c], Head(queue_[c]))
      /\ queue_'[c] = Tail(queue_[c])
  BY DEF L!WriteNext, LoggerTypes
<1>2. ASSUME NEW f \in Seq(Elements), NEW q \in Seq(Elements), q # <<>>
      PROVE  Append(f, Head(q)) \o Tail(q) = f \o q
  BY <1>2
<1> QED
  BY <1>1, <1>2

LEMMA LoggingKeeps ==
    ASSUME LinesAreRight, LoggerTypes, NEW c \in Logged, NEW line \in LineSet, LogLine(c, line),
           LinesKept(c)
    PROVE  LinesKept(c)'
<1>1. Invalid \notin Elements /\ Says(c, line) /\ file_' = file_
  BY LogLineSays DEF LinesAreRight
<1>2. /\ lines'[c] = Append(lines[c], line)
      /\ lines[c] \in Seq(LineSet) /\ queue_[c] \in Seq(Elements) /\ file_[c] \in Seq(Elements)
  BY <1>1, SaysTypes DEF LoggerTypes
<1> SUFFICES ASSUME AllMatch(lines'[c])
             PROVE  file_'[c] \o queue_'[c] = Written(lines'[c])
  BY DEF LinesKept
<1>3. AllMatch(lines[c]) /\ Matching(line)
  BY <1>2, AllMatchAppend
<1>4. queue_'[c] = queue_[c] \o Rendered(line) /\ Rendered(line) \in Seq(Elements)
  <2> DEFINE more == queue_[c] \o Rendered(line)
  <2> HIDE DEF more
  <2>1. queue_' = [queue_ EXCEPT ![c] = more] /\ Rendered(line) \in Seq(Elements)
    BY <1>1, <1>3 DEF Says, more
  <2>2. queue_'[c] = more
    BY <2>1 DEF LoggerTypes
  <2> QED
    BY <2>1, <2>2 DEF more
<1>5. Written(lines[c]) = file_[c] \o queue_[c] /\ Written(lines[c]) \in Seq(Elements)
  <2>1. Written(lines[c]) = file_[c] \o queue_[c]
    BY <1>3 DEF LinesKept
  <2>2. \A f, q \in Seq(Elements) : f \o q \in Seq(Elements)
    OBVIOUS
  <2>3. file_[c] \o queue_[c] \in Seq(Elements)
    BY <1>2, <2>2
  <2> QED
    BY <2>1, <2>3
<1>6. Written(lines'[c]) = Written(lines[c]) \o Rendered(line)
  <2> DEFINE ls == lines[c]
  <2>1. \A i \in DOMAIN Append(ls, line) : Rendered(Append(ls, line)[i]) \in Seq(Elements)
    <3>1. Append(ls, line) \in Seq(LineSet)
      BY <1>2
    <3>2. \A i \in DOMAIN Append(ls, line) : Append(ls, line)[i] \in LineSet
      BY <3>1
    <3>3. AllMatch(Append(ls, line))
      BY <1>2
    <3> HIDE DEF ls
    <3> QED
      BY <1>1, <3>2, <3>3, RenderedIs DEF AllMatch
  <2> QED
    BY <1>2, <1>5, <2>1, OneMoreWritten
<1>7. (file_[c] \o queue_[c]) \o Rendered(line) = file_[c] \o (queue_[c] \o Rendered(line))
  <2>1. \A f, q, r \in Seq(Elements) : (f \o q) \o r = f \o (q \o r)
    OBVIOUS
  <2> QED
    BY <1>2, <1>4, <2>1
<1> QED
  BY <1>1, <1>4, <1>5, <1>6, <1>7

LEMMA LogsInductive ==
    ASSUME Sound, AllBuried, LogsKept, [Next]_vars
    PROVE  LogsKept'
<1>0. Orderly(todo) /\ LinesAreRight /\ ThreadTypes /\ LoggerTypes
  BY DEF Sound
<1>1. CASE WritesOnly
  <2>1. ASSUME NEW c \in Logged PROVE LinesKept(c)'
    <3>1. file_'[c] \o queue_'[c] = file_[c] \o queue_[c] /\ lines'[c] = lines[c]
      BY <1>0, <1>1, WritingKeeps DEF WritesOnly
    <3> QED
      BY <3>1 DEF LinesKept, LogsKept
  <2>2. ASSUME NEW c \in Logged, object'[c] = "gone" PROVE AllMatch(lines'[c])
    <3>1. CASE process = "fatal"
      BY <1>1, <2>2, <3>1 DEF WritesOnly, LogsKept
    <3>2. CASE process # "fatal"
      BY <1>1, <3>2 DEF WritesOnly, LogsKept
    <3> QED
      BY <3>1, <3>2
  <2>3. (process = "fatal" <=> \E c \in Logged : ~AllMatch(lines[c]))'
    BY <1>1 DEF WritesOnly, LogsKept
  <2> QED
    BY <2>1, <2>2, <2>3 DEF LogsKept
<1>2. ASSUME NEW c, NEW line \in {Line} \cup BookLines, Logs(c, line) PROVE LogsKept'
  <2>0. line \in LineSet /\ Invalid \notin Elements /\ process = "running" /\ object' = object
        /\ LogLine(c, line)
    BY <1>0, <1>2 DEF LinesAreRight, Logs
  <2>1. /\ file_' = file_
        /\ \A d \in Logged \ {c} : lines'[d] = lines[d] /\ queue_'[d] = queue_[d]
    BY <1>0, <2>0, LogLineSays, LogLineTypes
  <2>2. \A d \in Logged : AllMatch(lines[d])
    BY <2>0 DEF LogsKept
  <2>3. CASE c \notin Logged
    <3>1. process' = process /\ lines' = lines /\ queue_' = queue_
      BY <2>0, <2>3, LogLineSays
    <3> QED
      BY <2>0, <2>1, <3>1 DEF LogsKept, LinesKept
  <2>4. CASE c \in Logged
    <3>1. Says(c, line) /\ lines[c] \in Seq(LineSet)
      BY <1>0, <2>0, <2>4, LogLineSays DEF LoggerTypes
    <3>2. lines'[c] = Append(lines[c], line)
      BY <1>0, <2>0, <2>4, <3>1, SaysTypes
    <3>3. AllMatch(lines'[c]) <=> Matching(line)
      BY <2>0, <2>2, <2>4, <3>1, <3>2, AllMatchAppend
    <3>4. process' = "fatal" <=> ~Matching(line)
      BY <2>0, <3>1 DEF Says
    <3>5. object'[c] # "gone"
      <4>1. CASE lines'[c] = lines[c]
        <5>1. Len(lines'[c]) = Len(lines[c]) + 1 /\ Len(lines[c]) \in Nat
          BY <2>0, <3>1, <3>2
        <5> QED
          BY <4>1, <5>1
      <4>2. CASE object[c] = "gone"
        <5>1. Done(c) /\ NoMoreBooks(c)
          BY <2>4, <4>2, LifecycleAssumption DEF AllBuried, Buried, Closed
        <5>2. lines'[c] = lines[c]
          BY <1>0, <2>4, <5>1, QuietStep
        <5> QED
          BY <4>1, <5>2
      <4> QED
        BY <2>0, <4>2
    <3>6. \A d \in Logged : LinesKept(d)'
      <4> TAKE d \in Logged
      <4>1. LinesKept(d)
        BY DEF LogsKept
      <4>2. CASE d = c
        BY <1>0, <2>0, <2>4, <4>1, <4>2, LoggingKeeps
      <4>3. CASE d # c
        BY <2>1, <4>1, <4>3 DEF LinesKept
      <4> QED
        BY <4>2, <4>3
    <3>7. \A d \in Logged : object'[d] = "gone" => AllMatch(lines'[d])
      BY <2>1, <2>2, <3>5
    <3>8. process' = "fatal" <=> \E d \in Logged : ~AllMatch(lines'[d])
      BY <2>1, <2>2, <2>4, <3>3, <3>4
    <3> QED
      BY <3>6, <3>7, <3>8 DEF LogsKept
  <2> QED
    BY <2>3, <2>4
<1> QED
  BY <1>0, <1>1, <1>2, LogSteps

----------------------------------------------------------------------------
(* The two programs do things in the right order.                          *)

\* Statements that construct and start, and statements that stop and destroy.
Starts(q) ==
    /\ Orderly(q) /\ Prepared(q)
    /\ \A s : In(q, s) => s[1] \in {"open", "awaitWriter", "run", "create", "await"}

Ends(q, C) ==
    /\ Orderly(q) /\ Prepared(q)
    /\ \A s : In(q, s) => s[1] \notin {"open", "run", "create"} /\ s[2] \in C

LEMMA Concatenation ==
    ASSUME NEW X, NEW p \in Seq(X), NEW q \in Seq(X)
    PROVE  /\ p \o q \in Seq(X)
           /\ DOMAIN p = 1 .. Len(p) /\ DOMAIN q = 1 .. Len(q)
           /\ DOMAIN (p \o q) = 1 .. Len(p) + Len(q) /\ Len(p) \in Nat /\ Len(q) \in Nat
           /\ \A i \in DOMAIN p : i \in DOMAIN (p \o q) /\ (p \o q)[i] = p[i]
           /\ \A i \in DOMAIN q : i + Len(p) \in DOMAIN (p \o q) /\ (p \o q)[i + Len(p)] = q[i]
           /\ \A i \in DOMAIN (p \o q) : i \in DOMAIN p \/ i - Len(p) \in DOMAIN q
           /\ \A i \in DOMAIN (p \o q) : (p \o q)[i] = IF i <= Len(p) THEN p[i] ELSE q[i - Len(p)]
  OBVIOUS

LEMMA InConcatenation ==
    ASSUME NEW p \in Seq(Statements), NEW q \in Seq(Statements), NEW s
    PROVE  In(p \o q, s) <=> In(p, s) \/ In(q, s)
<1> DEFINE r == p \o q
<1>1. /\ DOMAIN p = 1 .. Len(p) /\ Len(p) \in Nat
      /\ \A i \in DOMAIN p : i \in DOMAIN r /\ r[i] = p[i]
      /\ \A i \in DOMAIN q : i + Len(p) \in DOMAIN r /\ r[i + Len(p)] = q[i]
      /\ \A i \in DOMAIN r : i \in DOMAIN p \/ i - Len(p) \in DOMAIN q
      /\ \A i \in DOMAIN r : r[i] = IF i <= Len(p) THEN p[i] ELSE q[i - Len(p)]
      /\ DOMAIN r \subseteq Int /\ DOMAIN q = 1 .. Len(q)
  BY Concatenation
<1> HIDE DEF r
<1>2. ASSUME In(r, s) PROVE In(p, s) \/ In(q, s)
  <2>1. PICK i \in DOMAIN r : r[i] = s
    BY <1>2 DEF In
  <2>2. CASE i \in DOMAIN p
    BY <1>1, <2>1, <2>2 DEF In
  <2>3. CASE i - Len(p) \in DOMAIN q
    BY <1>1, <2>1, <2>3 DEF In
  <2> QED
    BY <1>1, <2>2, <2>3
<1>3. ASSUME In(p, s) PROVE In(r, s)
  BY <1>1, <1>3 DEF In
<1>4. ASSUME In(q, s) PROVE In(r, s)
  BY <1>1, <1>4 DEF In
<1> QED
  BY <1>2, <1>3, <1>4 DEF r

LEMMA EarlierConcatenation ==
    ASSUME NEW p \in Seq(Statements), NEW q \in Seq(Statements), NEW t, NEW S,
           Earlier(p, t, S), Earlier(q, t, S) \/ \E s \in S : In(p, s)
    PROVE  Earlier(p \o q, t, S)
<1> DEFINE r == p \o q
<1>1. /\ DOMAIN p = 1 .. Len(p) /\ Len(p) \in Nat
      /\ \A i \in DOMAIN p : i \in DOMAIN r /\ r[i] = p[i]
      /\ \A i \in DOMAIN q : i + Len(p) \in DOMAIN r /\ r[i + Len(p)] = q[i]
      /\ \A i \in DOMAIN r : i \in DOMAIN p \/ i - Len(p) \in DOMAIN q
      /\ \A i \in DOMAIN r : r[i] = IF i <= Len(p) THEN p[i] ELSE q[i - Len(p)]
      /\ DOMAIN r \subseteq Int /\ DOMAIN q = 1 .. Len(q) /\ Len(q) \in Nat
  BY Concatenation
<1> HIDE DEF r
<1> SUFFICES ASSUME NEW j \in DOMAIN r, r[j] = t PROVE \E i \in 1 .. j - 1 : r[i] \in S
  BY DEF Earlier, r
<1>2. CASE j \in DOMAIN p
  <2>1. PICK i \in 1 .. j - 1 : p[i] \in S
    BY <1>1, <1>2 DEF Earlier
  <2>2. i \in DOMAIN p
    BY <1>1, <1>2
  <2> QED
    BY <1>1, <2>1, <2>2
<1>3. CASE j \notin DOMAIN p
  <2>1. j - Len(p) \in DOMAIN q /\ q[j - Len(p)] = t /\ j > Len(p) /\ j \in Int
    BY <1>1, <1>3
  <2>2. CASE Earlier(q, t, S)
    <3>1. PICK i \in 1 .. (j - Len(p)) - 1 : q[i] \in S
      BY <2>1, <2>2 DEF Earlier
    <3>2. i \in DOMAIN q /\ i + Len(p) \in 1 .. j - 1
      BY <1>1, <2>1, <3>1
    <3> QED
      BY <1>1, <3>1, <3>2
  <2>3. CASE \E s \in S : In(p, s)
    <3>1. PICK i \in DOMAIN p : p[i] \in S
      BY <2>3 DEF In
    <3>2. i \in 1 .. j - 1
      BY <1>1, <2>1, <3>1
    <3> QED
      BY <1>1, <3>1, <3>2
  <2> QED
    BY <2>2, <2>3
<1> QED
  BY <1>2, <1>3

LEMMA OrderlyConcatenation ==
    ASSUME NEW p, Orderly(p), NEW q, Orderly(q),
           \A s, t : In(p, s) /\ In(q, t) => ~OutOfOrder(s, t)
    PROVE  Orderly(p \o q)
<1> DEFINE r == p \o q
           Follows(f) == \A i \in DOMAIN f :
              /\ f[i][1] = "create" => i + 1 \in DOMAIN f /\ f[i + 1] = <<"await", f[i][2]>>
              /\ f[i][1] = "open" => i + 1 \in DOMAIN f /\ f[i + 1] = <<"awaitWriter", f[i][2]>>
              /\ f[i] # <<"pause", "synthesizer">>
           Sorted(f) == \A i, j \in DOMAIN f : i < j => ~OutOfOrder(f[i], f[j])
<1>0. p \in Seq(Statements) /\ q \in Seq(Statements) /\ Follows(p) /\ Follows(q)
      /\ Sorted(p) /\ Sorted(q)
  BY DEF Orderly
<1>1. /\ r \in Seq(Statements)
      /\ DOMAIN p = 1 .. Len(p) /\ Len(p) \in Nat
      /\ \A i \in DOMAIN p : i \in DOMAIN r /\ r[i] = p[i]
      /\ \A i \in DOMAIN q : i + Len(p) \in DOMAIN r /\ r[i + Len(p)] = q[i]
      /\ \A i \in DOMAIN r : i \in DOMAIN p \/ i - Len(p) \in DOMAIN q
      /\ \A i \in DOMAIN r : r[i] = IF i <= Len(p) THEN p[i] ELSE q[i - Len(p)]
      /\ DOMAIN r \subseteq Int /\ DOMAIN q = 1 .. Len(q) /\ Len(q) \in Nat
  BY <1>0, Concatenation
<1> HIDE DEF r
<1>2. Sorted(r)
  <2> SUFFICES ASSUME NEW i \in DOMAIN r, NEW j \in DOMAIN r, i < j
               PROVE  ~OutOfOrder(r[i], r[j])
    OBVIOUS
  <2>1. CASE i \in DOMAIN p /\ j \in DOMAIN p
    BY <1>0, <1>1, <2>1
  <2>2. CASE i \in DOMAIN p /\ j \notin DOMAIN p
    <3>1. j - Len(p) \in DOMAIN q /\ r[j] = q[j - Len(p)] /\ r[i] = p[i]
      BY <1>1, <2>2
    <3>2. In(p, r[i]) /\ In(q, r[j])
      BY <2>2, <3>1 DEF In
    <3> QED
      BY <3>2
  <2>3. CASE i \notin DOMAIN p
    <3>1. /\ i - Len(p) \in DOMAIN q /\ r[i] = q[i - Len(p)]
          /\ j - Len(p) \in DOMAIN q /\ r[j] = q[j - Len(p)]
          /\ i - Len(p) < j - Len(p)
      BY <1>1, <2>3
    <3> QED
      BY <1>0, <3>1
  <2> QED
    BY <2>1, <2>2, <2>3
<1>3. Follows(r)
  <2> SUFFICES ASSUME NEW i \in DOMAIN r
               PROVE  /\ r[i][1] = "create" => i + 1 \in DOMAIN r /\ r[i + 1] = <<"await", r[i][2]>>
                      /\ r[i][1] = "open" => i + 1 \in DOMAIN r /\ r[i + 1] = <<"awaitWriter", r[i][2]>>
                      /\ r[i] # <<"pause", "synthesizer">>
    OBVIOUS
  <2>1. CASE i \in DOMAIN p
    <3>1. r[i] = p[i] /\ (i + 1 \in DOMAIN p => i + 1 \in DOMAIN r /\ r[i + 1] = p[i + 1])
      BY <1>1, <2>1
    <3> QED
      BY <1>0, <2>1, <3>1
  <2>2. CASE i \notin DOMAIN p
    <3> DEFINE k == i - Len(p)
    <3>1. /\ k \in DOMAIN q /\ r[i] = q[k]
          /\ k + 1 \in DOMAIN q => i + 1 \in DOMAIN r /\ r[i + 1] = q[k + 1]
      <4>1. k \in DOMAIN q /\ r[i] = q[k] /\ (k + 1) + Len(p) = i + 1
        BY <1>1, <2>2
      <4> QED
        BY <1>1, <4>1
    <3> HIDE DEF k
    <3> QED
      BY <1>0, <3>1
  <2> QED
    BY <2>1, <2>2
<1> QED
  BY <1>1, <1>2, <1>3 DEF Orderly, r

LEMMA PreparedConcatenation ==
    ASSUME NEW p \in Seq(Statements), Prepared(p), NEW q \in Seq(Statements), Prepared(q)
    PROVE  Prepared(p \o q)
  BY EarlierConcatenation DEF Prepared

LEMMA StartsThenStarts ==
    ASSUME NEW p, Starts(p), NEW q, Starts(q)
    PROVE  Starts(p \o q)
<1>1. Orderly(p) /\ Prepared(p) /\ Orderly(q) /\ Prepared(q)
      /\ p \in Seq(Statements) /\ q \in Seq(Statements)
  BY DEF Starts, Orderly
<1>2. \A s, t : In(p, s) /\ In(q, t) => ~OutOfOrder(s, t)
  BY DEF Starts, OutOfOrder
<1>3. \A s : In(p \o q, s) <=> In(p, s) \/ In(q, s)
  BY <1>1, InConcatenation
<1>4. Orderly(p \o q) /\ Prepared(p \o q)
  BY <1>1, <1>2, OrderlyConcatenation, PreparedConcatenation
<1> QED
  BY <1>3, <1>4 DEF Starts

LEMMA StartsThenEnds ==
    ASSUME NEW p, Starts(p), NEW C, NEW q, Ends(q, C)
    PROVE  Orderly(p \o q) /\ Prepared(p \o q)
<1>1. Orderly(p) /\ Prepared(p) /\ Orderly(q) /\ Prepared(q)
      /\ p \in Seq(Statements) /\ q \in Seq(Statements)
  BY DEF Starts, Ends, Orderly
<1>2. \A s, t : In(p, s) /\ In(q, t) => ~OutOfOrder(s, t)
  BY DEF Starts, OutOfOrder
<1> QED
  BY <1>1, <1>2, OrderlyConcatenation, PreparedConcatenation

LEMMA EndsThenEnds ==
    ASSUME NEW p, NEW C, Ends(p, C), NEW q, NEW D, Ends(q, D), C \cap D = {}
    PROVE  Ends(p \o q, C \cup D)
<1>1. Orderly(p) /\ Prepared(p) /\ Orderly(q) /\ Prepared(q)
      /\ p \in Seq(Statements) /\ q \in Seq(Statements)
  BY DEF Ends, Orderly
<1>2. \A s, t : In(p, s) /\ In(q, t) => ~OutOfOrder(s, t)
  BY DEF Ends, OutOfOrder
<1>3. \A s : In(p \o q, s) <=> In(p, s) \/ In(q, s)
  BY <1>1, InConcatenation
<1>4. Orderly(p \o q) /\ Prepared(p \o q)
  BY <1>1, <1>2, OrderlyConcatenation, PreparedConcatenation
<1> QED
  BY <1>3, <1>4 DEF Ends

----------------------------------------------------------------------------
\* A sequence in which nothing needs what came before.
LEMMA Undemanding ==
    ASSUME NEW q, \A s : In(q, s) => s[1] \notin {"pause", "free", "awaitQueue"}
    PROVE  Prepared(q)
<1>1. \A call, c, S : call \in {"pause", "free", "awaitQueue"} => Earlier(q, <<call, c>>, S)
  BY DEF Earlier, In
<1> QED
  BY <1>1 DEF Prepared

LEMMA NewLoggerStarts ==
    ASSUME NEW c \in Components
    PROVE  Starts(NewLogger(c))
<1> DEFINE q == << <<"open", c>>, <<"awaitWriter", c>> >>
<1>1. Starts(q)
  <2>1. q \in Seq(Statements) /\ DOMAIN q = 1 .. 2
        /\ q[1] = <<"open", c>> /\ q[2] = <<"awaitWriter", c>>
    BY DEF Statements, Calls
  <2> HIDE DEF q
  <2>2. Orderly(q)
    BY <2>1 DEF Orderly, OutOfOrder
  <2>3. \A s : In(q, s) => s[1] \in {"open", "awaitWriter"}
    BY <2>1 DEF In
  <2>4. Prepared(q)
    BY <2>3, Undemanding
  <2> QED
    BY <2>2, <2>3, <2>4 DEF Starts
<1>2. Starts(<<>>)
  <2>1. <<>> \in Seq(Statements) /\ DOMAIN <<>> = {}
    OBVIOUS
  <2>2. \A s : ~In(<<>>, s)
    BY <2>1 DEF In
  <2>3. Orderly(<<>>)
    BY <2>1 DEF Orderly
  <2> QED
    BY <2>2, <2>3, Undemanding DEF Starts
<1> QED
  BY <1>1, <1>2 DEF NewLogger

LEMMA ThreadStarts ==
    ASSUME NEW c \in Components
    PROVE  Starts(<< <<"run", c>> >> \o CreateAndStartThread(c))
<1> DEFINE q == << <<"run", c>> >> \o CreateAndStartThread(c)
<1>1. q \in Seq(Statements) /\ DOMAIN q = 1 .. 3
      /\ q[1] = <<"run", c>> /\ q[2] = <<"create", c>> /\ q[3] = <<"await", c>>
  BY DEF Statements, Calls, CreateAndStartThread
<1> HIDE DEF q
<1>2. Orderly(q)
  BY <1>1 DEF Orderly, OutOfOrder
<1>3. \A s : In(q, s) => s[1] \in {"run", "create", "await"}
  BY <1>1 DEF In
<1>4. Prepared(q)
  BY <1>3, Undemanding
<1>5. Starts(q)
  BY <1>2, <1>3, <1>4 DEF Starts
<1> QED
  BY <1>5 DEF q

\* A component's logger and its other members are destroyed after its pause.
LEMMA DeleteLoggerIs ==
    ASSUME NEW c \in Components
    PROVE  /\ Orderly(DeleteLogger(c))
           /\ \A s : In(DeleteLogger(c), s) =>
                 s[1] \in {"awaitQueue", "clearRunning", "join", "free"} /\ s[2] = c
           /\ c \in Logged =>
                 /\ Earlier(DeleteLogger(c), <<"free", c>>, {<<"awaitQueue", c>>})
                 /\ Earlier(DeleteLogger(c), <<"free", c>>, {<<"join", c>>})
<1> DEFINE q == DeleteLogger(c)
<1>1. CASE c \in Logged
  <2>1. q \in Seq(Statements) /\ DOMAIN q = 1 .. 4
        /\ q[1] = <<"awaitQueue", c>> /\ q[2] = <<"clearRunning", c>>
        /\ q[3] = <<"join", c>> /\ q[4] = <<"free", c>>
    BY <1>1 DEF Statements, Calls, DeleteLogger
  <2> HIDE DEF q
  <2>2. Orderly(q)
    BY <2>1 DEF Orderly, OutOfOrder
  <2>3. \A s : In(q, s) =>
           s[1] \in {"awaitQueue", "clearRunning", "join", "free"} /\ s[2] = c
    BY <2>1 DEF In
  <2>4. /\ Earlier(q, <<"free", c>>, {<<"awaitQueue", c>>})
        /\ Earlier(q, <<"free", c>>, {<<"join", c>>})
    <3>1. \A j \in DOMAIN q : q[j] = <<"free", c>> => j = 4
      BY <2>1
    <3>2. 1 \in 1 .. 4 - 1 /\ 3 \in 1 .. 4 - 1
      OBVIOUS
    <3> QED
      BY <2>1, <3>1, <3>2 DEF Earlier
  <2> QED
    BY <2>2, <2>3, <2>4 DEF q
<1>2. CASE c \notin Logged
  <2>1. q \in Seq(Statements) /\ DOMAIN q = 1 .. 1 /\ q[1] = <<"free", c>>
    BY <1>2 DEF Statements, Calls, DeleteLogger
  <2> HIDE DEF q
  <2>2. Orderly(q)
    BY <2>1 DEF Orderly, OutOfOrder
  <2>3. \A s : In(q, s) =>
           s[1] \in {"awaitQueue", "clearRunning", "join", "free"} /\ s[2] = c
    BY <2>1 DEF In
  <2> QED
    BY <1>2, <2>2, <2>3 DEF q
<1> QED
  BY <1>1, <1>2

LEMMA ThenDeleteLogger ==
    ASSUME NEW W, NEW C, Ends(W, C), NEW c \in Components, c \in C,
           NEW d \in Components, c \in MeantFor(d), In(W, <<"pause", d>>)
    PROVE  Ends(W \o DeleteLogger(c), C)
<1> DEFINE q == DeleteLogger(c)
<1>1. /\ Orderly(W) /\ Prepared(W) /\ W \in Seq(Statements)
      /\ Orderly(q) /\ q \in Seq(Statements)
      /\ \A s : In(q, s) => s[1] \in {"awaitQueue", "clearRunning", "join", "free"} /\ s[2] = c
      /\ c \in Logged => /\ Earlier(q, <<"free", c>>, {<<"awaitQueue", c>>})
                         /\ Earlier(q, <<"free", c>>, {<<"join", c>>})
  BY DeleteLoggerIs DEF Ends, Orderly
<1> HIDE DEF q
<1>2. \A s, t : In(W, s) /\ In(q, t) => ~OutOfOrder(s, t)
  BY <1>1 DEF OutOfOrder
<1>3. Orderly(W \o q)
  BY <1>1, <1>2, OrderlyConcatenation
<1>4. \A s : In(W \o q, s) <=> In(W, s) \/ In(q, s)
  BY <1>1, InConcatenation
<1>5. \A call, e, S : e # c \/ call = "pause" => Earlier(q, <<call, e>>, S)
  <2>1. \A call, e : e # c \/ call = "pause" => ~In(q, <<call, e>>)
    BY <1>1
  <2> QED
    BY <2>1 DEF Earlier, In
<1>6. \E s \in PausesFor(c) : In(W, s)
  BY DEF PausesFor
<1>7. Prepared(W \o q)
  <2> SUFFICES ASSUME NEW e \in Components
               PROVE  /\ \A x \in MeantFor(e) :
                            Earlier(W \o q, <<"pause", e>>, {<<"stop", x>>})
                      /\ Earlier(W \o q, <<"free", e>>, PausesFor(e))
                      /\ e \in Logged =>
                            /\ Earlier(W \o q, <<"awaitQueue", e>>, PausesFor(e))
                            /\ Earlier(W \o q, <<"free", e>>, {<<"awaitQueue", e>>})
                            /\ Earlier(W \o q, <<"free", e>>, {<<"join", e>>})
    BY DEF Prepared
  <2>1. /\ \A x \in MeantFor(e) : Earlier(W, <<"pause", e>>, {<<"stop", x>>})
        /\ Earlier(W, <<"free", e>>, PausesFor(e))
        /\ e \in Logged => /\ Earlier(W, <<"awaitQueue", e>>, PausesFor(e))
                           /\ Earlier(W, <<"free", e>>, {<<"awaitQueue", e>>})
                           /\ Earlier(W, <<"free", e>>, {<<"join", e>>})
    BY <1>1 DEF Prepared
  <2>2. \A x \in MeantFor(e) : Earlier(W \o q, <<"pause", e>>, {<<"stop", x>>})
    BY <1>1, <1>5, <2>1, EarlierConcatenation
  <2>3. CASE e # c
    BY <1>1, <1>5, <2>1, <2>2, <2>3, EarlierConcatenation
  <2>4. CASE e = c
    BY <1>1, <1>6, <2>1, <2>2, <2>4, EarlierConcatenation
  <2> QED
    BY <2>3, <2>4
<1>8. Ends(W \o q, C)
  BY <1>1, <1>3, <1>4, <1>7 DEF Ends
<1> QED
  BY <1>8 DEF q

\* stop() and the pause of a destructor.
LEMMA StopThenPause ==
    ASSUME NEW c \in Components \ {"publisher", "synthesizer"}
    PROVE  Ends(<< <<"stop", c>>, <<"pause", c>> >>, {c})
<1> DEFINE q == << <<"stop", c>>, <<"pause", c>> >>
<1>1. q \in Seq(Statements) /\ DOMAIN q = 1 .. 2 /\ q[1] = <<"stop", c>> /\ q[2] = <<"pause", c>>
  BY DEF Statements, Calls
<1> HIDE DEF q
<1>2. Orderly(q)
  BY <1>1 DEF Orderly, OutOfOrder
<1>3. \A s : In(q, s) => s[1] \in {"stop", "pause"} /\ s[2] = c
  BY <1>1 DEF In
<1>4. \A call, e, S : call \in {"free", "awaitQueue"} => Earlier(q, <<call, e>>, S)
  BY <1>3 DEF Earlier, In
<1>5. ASSUME NEW e \in Components, NEW x \in MeantFor(e)
      PROVE  Earlier(q, <<"pause", e>>, {<<"stop", x>>})
  <2>1. CASE e = c
    <3>1. x = c
      BY <2>1 DEF MeantFor
    <3> QED
      BY <1>1, <2>1, <3>1 DEF Earlier
  <2>2. CASE e # c
    BY <1>1, <2>2 DEF Earlier
  <2> QED
    BY <2>1, <2>2
<1>6. Prepared(q)
  BY <1>4, <1>5 DEF Prepared
<1> QED
  BY <1>2, <1>3, <1>6 DEF Ends, q

----------------------------------------------------------------------------
LEMMA Tuples ==
    ASSUME NEW a, NEW b, NEW c, NEW d
    PROVE  /\ <<a, b>> \o <<c>> = <<a, b, c>>
           /\ <<a, b, c>> \o <<d>> = <<a, b, c, d>>
<1>1. <<a, b>> \o <<c>> = <<a, b, c>>
  <2> DEFINE l == <<a, b>> \o <<c>>
             X == {a, b, c}
  <2>1. <<a, b>> \in Seq(X) /\ <<c>> \in Seq(X) /\ Len(<<a, b>>) = 2 /\ Len(<<c>>) = 1
    OBVIOUS
  <2>2. l \in Seq(X) /\ Len(l) = 3
    BY <2>1
  <2>3. l[1] = a /\ l[2] = b /\ l[3] = c
    BY <2>1
  <2>4. <<a, b, c>> \in Seq(X) /\ Len(<<a, b, c>>) = 3
    OBVIOUS
  <2>5. \A i \in 1 .. 3 : l[i] = <<a, b, c>>[i]
    BY <2>3
  <2> HIDE DEF l, X
  <2>6. l = <<a, b, c>>
    BY <2>2, <2>4, <2>5
  <2> QED
    BY <2>6 DEF l
<1>2. <<a, b, c>> \o <<d>> = <<a, b, c, d>>
  <2> DEFINE l == <<a, b, c>> \o <<d>>
             X == {a, b, c, d}
  <2>1. <<a, b, c>> \in Seq(X) /\ <<d>> \in Seq(X) /\ Len(<<a, b, c>>) = 3 /\ Len(<<d>>) = 1
    OBVIOUS
  <2>2. l \in Seq(X) /\ Len(l) = 4
    BY <2>1
  <2>3. l[1] = a /\ l[2] = b /\ l[3] = c /\ l[4] = d
    BY <2>1
  <2>4. <<a, b, c, d>> \in Seq(X) /\ Len(<<a, b, c, d>>) = 4
    OBVIOUS
  <2>5. \A i \in 1 .. 4 : l[i] = <<a, b, c, d>>[i]
    BY <2>3
  <2> HIDE DEF l, X
  <2>6. l = <<a, b, c, d>>
    BY <2>2, <2>4, <2>5
  <2> QED
    BY <2>6 DEF l
<1> QED
  BY <1>1, <1>2

LEMMA Associative ==
    ASSUME NEW p \in Seq(Statements), NEW q \in Seq(Statements), NEW r \in Seq(Statements)
    PROVE  (p \o q) \o r = p \o (q \o r) /\ q \o r \in Seq(Statements)
  OBVIOUS

LEMMA OwnComponentEnds ==
    ASSUME NEW c \in Components \ {"publisher", "synthesizer"}
    PROVE  Ends(<< <<"stop", c>>, <<"pause", c>> >> \o DeleteLogger(c), {c})
<1> DEFINE W == << <<"stop", c>>, <<"pause", c>> >>
<1>1. Ends(W, {c}) /\ c \in MeantFor(c)
  BY StopThenPause DEF MeantFor
<1>2. In(W, <<"pause", c>>)
  <2>1. 2 \in DOMAIN W /\ W[2] = <<"pause", c>>
    OBVIOUS
  <2> QED
    BY <2>1 DEF In
<1> HIDE DEF W
<1>3. Ends(W \o DeleteLogger(c), {c})
  BY <1>1, <1>2, ThenDeleteLogger
<1> QED
  BY <1>3 DEF W

LEMMA EngineEnds == Ends(DeleteMatchingEngine, {"engine"})
<1> DEFINE W == << <<"stop", "engine">>, <<"pause", "engine">>, <<"deleteBooks", "engine">> >>
           first == << <<"stop", "engine">>, <<"pause", "engine">> >>
           books == << <<"deleteBooks", "engine">> >>
<1>0. "engine" \in Components \ {"publisher", "synthesizer"} /\ "engine" \in MeantFor("engine")
  BY DEF Components, MeantFor
<1>1. W = first \o books
  BY Tuples, Zenon
<1>2. books \in Seq(Statements) /\ DOMAIN books = 1 .. 1 /\ books[1] = <<"deleteBooks", "engine">>
  BY DEF Statements, Calls, Components
<1>3. In(W, <<"pause", "engine">>)
  <2>1. 2 \in DOMAIN W /\ W[2] = <<"pause", "engine">>
    OBVIOUS
  <2> QED
    BY <2>1 DEF In
<1>4. Ends(first, {"engine"})
  BY <1>0, StopThenPause
<1>a. DeleteMatchingEngine = W \o DeleteLogger("engine")
  BY DEF DeleteMatchingEngine
<1> HIDE DEF W, first, books
<1>5. Orderly(books)
  BY <1>2 DEF Orderly, OutOfOrder
<1>6. \A s : In(books, s) => s = <<"deleteBooks", "engine">>
  BY <1>2 DEF In
<1>7. Prepared(books)
  BY <1>6, Undemanding
<1>8. \A s : In(first, s) => s[1] \in {"stop", "pause"}
  <2>1. DOMAIN first = 1 .. 2 /\ first[1][1] = "stop" /\ first[2][1] = "pause"
    BY DEF first
  <2> QED
    BY <2>1 DEF In
<1>9. \A s, t : In(first, s) /\ In(books, t) => ~OutOfOrder(s, t)
  BY <1>6, <1>8 DEF OutOfOrder
<1>10. Ends(W, {"engine"})
  <2>1. Orderly(first) /\ Prepared(first) /\ first \in Seq(Statements)
    BY <1>4 DEF Ends, Orderly
  <2>2. Orderly(first \o books) /\ Prepared(first \o books)
    BY <1>2, <1>5, <1>7, <1>9, <2>1, OrderlyConcatenation, PreparedConcatenation
  <2>3. \A s : In(first \o books, s) <=> In(first, s) \/ In(books, s)
    BY <1>2, <2>1, InConcatenation
  <2> QED
    BY <1>1, <1>4, <1>6, <2>2, <2>3 DEF Ends
<1> QED
  BY <1>0, <1>3, <1>10, <1>a, ThenDeleteLogger

LEMMA PublisherEnds == Ends(DeleteMarketDataPublisher, {"publisher", "synthesizer"})
<1> DEFINE W == << <<"stop", "publisher">>, <<"stop", "synthesizer">>,
                   <<"pause", "publisher">>, <<"stop", "synthesizer">> >>
           before == << <<"stop", "publisher">>, <<"stop", "synthesizer">>,
                        <<"pause", "publisher">> >>
           again == << <<"stop", "synthesizer">> >>
           C == {"publisher", "synthesizer"}
<1>1. /\ W \in Seq(Statements) /\ DOMAIN W = 1 .. 4
      /\ W[1] = <<"stop", "publisher">> /\ W[2] = <<"stop", "synthesizer">>
      /\ W[3] = <<"pause", "publisher">> /\ W[4] = <<"stop", "synthesizer">>
  BY DEF Statements, Calls, Components
<1>2. DeleteMarketDataPublisher =
         (W \o DeleteLogger("synthesizer")) \o DeleteLogger("publisher")
  <2>2. before \in Seq(Statements) /\ again \in Seq(Statements) /\ before \o again = W
    <3>1. /\ <<"stop", "publisher">> \in Statements /\ <<"stop", "synthesizer">> \in Statements
          /\ <<"pause", "publisher">> \in Statements
      BY DEF Statements, Calls, Components
    <3>2. before \in Seq(Statements) /\ again \in Seq(Statements)
      BY <3>1
    <3>3. before \o again = W
      BY Tuples, Zenon
    <3> QED
      BY <3>2, <3>3
  <2>3. DeleteLogger("synthesizer") \in Seq(Statements)
    <3>1. "synthesizer" \in Components
      BY DEF Components
    <3> QED
      BY <3>1, DeleteLoggerIs DEF Orderly
  <2>4. StopMarketDataPublisher \o << <<"pause", "publisher">> >> = before
    BY Tuples, Zenon DEF StopMarketDataPublisher
  <2>5. DeleteMarketDataPublisher =
           (before \o (again \o DeleteLogger("synthesizer"))) \o DeleteLogger("publisher")
    <3>1. DeleteSnapshotSynthesizer = again \o DeleteLogger("synthesizer")
      BY DEF DeleteSnapshotSynthesizer
    <3> HIDE DEF before, again
    <3> QED
      BY <2>4, <3>1, Zenon DEF DeleteMarketDataPublisher
  <2> HIDE DEF before, again, W
  <2> QED
    BY <2>2, <2>3, <2>5, Associative, Zenon
<1> HIDE DEF W
<1>3. Orderly(W)
  BY <1>1 DEF Orderly, OutOfOrder
<1>4. \A s : In(W, s) => s[1] \in {"stop", "pause"} /\ s[2] \in C
  BY <1>1 DEF In
<1>5. \A call, e, S : call \in {"free", "awaitQueue"} => Earlier(W, <<call, e>>, S)
  BY <1>4 DEF Earlier, In
<1>6. ASSUME NEW e \in Components, NEW x \in MeantFor(e)
      PROVE  Earlier(W, <<"pause", e>>, {<<"stop", x>>})
  <2>1. CASE e = "publisher"
    <3>1. x \in C /\ \A j \in DOMAIN W : W[j] = <<"pause", e>> => j = 3
      BY <1>1, <2>1 DEF MeantFor
    <3>2. 1 \in 1 .. 3 - 1 /\ 2 \in 1 .. 3 - 1
      OBVIOUS
    <3> QED
      BY <1>1, <3>1, <3>2 DEF Earlier
  <2>2. CASE e # "publisher"
    BY <1>1, <2>2 DEF Earlier
  <2> QED
    BY <2>1, <2>2
<1>7. Prepared(W)
  BY <1>5, <1>6 DEF Prepared
<1>8. Ends(W, C)
  BY <1>3, <1>4, <1>7 DEF Ends
<1>9. In(W, <<"pause", "publisher">>)
  BY <1>1 DEF In
<1>10. "publisher" \in Components /\ "synthesizer" \in Components /\ MeantFor("publisher") = C
  BY DEF Components, MeantFor
<1>11. Ends(W \o DeleteLogger("synthesizer"), C)
  BY <1>8, <1>9, <1>10, ThenDeleteLogger
<1>12. In(W \o DeleteLogger("synthesizer"), <<"pause", "publisher">>)
  <2>1. DeleteLogger("synthesizer") \in Seq(Statements)
    BY <1>10, DeleteLoggerIs DEF Orderly
  <2> QED
    BY <1>1, <1>9, <2>1, InConcatenation
<1>13. Ends((W \o DeleteLogger("synthesizer")) \o DeleteLogger("publisher"), C)
  BY <1>10, <1>11, <1>12, ThenDeleteLogger
<1> QED
  BY <1>2, <1>13

\* The exchange: its server is destroyed before the engine whose answers it
\* sends, and the engine before the publisher of its updates.
LEMMA ExchangeIsOrderly == Orderly(Exchange) /\ Prepared(Exchange)
<1> DEFINE S0 == NewOrderServer
           S1 == S0 \o NewMatchingEngine
           S2 == S1 \o (NewLogger("publisher") \o NewLogger("synthesizer"))
           S3 == S2 \o ((<< <<"run", "publisher">> >> \o CreateAndStartThread("publisher"))
                           \o (<< <<"run", "synthesizer">> >> \o CreateAndStartThread("synthesizer")))
           S4 == S3 \o (<< <<"run", "engine">> >> \o CreateAndStartThread("engine"))
           S5 == S4 \o (<< <<"run", "server">> >> \o CreateAndStartThread("server"))
           E1 == DeleteOrderServer \o DeleteMatchingEngine
           E2 == E1 \o DeleteMarketDataPublisher
<1>c. "server" \in Components /\ "engine" \in Components /\ "publisher" \in Components
      /\ "synthesizer" \in Components /\ "server" \in Components \ {"publisher", "synthesizer"}
  BY DEF Components
<1>1. Starts(S5)
  <2>0. Starts(S0)
    BY <1>c, NewLoggerStarts DEF NewOrderServer
  <2>1. Starts(S1)
    <3>1. Starts(NewMatchingEngine)
      BY <1>c, NewLoggerStarts DEF NewMatchingEngine
    <3> HIDE DEF S0
    <3> QED
      BY <2>0, <3>1, StartsThenStarts
  <2>2. Starts(S2)
    <3>1. Starts(NewLogger("publisher") \o NewLogger("synthesizer"))
      BY <1>c, NewLoggerStarts, StartsThenStarts
    <3> HIDE DEF S1
    <3> QED
      BY <2>1, <3>1, StartsThenStarts
  <2>3. Starts(S3)
    <3>1. /\ Starts(<< <<"run", "publisher">> >> \o CreateAndStartThread("publisher"))
          /\ Starts(<< <<"run", "synthesizer">> >> \o CreateAndStartThread("synthesizer"))
      BY <1>c, ThreadStarts
    <3>2. Starts((<< <<"run", "publisher">> >> \o CreateAndStartThread("publisher"))
                  \o (<< <<"run", "synthesizer">> >> \o CreateAndStartThread("synthesizer")))
      BY <3>1, StartsThenStarts
    <3> HIDE DEF S2
    <3> QED
      BY <2>2, <3>2, StartsThenStarts
  <2>4. Starts(S4)
    <3>1. Starts(<< <<"run", "engine">> >> \o CreateAndStartThread("engine"))
      BY <1>c, ThreadStarts
    <3> HIDE DEF S3
    <3> QED
      BY <2>3, <3>1, StartsThenStarts
  <2>5. Starts(<< <<"run", "server">> >> \o CreateAndStartThread("server"))
    BY <1>c, ThreadStarts
  <2> HIDE DEF S4
  <2> QED
    BY <2>4, <2>5, StartsThenStarts
<1>2. \E C : Ends(E2, C)
  <2>1. Ends(DeleteOrderServer, {"server"})
    BY <1>c, OwnComponentEnds DEF DeleteOrderServer
  <2>2. Ends(E1, {"server"} \cup {"engine"})
    <3>1. {"server"} \cap {"engine"} = {}
      OBVIOUS
    <3> QED
      BY <2>1, <3>1, EngineEnds, EndsThenEnds
  <2>3. ({"server"} \cup {"engine"}) \cap {"publisher", "synthesizer"} = {}
    OBVIOUS
  <2> HIDE DEF E1
  <2>4. Ends(E2, ({"server"} \cup {"engine"}) \cup {"publisher", "synthesizer"})
    BY <2>2, <2>3, PublisherEnds, EndsThenEnds
  <2> QED
    BY <2>4
<1>3. Exchange = S5 \o E2
  <2>1. DeleteOrderServer \in Seq(Statements) /\ DeleteMatchingEngine \in Seq(Statements)
        /\ DeleteMarketDataPublisher \in Seq(Statements)
    BY <1>c, OwnComponentEnds, EngineEnds, PublisherEnds DEF Ends, Orderly, DeleteOrderServer
  <2>2. S5 \in Seq(Statements)
    <3> HIDE DEF S5
    <3> QED
      BY <1>1 DEF Starts, Orderly
  <2>4. Exchange = ((S5 \o DeleteOrderServer) \o DeleteMatchingEngine) \o DeleteMarketDataPublisher
    <3>1. StartMarketDataPublisher =
            (<< <<"run", "publisher">> >> \o CreateAndStartThread("publisher"))
                \o (<< <<"run", "synthesizer">> >> \o CreateAndStartThread("synthesizer"))
      BY DEF StartMarketDataPublisher, StartSnapshotSynthesizer
    <3>2. NewMarketDataPublisher = NewLogger("publisher") \o NewLogger("synthesizer")
          /\ StartMatchingEngine = << <<"run", "engine">> >> \o CreateAndStartThread("engine")
          /\ StartOrderServer = << <<"run", "server">> >> \o CreateAndStartThread("server")
      BY DEF NewMarketDataPublisher, StartMatchingEngine, StartOrderServer
    <3> QED
      BY <3>1, <3>2, Zenon DEF Exchange
  <2> HIDE DEF S5
  <2>5. /\ (S5 \o DeleteOrderServer) \o DeleteMatchingEngine
              = S5 \o (DeleteOrderServer \o DeleteMatchingEngine)
        /\ DeleteOrderServer \o DeleteMatchingEngine \in Seq(Statements)
    BY <2>1, <2>2, Associative
  <2>6. (S5 \o (DeleteOrderServer \o DeleteMatchingEngine)) \o DeleteMarketDataPublisher
           = S5 \o ((DeleteOrderServer \o DeleteMatchingEngine) \o DeleteMarketDataPublisher)
    BY <2>1, <2>2, <2>5, Associative
  <2> QED
    BY <2>4, <2>5, <2>6, Zenon
<1> HIDE DEF S5, E2
<1> QED
  BY <1>1, <1>2, <1>3, StartsThenEnds

LEMMA ClientIsOrderly == Orderly(Client) /\ Prepared(Client)
<1> DEFINE S0 == NewOrderGateway
           S1 == S0 \o NewMarketDataConsumer
           S2 == S1 \o (<< <<"run", "consumer">> >> \o CreateAndStartThread("consumer"))
           S3 == S2 \o (<< <<"run", "gateway">> >> \o CreateAndStartThread("gateway"))
           E1 == DeleteOrderGateway \o DeleteMarketDataConsumer
<1>c. "gateway" \in Components /\ "consumer" \in Components
      /\ "gateway" \in Components \ {"publisher", "synthesizer"}
      /\ "consumer" \in Components \ {"publisher", "synthesizer"}
  BY DEF Components
<1>1. Starts(S3)
  <2>0. Starts(S0) /\ Starts(NewMarketDataConsumer)
    BY <1>c, NewLoggerStarts DEF NewOrderGateway, NewMarketDataConsumer
  <2>1. Starts(S1)
    <3> HIDE DEF S0
    <3> QED
      BY <2>0, StartsThenStarts
  <2>2. Starts(S2)
    <3>1. Starts(<< <<"run", "consumer">> >> \o CreateAndStartThread("consumer"))
      BY <1>c, ThreadStarts
    <3> HIDE DEF S1
    <3> QED
      BY <2>1, <3>1, StartsThenStarts
  <2>3. Starts(<< <<"run", "gateway">> >> \o CreateAndStartThread("gateway"))
    BY <1>c, ThreadStarts
  <2> HIDE DEF S2
  <2> QED
    BY <2>2, <2>3, StartsThenStarts
<1>2. Ends(DeleteOrderGateway, {"gateway"}) /\ Ends(DeleteMarketDataConsumer, {"consumer"})
  BY <1>c, OwnComponentEnds DEF DeleteOrderGateway, DeleteMarketDataConsumer
<1>3. \E C : Ends(E1, C)
  <2>1. {"gateway"} \cap {"consumer"} = {}
    OBVIOUS
  <2> QED
    BY <1>2, <2>1, EndsThenEnds
<1>4. Client = S3 \o E1
  <2>1. DeleteOrderGateway \in Seq(Statements) /\ DeleteMarketDataConsumer \in Seq(Statements)
    BY <1>2 DEF Ends, Orderly
  <2>2. S3 \in Seq(Statements)
    <3> HIDE DEF S3
    <3> QED
      BY <1>1 DEF Starts, Orderly
  <2>4. Client = (S3 \o DeleteOrderGateway) \o DeleteMarketDataConsumer
    BY Zenon DEF Client, StartMarketDataConsumer, StartOrderGateway
  <2> HIDE DEF S3
  <2> QED
    BY <2>1, <2>2, <2>4, Associative, Zenon
<1> HIDE DEF S3, E1
<1> QED
  BY <1>1, <1>3, <1>4, StartsThenEnds

----------------------------------------------------------------------------
(* The invariant, and what follows from it.                                *)

LifecycleInvariant ==
    /\ Sound
    /\ TurnsCount
    /\ AllOwed
    /\ AllBuried
    /\ AllWaiting
    /\ LogsKept

\* What the theorems take the deployment to be: the two programs, lines whose
\* characters are not the one that FATAL is modelled by, and the pauses above.
Deployed == Programs \subseteq {Exchange, Client} /\ LinesAreRight /\ PausesSuffice

LEMMA InvariantInit ==
    ASSUME Deployed, Init
    PROVE  LifecycleInvariant
<1> USE LifecycleAssumption
<1>1. Orderly(todo) /\ Prepared(todo) /\ LinesAreRight
  BY ExchangeIsOrderly, ClientIsOrderly DEF Deployed, Init
<1>2. ThreadTypes
  BY DEF Init, ThreadTypes
<1>3. LoggerTypes
  <2>1. <<>> \in Seq(LineSet) /\ <<>> \in Seq(Elements)
    OBVIOUS
  <2> QED
    BY <2>1 DEF Init, L!Init, LoggerTypes
<1>4. Counts
  BY DEF Init, Counts, Updates, Components
<1>5. TurnsCount
  <2> SUFFICES ASSUME NEW d \in Components
               PROVE  IF SleepsFor(d)
                        THEN TurnsLeft(thread[d], Pending(d)) + turns[d]
                                <= PauseTurns[Head(todo)[2]]
                        ELSE turns[d] = 0
    BY DEF TurnsCount
  <2>1. turns[d] = 0 /\ TurnsLeft(thread[d], Pending(d)) = 0
    BY DEF Init, TurnsLeft
  <2>2. SleepsFor(d) => PauseTurns[Head(todo)[2]] \in Nat
    BY <1>1, PausesAre DEF SleepsFor
  <2> QED
    BY <2>1, <2>2
<1>6. AllOwed
  BY <1>1 DEF AllOwed, Owed, Prepared
<1>7. AllBuried
  BY DEF Init, AllBuried, Buried
<1>8. AllWaiting
  BY DEF Init, L!Init, AllWaiting, Waiting
<1>9. LogsKept
  <2>1. \A c \in Logged : lines[c] = <<>> /\ AllMatch(lines[c])
    BY DEF Init, AllMatch
  <2>2. \A c \in Logged : file_[c] \o queue_[c] = Written(lines[c])
    BY <2>1, NothingWritten DEF Init, L!Init
  <2> QED
    BY <2>1, <2>2 DEF Init, LogsKept, LinesKept
<1> QED
  BY <1>1, <1>2, <1>3, <1>4, <1>5, <1>6, <1>7, <1>8, <1>9 DEF LifecycleInvariant, Sound

LEMMA InvariantNext ==
    ASSUME Deployed, LifecycleInvariant, [Next]_vars
    PROVE  LifecycleInvariant'
<1>1. Sound /\ TurnsCount /\ AllOwed /\ AllBuried /\ AllWaiting /\ LogsKept
  BY DEF LifecycleInvariant
<1>2. Sound'
  <2>1. Orderly(todo') /\ LoggerTypes' /\ ThreadTypes'
    BY <1>1, TodoInductive, LoggersInductive, ThreadsInductive DEF Sound
  <2>2. Counts' /\ LinesAreRight'
    BY <1>1, <2>1, CountsInductive DEF Sound, LinesAreRight, LineSet
  <2> QED
    BY <2>1, <2>2 DEF Sound
<1>3. TurnsCount'
  BY <1>1, <1>2, TurnsInductive DEF Deployed
<1>4. AllOwed' /\ AllBuried' /\ AllWaiting'
  BY <1>1, OwedInductive, BuriedInductive, WaitingInductive DEF AllOwed, AllBuried, AllWaiting
<1>5. LogsKept'
  BY <1>1, LogsInductive
<1> QED
  BY <1>2, <1>3, <1>4, <1>5 DEF LifecycleInvariant

LEMMA InvariantAlways ==
    ASSUME Deployed
    PROVE  Spec => []LifecycleInvariant
<1>1. Init => LifecycleInvariant
  BY InvariantInit
<1>2. LifecycleInvariant /\ [Next]_vars => LifecycleInvariant'
  BY InvariantNext
<1> QED
  BY <1>1, <1>2, PTL DEF Spec

LEMMA TypesFollow ==
    ASSUME LifecycleInvariant
    PROVE  TypeOK
<1>1. Orderly(todo) /\ ThreadTypes /\ LoggerTypes /\ Counts
  BY DEF LifecycleInvariant, Sound
<1>2. inbox \in [Components -> 0 .. MaxRequests * (MaxUpdates + 1)]
  BY <1>1, InboxBound
<1>3. ASSUME NEW c \in Components
      PROVE  turns[c] <= PauseTurns[IF c = "synthesizer" THEN "publisher" ELSE c]
  <2>1. CASE SleepsFor(c)
    <3> DEFINE e == Head(todo)[2]
    <3>1. c \in MeantFor(e) /\ e \in Components /\ e # "synthesizer"
      BY <1>1, <2>1, PausesAre DEF SleepsFor
    <3>2. e = IF c = "synthesizer" THEN "publisher" ELSE c
      BY <3>1 DEF MeantFor
    <3>3. TurnsLeft(thread[c], Pending(c)) + turns[c] <= PauseTurns[e]
      BY <2>1 DEF LifecycleInvariant, TurnsCount
    <3>4. TurnsLeft(thread[c], Pending(c)) \in Nat /\ turns[c] \in Nat /\ PauseTurns[e] \in Nat
      BY <1>1, <3>1, PendingNat, LifecycleAssumption DEF TurnsLeft, ThreadTypes
    <3> HIDE DEF e
    <3>5. turns[c] <= PauseTurns[e]
      BY <3>3, <3>4
    <3> QED
      BY <3>2, <3>5
  <2>2. CASE ~SleepsFor(c)
    <3>1. turns[c] = 0
      BY <2>2 DEF LifecycleInvariant, TurnsCount
    <3>2. PauseTurns[IF c = "synthesizer" THEN "publisher" ELSE c] \in Nat
      BY LifecycleAssumption DEF Components
    <3> QED
      BY <3>1, <3>2
  <2> QED
    BY <2>1, <2>2
<1> QED
  BY <1>1, <1>2, <1>3 DEF TypeOK, ThreadTypes, LoggerTypes

LEMMA NothingDanglesFollows ==
    ASSUME LifecycleInvariant
    PROVE  NothingDangles
<1> SUFFICES ASSUME NEW c \in Components
             PROVE  /\ object[c] \in {"dying", "gone"} => Ended(c)
                    /\ thread[c] = "created" => Head(todo) = <<"await", c>>
                    /\ c \in Logged =>
                          /\ object[c] = "gone" => writer[c] = "ended"
                          /\ writer[c] = "created" => Head(todo) = <<"awaitWriter", c>>
  BY DEF NothingDangles
<1>1. Buried(c) /\ Waiting(c) /\ c \in MeantFor(c)
  BY MeantForComponents DEF LifecycleInvariant, AllBuried, AllWaiting
<1> QED
  BY <1>1 DEF Buried, Waiting, Done, Joined

LEMMA LoggedIsWrittenFollows ==
    ASSUME LifecycleInvariant
    PROVE  LoggedIsWritten
<1>1. LogsKept /\ LoggerTypes
  BY DEF LifecycleInvariant, Sound
<1>2. ASSUME NEW c \in Logged, object[c] = "gone" PROVE file_[c] = Written(lines[c])
  <2>1. queue_[c] = <<>>
    BY <1>2, LifecycleAssumption DEF LifecycleInvariant, AllBuried, Buried, Closed
  <2>2. file_[c] \o queue_[c] = Written(lines[c])
    BY <1>1, <1>2 DEF LogsKept, LinesKept
  <2>3. file_[c] \in Seq(Elements)
    BY <1>1 DEF LoggerTypes
  <2>4. \A f \in Seq(Elements) : f \o <<>> = f
    OBVIOUS
  <2> QED
    BY <2>1, <2>2, <2>3, <2>4
<1>3. process = "fatal" <=> \E c \in Logged : \E i \in DOMAIN lines[c] : ~Matching(lines[c][i])
  BY <1>1 DEF LogsKept, AllMatch
<1> QED
  BY <1>2, <1>3 DEF LoggedIsWritten, Written, Rendered, Matching

\* The types; no queue outgrows what the requests can cause, and no pause counts
\* more turns than it is for.
THEOREM LifecycleTypes ==
    ASSUME Deployed
    PROVE  Spec => []TypeOK
<1>1. LifecycleInvariant => TypeOK
  BY TypesFollow
<1> QED
  BY <1>1, InvariantAlways, PTL

\* No thread outlives the component or the logger it uses, and none begins after
\* createAndStartThread has returned, whatever is in its queue when it is told to
\* stop.
THEOREM NoThreadIsLeftDangling ==
    ASSUME Deployed
    PROVE  Spec => []NothingDangles
<1>1. LifecycleInvariant => NothingDangles
  BY NothingDanglesFollows
<1> QED
  BY <1>1, InvariantAlways, PTL

\* The file of a logger that has been destroyed holds every line, in order and as
\* its format and arguments say; and log() ends the process for a line with more
\* or fewer places than arguments, and for no other.
THEOREM EveryLineIsWritten ==
    ASSUME Deployed
    PROVE  Spec => []LoggedIsWritten
<1>1. LifecycleInvariant => LoggedIsWritten
  BY LoggedIsWrittenFollows
<1> QED
  BY <1>1, InvariantAlways, PTL
=============================================================================
