------------------------- MODULE OrderSessionProofs -------------------------
(***************************************************************************)
(* Requests and responses keep their order between any number of clients   *)
(* and the exchange, whatever the sockets drop, and only a connection on   *)
(* which a message has been cut short passes on anything made up of two.   *)
(***************************************************************************)
EXTENDS OrderSession, RecursionProofs

(* The streams.                                                             *)

Part(m, i) == Server!TCP!Part(m, i)
Parts(m) == Server!TCP!Parts(m)
Wire(messages) == Server!TCP!Wire(messages)
Takes(bytes, isOpen) == Server!TCP!Takes(bytes, isOpen)
Flushed(stream, bytes, n) == Server!TCP!Flushed(stream, bytes, n)
Tears(bytes, n) == Server!TCP!Tears(bytes, n)
HasRecord(stream) == Server!TCP!HasRecord(stream)
Readable(stream) == Server!TCP!Readable(stream)
Record(stream) == Server!TCP!Record(stream)
Rest(stream) == Server!TCP!Rest(stream)
Intact(record) == Server!TCP!Intact(record)
SeqNums(record, expected) == Server!TCP!SeqNums(record, expected)
ClientIds(record) == Server!TCP!ClientIds(record)

\* Both sides use the same.
LEMMA SameSending ==
    ASSUME NEW messages, NEW bytes, NEW isOpen, NEW stream, NEW n
    PROVE  /\ Gateway!TCP!Wire(messages) = Wire(messages)
           /\ Gateway!TCP!Takes(bytes, isOpen) = Takes(bytes, isOpen)
           /\ Gateway!TCP!Flushed(stream, bytes, n) = Flushed(stream, bytes, n)
           /\ Gateway!TCP!Tears(bytes, n) = Tears(bytes, n)
BY DEF Wire, Server!TCP!Wire, Gateway!TCP!Wire, Server!TCP!Parts, Gateway!TCP!Parts,
       Server!TCP!Part, Gateway!TCP!Part, Takes, Server!TCP!Takes, Gateway!TCP!Takes,
       Flushed, Server!TCP!Flushed, Gateway!TCP!Flushed,
       Tears, Server!TCP!Tears, Gateway!TCP!Tears

LEMMA SameReading ==
    ASSUME NEW stream, NEW record, NEW expected
    PROVE  /\ Gateway!TCP!HasRecord(stream) = HasRecord(stream)
           /\ Gateway!TCP!Readable(stream) = Readable(stream)
           /\ Gateway!TCP!Record(stream) = Record(stream)
           /\ Gateway!TCP!Rest(stream) = Rest(stream)
           /\ Gateway!TCP!Intact(record) = Intact(record)
           /\ Gateway!TCP!SeqNums(record, expected) = SeqNums(record, expected)
           /\ Gateway!TCP!ClientIds(record) = ClientIds(record)
BY DEF HasRecord, Server!TCP!HasRecord, Gateway!TCP!HasRecord,
       Readable, Server!TCP!Readable, Gateway!TCP!Readable,
       Record, Server!TCP!Record, Gateway!TCP!Record, Rest, Server!TCP!Rest, Gateway!TCP!Rest,
       Intact, Server!TCP!Intact, Gateway!TCP!Intact, Server!TCP!Whole, Gateway!TCP!Whole,
       Server!TCP!Part, Gateway!TCP!Part, SeqNums, Server!TCP!SeqNums, Gateway!TCP!SeqNums,
       ClientIds, Server!TCP!ClientIds, Gateway!TCP!ClientIds

\* The parts of messages of M.
PartsOf(M) == [of : M, at : 1 .. Size]

\* s is made of whole messages: it begins with the first part of one, ends with
\* the last of one, and each part is followed by the next.
InFrame(s) ==
    s # <<>> =>
        /\ s[1].at = 1
        /\ s[Len(s)].at = Size
        /\ \A i \in 1 .. Len(s) - 1 :
              IF s[i].at = Size THEN s[i + 1].at = 1
              ELSE s[i + 1].of = s[i].of /\ s[i + 1].at = s[i].at + 1

\* The parts in a stream, in which no message is cut short unless it is torn.
Stream(s, M, whole) == s \in Seq(PartsOf(M)) /\ (whole => InFrame(s))

LEMMA SizeType == Size \in Nat /\ Size >= 1
BY OrderSessionAssumption

LEMMA StreamEmpty == ASSUME NEW M, NEW whole PROVE Stream(<<>>, M, whole)
BY DEF Stream, InFrame

LEMMA StreamStays ==
    ASSUME NEW s, NEW M, NEW whole, NEW still, Stream(s, M, whole), still => whole
    PROVE  Stream(s, M, still)
BY DEF Stream

LEMMA PartsIs ==
    ASSUME NEW M, NEW m \in M
    PROVE  /\ Parts(m) \in Seq(PartsOf(M)) /\ Len(Parts(m)) = Size /\ InFrame(Parts(m))
<1>1. PICK s : s = Parts(m)
  OBVIOUS
<1>2. s = [i \in 1 .. Size |-> [of |-> m, at |-> i]]
  BY <1>1 DEF Parts, Server!TCP!Parts, Server!TCP!Part
<1>3. s \in Seq(PartsOf(M)) /\ Len(s) = Size
  BY <1>2, SizeType DEF PartsOf
<1>4. \A i \in 1 .. Size : s[i].of = m /\ s[i].at = i
  BY <1>2
<1>5. InFrame(s)
  <2>1. s[1].at = 1 /\ s[Len(s)].at = Size
    BY <1>3, <1>4, SizeType
  <2>2. ASSUME NEW i \in 1 .. Len(s) - 1
        PROVE  s[i].at # Size /\ s[i + 1].of = s[i].of /\ s[i + 1].at = s[i].at + 1
    <3>1. i \in 1 .. Size /\ i + 1 \in 1 .. Size /\ i # Size
      BY <1>3, SizeType
    <3> QED
      BY <1>4, <3>1
  <2> QED
    BY <2>1, <2>2 DEF InFrame
<1> QED
  BY <1>1, <1>3, <1>5

\* Whole messages followed by whole messages.
LEMMA FrameConcat ==
    ASSUME NEW P, NEW s \in Seq(P), NEW t \in Seq(P), InFrame(s), InFrame(t)
    PROVE  s \o t \in Seq(P) /\ InFrame(s \o t)
<1>1. PICK b : b = s \o t
  OBVIOUS
<1>2. PICK n, m \in Nat : n = Len(s) /\ m = Len(t)
  OBVIOUS
<1>3. /\ b \in Seq(P) /\ Len(b) = n + m /\ \A i \in 1 .. n : b[i] = s[i]
      /\ \A i \in 1 .. m : b[i + n] = t[i]
  BY <1>1, <1>2
<1>4. CASE n = 0 \/ m = 0
  <2>1. CASE n = 0
    <3>1. b = t
      <4>1. b = [i \in 1 .. m |-> b[i]] /\ t = [i \in 1 .. m |-> t[i]]
        BY <1>2, <1>3, <2>1
      <4>2. \A i \in 1 .. m : b[i] = t[i]
        BY <1>3, <2>1
      <4> QED
        BY <4>1, <4>2
    <3> QED
      BY <1>1, <1>3, <3>1
  <2>2. CASE m = 0
    <3>1. b = s
      <4>1. b = [i \in 1 .. n |-> b[i]] /\ s = [i \in 1 .. n |-> s[i]]
        BY <1>2, <1>3, <2>2
      <4> QED
        BY <1>3, <4>1
    <3> QED
      BY <1>1, <1>3, <3>1
  <2> QED
    BY <1>4, <2>1, <2>2
<1>5. CASE n # 0 /\ m # 0
  <2>1. /\ s[1].at = 1 /\ s[n].at = Size
        /\ \A i \in 1 .. n - 1 : IF s[i].at = Size THEN s[i + 1].at = 1
                                 ELSE s[i + 1].of = s[i].of /\ s[i + 1].at = s[i].at + 1
    BY <1>2, <1>5 DEF InFrame
  <2>2. /\ t[1].at = 1 /\ t[m].at = Size
        /\ \A i \in 1 .. m - 1 : IF t[i].at = Size THEN t[i + 1].at = 1
                                 ELSE t[i + 1].of = t[i].of /\ t[i + 1].at = t[i].at + 1
    BY <1>2, <1>5 DEF InFrame
  <2>3. b[1].at = 1 /\ b[n + m].at = Size
    <3>1. 1 \in 1 .. n /\ m \in 1 .. m /\ m + n = n + m
      BY <1>2, <1>5
    <3> QED
      BY <1>3, <2>1, <2>2, <3>1
  <2>4. ASSUME NEW i \in 1 .. n + m - 1
        PROVE  IF b[i].at = Size THEN b[i + 1].at = 1
               ELSE b[i + 1].of = b[i].of /\ b[i + 1].at = b[i].at + 1
    <3>1. CASE i < n
      <4>1. i \in 1 .. n - 1 /\ i \in 1 .. n /\ i + 1 \in 1 .. n
        BY <1>2, <3>1
      <4> QED
        BY <1>3, <2>1, <4>1
    <3>2. CASE i = n
      <4>1. n \in 1 .. n /\ 1 \in 1 .. m /\ 1 + n = i + 1
        BY <1>2, <1>5, <3>2
      <4> QED
        BY <1>3, <2>1, <2>2, <3>2, <4>1
    <3>3. CASE i > n
      <4>1. PICK j \in 1 .. m - 1 : i = j + n /\ i + 1 = (j + 1) + n /\ j \in 1 .. m /\ j + 1 \in 1 .. m
        <5>1. i - n \in 1 .. m - 1 /\ i = (i - n) + n /\ i + 1 = ((i - n) + 1) + n
              /\ i - n \in 1 .. m /\ (i - n) + 1 \in 1 .. m
          BY <1>2, <3>3
        <5> QED
          BY <5>1
      <4>2. b[i] = t[j] /\ b[i + 1] = t[j + 1]
        BY <1>3, <4>1
      <4> QED
        BY <2>2, <4>1, <4>2
    <3> QED
      BY <1>2, <3>1, <3>2, <3>3
  <2> QED
    BY <1>1, <1>3, <2>3, <2>4 DEF InFrame
<1> QED
  BY <1>2, <1>4, <1>5

\* The beginning of a sequence of whole messages, up to the end of one.
LEMMA FramePrefix ==
    ASSUME NEW P, NEW s \in Seq(P), InFrame(s), NEW n \in 1 .. Len(s), s[n].at = Size
    PROVE  InFrame(SubSeq(s, 1, n))
<1>1. PICK t : t = SubSeq(s, 1, n)
  OBVIOUS
<1>2. n \in Nat /\ n >= 1 /\ Len(s) \in Nat /\ n <= Len(s) /\ s # <<>>
  OBVIOUS
<1>3. Len(t) = n /\ \A i \in 1 .. n : t[i] = s[i]
  BY <1>1, <1>2
<1>4. t[1].at = 1 /\ t[n].at = Size
  BY <1>2, <1>3 DEF InFrame
<1>5. ASSUME NEW i \in 1 .. n - 1
      PROVE  IF t[i].at = Size THEN t[i + 1].at = 1
             ELSE t[i + 1].of = t[i].of /\ t[i + 1].at = t[i].at + 1
  <2>1. i \in 1 .. Len(s) - 1 /\ i \in 1 .. n /\ i + 1 \in 1 .. n
    BY <1>2
  <2> QED
    BY <1>2, <1>3, <2>1 DEF InFrame
<1> QED
  BY <1>1, <1>3, <1>4, <1>5 DEF InFrame

\* What is buffered is whole messages.
LEMMA WireIs ==
    ASSUME NEW M, NEW messages \in Seq(M)
    PROVE  Wire(messages) \in Seq(PartsOf(M)) /\ InFrame(Wire(messages))
<1> DEFINE n == Len(messages)
           V == {s \in Seq(PartsOf(M)) : InFrame(s)}
           step == [i \in 1 .. n |-> [s \in V |-> s \o Parts(messages[i])]]
           Is(t) == t = [i \in 0 .. n |->
                IF i = 0 THEN <<>> ELSE t[i - 1] \o Parts(messages[i])]
           wire == CHOOSE t : Is(t)
<1>1. n \in Nat /\ \A i \in 1 .. n : messages[i] \in M
  OBVIOUS
<1>2. <<>> \in V
  BY DEF InFrame
<1>3. ASSUME NEW s \in V, NEW m \in M PROVE s \o Parts(m) \in V
  <2>1. Parts(m) \in Seq(PartsOf(M)) /\ InFrame(Parts(m))
    BY PartsIs
  <2> QED
    BY <2>1, FrameConcat
<1>4. step \in [1 .. n -> [V -> V]]
  <2> HIDE DEF V, n
  <2> QED
    BY <1>1, <1>3
<1>5. \E t : Is(t)
  <2>1. PICK f \in [0 .. n -> V] : Recursive(f, n, <<>>, step)
    <3> HIDE DEF n, V, step
    <3> QED
      BY <1>1, <1>2, <1>4, RecursionExists
  <2>2. ASSUME NEW i \in 0 .. n, i # 0
        PROVE  step[i][f[i - 1]] = f[i - 1] \o Parts(messages[i])
    <3>1. i \in 1 .. n /\ i - 1 \in 0 .. n
      BY <1>1, <2>2
    <3> HIDE DEF V
    <3> QED
      BY <2>1, <3>1
  <2>3. Is(f)
    <3> HIDE DEF V, step, n
    <3> QED
      BY <2>1, <2>2 DEF Recursive
  <2> QED
    BY <2>3
<1>6. Is(wire)
  <2> HIDE DEF Is
  <2> QED
    BY <1>5
<1>7. wire[0] = <<>> /\ \A i \in 1 .. n : wire[i] = wire[i - 1] \o Parts(messages[i])
  <2>1. 0 \in 0 .. n /\ \A i \in 1 .. n : i \in 0 .. n /\ i # 0
    BY <1>1
  <2> HIDE DEF wire, n
  <2> QED
    BY <1>6, <2>1
<1>8. \A i \in 0 .. n : wire[i] \in V
  <2> DEFINE S == {i \in 0 .. n : wire[i] \in V}
  <2>1. 0 \in S
    <3> HIDE DEF wire, V, n
    <3> QED
      BY <1>1, <1>2, <1>7
  <2>2. ASSUME NEW i \in 1 .. n, i - 1 \in S PROVE i \in S
    <3> HIDE DEF wire, V, n
    <3>1. wire[i - 1] \in V /\ messages[i] \in M /\ i \in 0 .. n
      BY <1>1, <2>2
    <3>2. wire[i] = wire[i - 1] \o Parts(messages[i])
      BY <1>7
    <3>3. wire[i] \in V
      BY <1>3, <3>1, <3>2
    <3> QED
      BY <3>1, <3>3
  <2>3. \A i \in 0 .. n : i \in S
    <3> HIDE DEF S, n
    <3> QED
      BY <1>1, <2>1, <2>2, InductionUpTo
  <2> QED
    BY <2>3
<1>9. Wire(messages) = wire[n]
  BY DEF Wire, Server!TCP!Wire, Parts
<1>10. wire[n] \in V
  <2>1. n \in 0 .. n
    BY <1>1
  <2> HIDE DEF wire, V, n
  <2> QED
    BY <1>8, <2>1
<1> HIDE DEF wire, n
<1> QED
  BY <1>9, <1>10

\* What send() leaves: in frame unless it cuts a message short.
LEMMA FlushedIs ==
    ASSUME NEW M, NEW stream, NEW whole, Stream(stream, M, whole),
           NEW bytes \in Seq(PartsOf(M)), InFrame(bytes),
           NEW isOpen, NEW n \in Takes(bytes, isOpen)
    PROVE  Stream(Flushed(stream, bytes, n), M, whole /\ ~Tears(bytes, n))
<1>1. n \in 0 .. Len(bytes)
  <2>1. Len(bytes) \in Nat
    OBVIOUS
  <2> QED
    BY <2>1 DEF Takes, Server!TCP!Takes
<1>2. PICK taken : taken = SubSeq(bytes, 1, n)
  OBVIOUS
<1>3. taken \in Seq(PartsOf(M)) /\ stream \in Seq(PartsOf(M))
  BY <1>1, <1>2 DEF Stream
<1>4. Flushed(stream, bytes, n) = stream \o taken
  BY <1>2 DEF Flushed, Server!TCP!Flushed
<1>5. ASSUME whole, ~Tears(bytes, n) PROVE InFrame(stream \o taken)
  <2>1. CASE n = 0
    <3>1. taken = <<>>
      BY <1>2, <2>1
    <3> QED
      BY <1>3, <1>5, <3>1 DEF Stream
  <2>2. CASE n # 0
    <3>1. n \in 1 .. Len(bytes) /\ bytes[n].at = Size
      BY <1>1, <1>5, <2>2 DEF Tears, Server!TCP!Tears
    <3>2. InFrame(taken)
      BY <1>2, <3>1, FramePrefix
    <3> QED
      BY <1>3, <1>5, <3>2, FrameConcat DEF Stream
  <2> QED
    BY <2>1, <2>2
<1> QED
  BY <1>3, <1>4, <1>5 DEF Stream

LEMMA ReadableIs == ASSUME NEW s, NEW k \in Readable(s) PROVE k \in Nat
BY DEF Readable, Server!TCP!Readable

\* In a stream of whole messages the first Size parts are one message's.
LEMMA FrameFirst ==
    ASSUME NEW M, NEW s \in Seq(PartsOf(M)), InFrame(s), Len(s) >= Size
    PROVE  \A i \in 1 .. Size : s[i].of = s[1].of /\ s[i].at = i
<1> DEFINE S == {i \in 0 .. Size : i >= 1 => s[i].of = s[1].of /\ s[i].at = i}
<1>1. Size \in Nat /\ Size >= 1 /\ Len(s) \in Nat /\ s # <<>>
  BY SizeType
<1>2. 0 \in S
  BY <1>1
<1>3. ASSUME NEW i \in 1 .. Size, i - 1 \in S PROVE i \in S
  <2>1. CASE i = 1
    BY <1>1, <2>1 DEF InFrame
  <2>2. CASE i # 1
    <3>1. PICK j \in 1 .. Len(s) - 1 : j = i - 1 /\ j + 1 = i /\ j < Size
      BY <1>1, <2>2
    <3>2. s[j].of = s[1].of /\ s[j].at = j
      BY <1>3, <3>1
    <3>3. s[j + 1].of = s[j].of /\ s[j + 1].at = s[j].at + 1
      BY <1>1, <3>1, <3>2 DEF InFrame
    <3> QED
      BY <1>1, <3>1, <3>2, <3>3
  <2> QED
    BY <2>1, <2>2
<1>4. \A i \in 0 .. Size : i \in S
  <2> HIDE DEF S
  <2> QED
    BY <1>1, <1>2, <1>3, InductionUpTo
<1>5. \A i \in 1 .. Size : i \in 0 .. Size /\ i >= 1
  BY <1>1
<1> QED
  BY <1>4, <1>5

\* A record is a message in which its number and its client id are found, or it
\* is of more than one; in a stream of whole messages it is a message.
LEMMA RecordIs ==
    ASSUME NEW M, NEW s, NEW whole, Stream(s, M, whole), HasRecord(s)
    PROVE  /\ Intact(Record(s)) =>
                 \E m \in M : /\ Record(s)[1].of = m
                              /\ ClientIds(Record(s)) = {m.client_id_}
                              /\ \A expected : SeqNums(Record(s), expected) = {m.seq_num_}
           /\ whole => Intact(Record(s))
           /\ Stream(Rest(s), M, whole)
<1>1. PICK record : record = Record(s)
  OBVIOUS
<1>2. PICK n \in Nat : n = Len(s) /\ n >= Size
  BY DEF Stream, HasRecord, Server!TCP!HasRecord
<1>3. s \in Seq(PartsOf(M)) /\ DOMAIN s = 1 .. n
  BY <1>2 DEF Stream
<1>4. \A i \in 1 .. Size : record[i] = s[i] /\ s[i] \in PartsOf(M)
  BY <1>1, <1>2, <1>3, SizeType DEF Record, Server!TCP!Record
<1>5. Intact(record) <=> \A i \in 1 .. Size : record[i] = [of |-> record[Size].of, at |-> i]
  BY DEF Intact, Server!TCP!Intact, Server!TCP!Whole, Server!TCP!Part
<1>6. /\ Size \in Nat /\ 1 \in 1 .. Size /\ NumberEnd \in 1 .. Size /\ ClientEnd \in 1 .. Size
      /\ \A i \in 1 .. NumberEnd : i \in 1 .. Size
      /\ \A i \in NumberEnd + 1 .. ClientEnd : i \in 1 .. Size
  BY OrderSessionAssumption
<1>7. ASSUME Intact(record)
      PROVE  \E m \in M : /\ record[1].of = m /\ ClientIds(record) = {m.client_id_}
                          /\ \A expected : SeqNums(record, expected) = {m.seq_num_}
  <2>1. PICK m : m = record[Size].of
    OBVIOUS
  <2>2. \A i \in 1 .. Size : record[i] = [of |-> m, at |-> i] /\ record[i].of = m
    BY <1>5, <1>7, <2>1
  <2>3. m \in M /\ record[1].of = m
    <3>1. record[1] = s[1] /\ s[1] \in PartsOf(M) /\ record[1].of = m
      BY <1>4, <1>6, <2>2
    <3>2. s[1].of \in M
      BY <3>1 DEF PartsOf
    <3> QED
      BY <3>1, <3>2
  <2>4. \A i \in NumberEnd + 1 .. ClientEnd : record[i] = [of |-> record[ClientEnd].of, at |-> i]
    BY <1>6, <2>2
  <2>5. \A i \in 1 .. NumberEnd : record[i] = [of |-> record[NumberEnd].of, at |-> i]
    BY <1>6, <2>2
  <2>6. record[ClientEnd].of = m /\ record[NumberEnd].of = m
    BY <1>6, <2>2
  <2>7. ClientIds(record) = {m.client_id_}
    BY <2>4, <2>6 DEF ClientIds, Server!TCP!ClientIds, Server!TCP!Whole, Server!TCP!Part
  <2>8. \A expected : SeqNums(record, expected) = {m.seq_num_}
    BY <2>5, <2>6 DEF SeqNums, Server!TCP!SeqNums, Server!TCP!Whole, Server!TCP!Part
  <2> QED
    BY <2>3, <2>7, <2>8
<1>8. ASSUME whole PROVE \A i \in 1 .. Size : s[i].of = s[1].of /\ s[i].at = i
  BY <1>2, <1>8, FrameFirst DEF Stream
<1>9. ASSUME whole PROVE Intact(record)
  <2>1. \A i \in 1 .. Size : s[i] = [of |-> s[i].of, at |-> s[i].at]
    BY <1>4 DEF PartsOf
  <2>2. Size \in 1 .. Size
    BY SizeType
  <2> QED
    BY <1>4, <1>5, <1>8, <1>9, <2>1, <2>2
<1>10. Stream(Rest(s), M, whole)
  <2>1. PICK rest : rest = Rest(s)
    OBVIOUS
  <2>2. PICK m \in Nat : m = n - Size
    <3>1. n - Size \in Nat
      BY <1>2, SizeType
    <3> QED
      BY <3>1
  <2>3. rest = [i \in 1 .. m |-> s[i + Size]]
    <3>1. \A i \in 1 .. m : i + (Size + 1) - 1 = i + Size
      BY <2>2, SizeType
    <3>2. n - (Size + 1) + 1 = m
      BY <2>2, SizeType
    <3> QED
      BY <1>2, <1>3, <2>1, <2>2, <3>1, <3>2, SizeType DEF Rest, Server!TCP!Rest
  <2>4. \A i \in 1 .. m : i + Size \in 1 .. n
    BY <2>2, SizeType
  <2>5. rest \in Seq(PartsOf(M)) /\ Len(rest) = m
    BY <1>3, <2>2, <2>3, <2>4
  <2>6. ASSUME whole PROVE InFrame(rest)
    <3>1. CASE m = 0
      BY <2>5, <3>1 DEF InFrame
    <3>2. CASE m # 0
      <4>1. s # <<>> /\ InFrame(s) /\ s[Size].at = Size /\ Size \in 1 .. n - 1 /\ m \in 1 .. m
            /\ m + Size = n /\ 1 \in 1 .. m /\ 1 + Size = Size + 1
        BY <1>2, <1>3, <1>8, <2>2, <2>6, <3>2, SizeType DEF Stream
      <4>2. s[Size + 1].at = 1 /\ s[n].at = Size
        BY <1>2, <4>1 DEF InFrame
      <4>3. rest[1].at = 1 /\ rest[m].at = Size
        BY <2>3, <4>1, <4>2
      <4>4. ASSUME NEW i \in 1 .. m - 1
            PROVE  IF rest[i].at = Size THEN rest[i + 1].at = 1
                   ELSE rest[i + 1].of = rest[i].of /\ rest[i + 1].at = rest[i].at + 1
        <5>1. i + Size \in 1 .. n - 1 /\ i \in 1 .. m /\ i + 1 \in 1 .. m /\ (i + 1) + Size = (i + Size) + 1
          BY <2>2, SizeType
        <5>2. rest[i] = s[i + Size] /\ rest[i + 1] = s[(i + Size) + 1]
          BY <2>3, <5>1
        <5> QED
          BY <1>2, <4>1, <5>1, <5>2 DEF InFrame
      <4> QED
        BY <2>5, <4>3, <4>4 DEF InFrame
    <3> QED
      BY <3>1, <3>2
  <2> QED
    BY <2>1, <2>5, <2>6 DEF Stream
<1> QED
  BY <1>1, <1>7, <1>9, <1>10
----------------------------------------------------------------------------
(* Sequences.                                                               *)

LEMMA SeqMono ==
    ASSUME NEW S, NEW T, S \subseteq T, NEW q \in Seq(S) PROVE q \in Seq(T)
OBVIOUS

LEMMA SeqEmpty == ASSUME NEW S PROVE <<>> \in Seq(S)
OBVIOUS

\* The end of a sequence from its ith place.
LEMMA SubSeqFrom ==
    ASSUME NEW E, NEW q \in Seq(E), NEW n, n = Len(q), NEW i \in 1 .. n
    PROVE  /\ SubSeq(q, i, n) \in Seq(E) /\ SubSeq(q, i, n) # <<>>
           /\ Head(SubSeq(q, i, n)) = q[i] /\ Tail(SubSeq(q, i, n)) = SubSeq(q, i + 1, n)
<1>1. n \in Nat /\ i \in Nat /\ n - i \in Nat
  OBVIOUS
<1>2. PICK left : left = SubSeq(q, i, n)
  OBVIOUS
<1>3. left = [j \in 1 .. n - i + 1 |-> q[j + i - 1]]
  <2>1. n - i + 1 \in Nat
    BY <1>1
  <2> QED
    BY <1>1, <1>2, <2>1
<1>4. \A j \in 1 .. n - i + 1 : q[j + i - 1] \in E
  <2>1. \A j \in 1 .. n - i + 1 : j + i - 1 \in 1 .. n
    BY <1>1
  <2> QED
    BY <2>1
<1>5. left \in Seq(E) /\ Len(left) = n - i + 1 /\ left # <<>> /\ left[1] = q[i]
  <2>1. PICK m \in Nat : m = n - i + 1
    BY <1>1
  <2>2. 1 \in 1 .. m /\ 1 + i - 1 = i /\ m # 0
    BY <1>1, <2>1
  <2>3. left = [j \in 1 .. m |-> q[j + i - 1]]
    BY <1>3, <2>1
  <2>4. left \in Seq(E) /\ Len(left) = m
    BY <1>4, <2>1, <2>3
  <2>5. left[1] = q[i]
    BY <2>2, <2>3
  <2> QED
    BY <2>1, <2>2, <2>4, <2>5
<1>6. Head(left) = q[i]
  BY <1>5
<1>7. Tail(left) = [j \in 1 .. n - i |-> q[j + i]]
  <2>1. \A j \in 1 .. n - i : j + 1 \in 1 .. n - i + 1 /\ j + 1 + i - 1 = j + i
    BY <1>1
  <2>2. PICK m \in Nat : m = n - i + 1 /\ m - 1 = n - i
    BY <1>1
  <2>3. Tail(left) = [j \in 1 .. n - i |-> left[j + 1]]
    <3>1. Len(left) = m
      BY <1>5, <2>2
    <3>2. Tail(left) = [j \in 1 .. m - 1 |-> left[j + 1]]
      <4>1. PICK rest : rest = Tail(left)
        OBVIOUS
      <4>2. rest \in Seq(E) /\ Len(rest) = m - 1
            /\ \A j \in 1 .. m - 1 : rest[j] = left[j + 1]
        BY <1>5, <2>2, <3>1, <4>1
      <4>3. rest = [j \in 1 .. m - 1 |-> rest[j]]
        BY <4>2
      <4> QED
        BY <4>1, <4>2, <4>3
    <3> QED
      BY <2>2, <3>2
  <2> QED
    BY <1>3, <2>1, <2>3
<1>8. SubSeq(q, i + 1, n) = [j \in 1 .. n - i |-> q[j + i]]
  <2>1. \A j \in 1 .. n - i : j + (i + 1) - 1 = j + i
    BY <1>1
  <2>2. n - (i + 1) + 1 = n - i
    BY <1>1
  <2> QED
    BY <1>1, <2>1, <2>2
<1> QED
  BY <1>2, <1>5, <1>6, <1>7, <1>8

LEMMA TailConcat ==
    ASSUME NEW E, NEW q \in Seq(E), NEW r \in Seq(E), q # <<>>
    PROVE  /\ q \o r \in Seq(E) /\ q \o r # <<>> /\ Head(q \o r) = Head(q)
           /\ Tail(q \o r) = Tail(q) \o r
<1>1. PICK n, m \in Nat : n = Len(q) /\ m = Len(r) /\ n >= 1
  OBVIOUS
<1>2. PICK b : b = q \o r
  OBVIOUS
<1>3. /\ b \in Seq(E) /\ Len(b) = n + m /\ \A i \in 1 .. n : b[i] = q[i]
      /\ \A i \in 1 .. n + m : i > n => b[i] = r[i - n]
  BY <1>1, <1>2
<1>4. b # <<>> /\ Head(b) = Head(q)
  BY <1>1, <1>3
<1>5. PICK t : t = Tail(q)
  OBVIOUS
<1>6. t \in Seq(E) /\ Len(t) = n - 1 /\ \A i \in 1 .. n - 1 : t[i] = q[i + 1]
  BY <1>1, <1>5
<1>7. PICK u : u = Tail(b)
  OBVIOUS
<1>8. u \in Seq(E) /\ Len(u) = n + m - 1 /\ \A i \in 1 .. n + m - 1 : u[i] = b[i + 1]
  BY <1>1, <1>3, <1>4, <1>7
<1>9. PICK v : v = t \o r
  OBVIOUS
<1>10. /\ v \in Seq(E) /\ Len(v) = n + m - 1 /\ \A i \in 1 .. n - 1 : v[i] = t[i]
       /\ \A i \in 1 .. n + m - 1 : i > n - 1 => v[i] = r[i - (n - 1)]
  <2>1. PICK k \in Nat : k = n - 1
    BY <1>1
  <2>2. /\ v \in Seq(E) /\ Len(v) = k + m /\ \A i \in 1 .. k : v[i] = t[i]
        /\ \A i \in 1 .. k + m : i > k => v[i] = r[i - k]
    <3>1. k = Len(t) /\ m = Len(r) /\ t \in Seq(E)
      BY <1>1, <1>6, <2>1
    <3>2. v \in Seq(E) /\ Len(v) = k + m
      BY ONLY <1>9, <3>1, r \in Seq(E), k \in Nat, m \in Nat
    <3>3. \A i \in 1 .. k : v[i] = t[i]
      BY ONLY <1>9, <3>1, r \in Seq(E), k \in Nat, m \in Nat
    <3>4. \A i \in 1 .. k + m : i > k => v[i] = r[i - k]
      BY ONLY <1>9, <3>1, r \in Seq(E), k \in Nat, m \in Nat
    <3> QED
      BY <3>2, <3>3, <3>4
  <2>3. k + m = n + m - 1
    BY <2>1
  <2> QED
    BY <2>1, <2>2, <2>3
<1>11. ASSUME NEW i \in 1 .. n + m - 1 PROVE u[i] = v[i]
  <2>1. CASE i <= n - 1
    <3>1. i \in 1 .. n - 1 /\ i + 1 \in 1 .. n
      BY <1>1, <2>1
    <3> QED
      BY <1>3, <1>6, <1>8, <1>10, <3>1
  <2>2. CASE i > n - 1
    <3>1. i + 1 \in 1 .. n + m /\ i + 1 > n /\ i + 1 - n = i - (n - 1)
      BY <1>1, <2>2
    <3>2. u[i] = b[i + 1] /\ b[i + 1] = r[i + 1 - n]
      BY <1>3, <1>8, <3>1
    <3>3. v[i] = r[i - (n - 1)]
      BY <1>10, <2>2
    <3> QED
      BY <3>1, <3>2, <3>3
  <2> QED
    BY <1>1, <2>1, <2>2
<1>12. u = v
  <2>1. u = [i \in 1 .. n + m - 1 |-> u[i]] /\ v = [i \in 1 .. n + m - 1 |-> v[i]]
    BY <1>8, <1>10
  <2> QED
    BY <1>11, <2>1
<1> QED
  BY <1>2, <1>3, <1>4, <1>5, <1>7, <1>9, <1>12

LEMMA ConcatIs ==
    ASSUME NEW E, NEW q \in Seq(E), NEW r \in Seq(E)
    PROVE  /\ Len(q \o r) = Len(q) + Len(r)
           /\ \A i \in 1 .. Len(q) : (q \o r)[i] = q[i]
           /\ \A i \in 1 .. Len(r) : (q \o r)[i + Len(q)] = r[i]
<1>1. PICK n, m \in Nat : n = Len(q) /\ m = Len(r)
  OBVIOUS
<1>2. PICK b : b = q \o r
  OBVIOUS
<1>3. /\ Len(b) = n + m /\ \A i \in 1 .. n : b[i] = q[i]
      /\ \A i \in 1 .. m : b[i + n] = r[i]
  BY <1>1, <1>2
<1> QED
  BY <1>1, <1>2, <1>3

LEMMA ConcatAppend ==
    ASSUME NEW E, NEW q \in Seq(E), NEW r \in Seq(E), NEW x \in E
    PROVE  q \o Append(r, x) = Append(q \o r, x)
<1>1. PICK n, m \in Nat : n = Len(q) /\ m = Len(r)
  OBVIOUS
<1>2. PICK s, t, u, v : s = Append(r, x) /\ t = q \o r /\ u = q \o s /\ v = Append(t, x)
  OBVIOUS
<1>3. s \in Seq(E) /\ Len(s) = m + 1 /\ s[m + 1] = x /\ \A i \in 1 .. m : s[i] = r[i]
  BY <1>1, <1>2
<1>4. /\ t \in Seq(E) /\ Len(t) = n + m /\ \A i \in 1 .. n : t[i] = q[i]
      /\ \A i \in 1 .. n + m : i > n => t[i] = r[i - n]
  BY <1>1, <1>2
<1>5. PICK k \in Nat : k = m + 1
  BY <1>1
<1>6. /\ u \in Seq(E) /\ Len(u) = n + k /\ \A i \in 1 .. n : u[i] = q[i]
      /\ \A i \in 1 .. n + k : i > n => u[i] = s[i - n]
  BY <1>1, <1>2, <1>3, <1>5
<1>7. /\ v \in Seq(E) /\ Len(v) = n + m + 1 /\ v[n + m + 1] = x
      /\ \A i \in 1 .. n + m : v[i] = t[i]
  BY <1>1, <1>2, <1>4
<1>8. ASSUME NEW i \in 1 .. n + k PROVE u[i] = v[i]
  <2>1. CASE i \in 1 .. n
    <3>1. i \in 1 .. n + m
      BY <1>1, <2>1
    <3> QED
      BY <1>4, <1>6, <1>7, <2>1, <3>1
  <2>2. CASE i > n /\ i <= n + m
    <3>1. i \in 1 .. n + m /\ i - n \in 1 .. m
      BY <1>1, <2>2
    <3> QED
      BY <1>3, <1>4, <1>6, <1>7, <2>2, <3>1
  <2>3. CASE i = n + k
    <3>1. i > n /\ i - n = m + 1 /\ i = n + m + 1
      BY <1>1, <1>5, <2>3
    <3> QED
      BY <1>3, <1>6, <1>7, <3>1
  <2> QED
    BY <1>1, <1>5, <2>1, <2>2, <2>3
<1>9. u = [i \in 1 .. n + k |-> u[i]] /\ v = [i \in 1 .. n + k |-> v[i]]
  <2>1. Len(v) = n + k
    BY <1>1, <1>5, <1>7
  <2> QED
    BY <1>6, <1>7, <2>1
<1> QED
  BY <1>2, <1>8, <1>9
----------------------------------------------------------------------------
(* Elements that wait their turn.                                           *)

\* Those of q that are in mine are numbered lo .. hi, in order.
InTurn(q, mine, lo, hi) ==
    /\ lo \in Nat /\ hi \in Nat /\ lo <= hi + 1
    /\ \A i \in 1 .. Len(q) : q[i] \in mine => q[i].nth \in lo .. hi
    /\ \A i, j \in 1 .. Len(q) : i < j /\ q[i] \in mine /\ q[j] \in mine => q[i].nth < q[j].nth
    /\ \A n \in lo .. hi : \E i \in 1 .. Len(q) : q[i] \in mine /\ q[i].nth = n

LEMMA InTurnEmpty ==
    ASSUME NEW mine, NEW lo, NEW hi
    PROVE  /\ InTurn(<<>>, mine, lo, hi) => lo = hi + 1
           /\ hi \in Nat => InTurn(<<>>, mine, hi + 1, hi)
BY DEF InTurn

\* The first of them comes next, and then the others.
LEMMA InTurnTail ==
    ASSUME NEW E, NEW q \in Seq(E), q # <<>>, NEW mine, NEW lo, NEW hi, InTurn(q, mine, lo, hi)
    PROVE  /\ Head(q) \in mine =>
                 Head(q).nth = lo /\ lo <= hi /\ InTurn(Tail(q), mine, lo + 1, hi)
           /\ Head(q) \notin mine => InTurn(Tail(q), mine, lo, hi)
<1>1. PICK t : t = Tail(q)
  OBVIOUS
<1>2. /\ Len(q) \in Nat /\ Len(q) >= 1 /\ Len(t) = Len(q) - 1 /\ Head(q) = q[1]
      /\ \A i \in 1 .. Len(t) : t[i] = q[i + 1]
  BY <1>1
<1>3. lo \in Nat /\ hi \in Nat
  BY DEF InTurn
<1>4. CASE Head(q) \in mine
  <2>1. lo <= hi /\ q[1].nth \in lo .. hi
    BY <1>2, <1>3, <1>4 DEF InTurn
  <2>2. PICK i \in 1 .. Len(q) : q[i] \in mine /\ q[i].nth = lo
    BY <1>3, <2>1 DEF InTurn
  <2>3. q[1].nth = lo
    <3>1. CASE i = 1
      BY <2>2, <3>1
    <3>2. CASE i # 1
      <4>1. q[1].nth < q[i].nth
        BY <1>2, <1>4, <2>2, <3>2 DEF InTurn
      <4> QED
        BY <1>3, <2>1, <2>2, <4>1
    <3> QED
      BY <3>1, <3>2
  <2>4. ASSUME NEW j \in 1 .. Len(t), t[j] \in mine PROVE t[j].nth \in lo + 1 .. hi
    <3>1. q[j + 1] \in mine /\ j + 1 \in 1 .. Len(q) /\ 1 < j + 1 /\ 1 \in 1 .. Len(q)
      BY <1>2, <2>4
    <3>2. q[j + 1].nth \in lo .. hi /\ q[1].nth < q[j + 1].nth
      BY <1>2, <1>4, <3>1 DEF InTurn
    <3> QED
      BY <1>2, <1>3, <2>3, <3>2
  <2>5. ASSUME NEW j \in 1 .. Len(t), NEW k \in 1 .. Len(t), j < k, t[j] \in mine, t[k] \in mine
        PROVE  t[j].nth < t[k].nth
    <3>1. j + 1 \in 1 .. Len(q) /\ k + 1 \in 1 .. Len(q) /\ j + 1 < k + 1
      BY <1>2, <2>5
    <3>2. t[j] = q[j + 1] /\ t[k] = q[k + 1]
      BY <1>2
    <3> QED
      BY <2>5, <3>1, <3>2 DEF InTurn
  <2>6. ASSUME NEW n \in lo + 1 .. hi PROVE \E j \in 1 .. Len(t) : t[j] \in mine /\ t[j].nth = n
    <3>1. PICK j \in 1 .. Len(q) : q[j] \in mine /\ q[j].nth = n
      BY <1>3, <2>6 DEF InTurn
    <3>2. j # 1
      BY <1>3, <2>3, <3>1
    <3>3. j - 1 \in 1 .. Len(t) /\ t[j - 1] = q[j]
      BY <1>2, <3>2
    <3> QED
      BY <3>1, <3>3
  <2>7. InTurn(t, mine, lo + 1, hi)
    <3>1. lo + 1 \in Nat /\ lo + 1 <= hi + 1
      BY <1>3, <2>1
    <3> QED
      BY ONLY <1>3, <2>4, <2>5, <2>6, <3>1 DEF InTurn
  <2> QED
    BY <1>1, <1>2, <1>4, <2>1, <2>3, <2>7
<1>5. CASE Head(q) \notin mine
  <2>1. ASSUME NEW j \in 1 .. Len(t), t[j] \in mine PROVE t[j].nth \in lo .. hi
    <3>1. q[j + 1] \in mine /\ j + 1 \in 1 .. Len(q) /\ t[j] = q[j + 1]
      BY <1>2, <2>1
    <3> QED
      BY <3>1 DEF InTurn
  <2>2. ASSUME NEW j \in 1 .. Len(t), NEW k \in 1 .. Len(t), j < k, t[j] \in mine, t[k] \in mine
        PROVE  t[j].nth < t[k].nth
    <3>1. j + 1 \in 1 .. Len(q) /\ k + 1 \in 1 .. Len(q) /\ j + 1 < k + 1
      BY <1>2, <2>2
    <3>2. t[j] = q[j + 1] /\ t[k] = q[k + 1]
      BY <1>2
    <3> QED
      BY <2>2, <3>1, <3>2 DEF InTurn
  <2>3. ASSUME NEW n \in lo .. hi PROVE \E j \in 1 .. Len(t) : t[j] \in mine /\ t[j].nth = n
    <3>1. PICK j \in 1 .. Len(q) : q[j] \in mine /\ q[j].nth = n
      BY DEF InTurn
    <3>2. j # 1
      BY <1>2, <1>5, <3>1
    <3>3. j - 1 \in 1 .. Len(t) /\ t[j - 1] = q[j]
      BY <1>2, <3>2
    <3> QED
      BY <3>1, <3>3
  <2>4. InTurn(t, mine, lo, hi)
    <3>1. lo <= hi + 1
      BY DEF InTurn
    <3> QED
      BY <1>3, <2>1, <2>2, <2>3, <3>1 DEF InTurn
  <2> QED
    BY <1>1, <1>5, <2>4
<1> QED
  BY <1>4, <1>5

\* What comes after them is to be numbered on from there.
LEMMA InTurnConcat ==
    ASSUME NEW E, NEW q \in Seq(E), NEW r \in Seq(E), NEW mine, NEW lo, NEW mid, NEW hi,
           InTurn(q, mine, lo, mid), InTurn(r, mine, mid + 1, hi)
    PROVE  InTurn(q \o r, mine, lo, hi)
<1>1. PICK b : b = q \o r
  OBVIOUS
<1>2. PICK n, m \in Nat : n = Len(q) /\ m = Len(r)
  OBVIOUS
<1>3. /\ Len(b) = n + m /\ \A i \in 1 .. n : b[i] = q[i]
      /\ \A i \in 1 .. n + m : i > n => i - n \in 1 .. m /\ b[i] = r[i - n]
  BY <1>1, <1>2
<1>4. lo \in Nat /\ mid \in Nat /\ hi \in Nat /\ lo <= mid + 1 /\ mid <= hi
  BY DEF InTurn
<1>5. \A i \in 1 .. n : b[i] \in mine => b[i].nth \in lo .. mid
  BY <1>2, <1>3 DEF InTurn
<1>6. \A i \in 1 .. n + m : i > n /\ b[i] \in mine => b[i].nth \in mid + 1 .. hi
  <2>1. ASSUME NEW i \in 1 .. n + m, i > n, b[i] \in mine PROVE b[i].nth \in mid + 1 .. hi
    <3>1. i - n \in 1 .. Len(r) /\ b[i] = r[i - n]
      BY <1>2, <1>3, <2>1
    <3> QED
      BY <2>1, <3>1 DEF InTurn
  <2> QED
    BY <2>1
<1>7. ASSUME NEW i \in 1 .. n + m, NEW j \in 1 .. n + m, i < j, b[i] \in mine, b[j] \in mine
      PROVE  b[i].nth < b[j].nth
  <2>1. CASE j <= n
    <3>1. i \in 1 .. Len(q) /\ j \in 1 .. Len(q) /\ b[i] = q[i] /\ b[j] = q[j]
      BY <1>2, <1>3, <1>7, <2>1
    <3> QED
      BY <1>7, <3>1 DEF InTurn
  <2>2. CASE i <= n /\ j > n
    <3>1. PICK x \in lo .. mid : x = b[i].nth
      BY <1>5, <1>7, <2>2
    <3>2. PICK y \in mid + 1 .. hi : y = b[j].nth
      BY <1>6, <1>7, <2>2
    <3> QED
      BY ONLY <1>4, <3>1, <3>2
  <2>3. CASE i > n
    <3> i \in Nat /\ j \in Nat /\ j > n /\ i - n < j - n
      BY ONLY <1>2, <1>7, <2>3
    <3>1. i - n \in 1 .. Len(r) /\ j - n \in 1 .. Len(r) /\ b[i] = r[i - n] /\ b[j] = r[j - n]
      BY <1>2, <1>3, <2>3
    <3> QED
      BY <1>7, <3>1 DEF InTurn
  <2> QED
    BY <1>2, <2>1, <2>2, <2>3
<1>8. ASSUME NEW k \in lo .. hi PROVE \E i \in 1 .. n + m : b[i] \in mine /\ b[i].nth = k
  <2>1. CASE k <= mid
    <3>0. k \in lo .. mid
      BY ONLY <1>4, <2>1, k \in lo .. hi
    <3>1. PICK i \in 1 .. n : q[i] \in mine /\ q[i].nth = k
      BY ONLY <1>2, <3>0, InTurn(q, mine, lo, mid) DEF InTurn
    <3>2. i \in 1 .. n + m /\ b[i] = q[i]
      BY <1>2, <1>3
    <3> QED
      BY <3>1, <3>2
  <2>2. CASE k > mid
    <3>0. k \in mid + 1 .. hi
      BY ONLY <1>4, <2>2, k \in lo .. hi
    <3>1. PICK i \in 1 .. m : r[i] \in mine /\ r[i].nth = k
      BY ONLY <1>2, <3>0, InTurn(r, mine, mid + 1, hi) DEF InTurn
    <3>2. i + n \in 1 .. n + m /\ i + n > n /\ i + n - n = i
      BY <1>2
    <3>3. b[i + n] = r[i]
      BY <1>3, <3>2
    <3> QED
      BY <3>1, <3>2, <3>3
  <2> QED
    BY <1>4, <2>1, <2>2
<1>9. \A i \in 1 .. n + m : b[i] \in mine => b[i].nth \in lo .. hi
  <2>1. ASSUME NEW i \in 1 .. n + m, b[i] \in mine PROVE b[i].nth \in lo .. hi
    <3>1. CASE i <= n
      BY <1>2, <1>4, <1>5, <2>1, <3>1
    <3>2. CASE i > n
      BY <1>2, <1>4, <1>6, <2>1, <3>2
    <3> QED
      BY <1>2, <3>1, <3>2
  <2> QED
    BY <2>1
<1>10. InTurn(b, mine, lo, hi)
  <2>1. Len(b) = n + m /\ lo \in Nat /\ hi \in Nat /\ lo <= hi + 1
    BY <1>3, <1>4
  <2> QED
    BY ONLY <1>7, <1>8, <1>9, <2>1 DEF InTurn
<1> QED
  BY <1>1, <1>10

\* One more.
LEMMA InTurnAppend ==
    ASSUME NEW E, NEW q \in Seq(E), NEW x \in E, NEW mine, NEW lo, NEW hi, InTurn(q, mine, lo, hi)
    PROVE  /\ x \in mine /\ x.nth = hi + 1 => InTurn(Append(q, x), mine, lo, hi + 1)
           /\ x \notin mine => InTurn(Append(q, x), mine, lo, hi)
<1>1. PICK r : r = <<x>>
  OBVIOUS
<1>2. r \in Seq(E) /\ Len(r) = 1 /\ r[1] = x /\ q \o r = Append(q, x)
  BY <1>1
<1>3. hi \in Nat
  BY DEF InTurn
<1>4. ASSUME x \in mine, x.nth = hi + 1 PROVE InTurn(r, mine, hi + 1, hi + 1)
  BY <1>2, <1>3, <1>4 DEF InTurn
<1>5. ASSUME x \notin mine PROVE InTurn(r, mine, hi + 1, hi)
  BY <1>2, <1>3, <1>5 DEF InTurn
<1> QED
  BY <1>2, <1>4, <1>5, InTurnConcat

\* Nothing twice: neither in done, nor among those of q that are in mine, nor in
\* both, and no number above hi.
Once(done, q, mine, hi) ==
    /\ \A i \in 1 .. Len(done) : done[i].nth \in 1 .. hi
    /\ \A i, j \in 1 .. Len(done) : done[i].nth = done[j].nth => i = j
    /\ \A i \in 1 .. Len(q) : q[i] \in mine => q[i].nth \in 1 .. hi
    /\ \A i, j \in 1 .. Len(q) : q[i] \in mine /\ q[j] \in mine /\ q[i].nth = q[j].nth => i = j
    /\ \A i \in 1 .. Len(done), j \in 1 .. Len(q) : q[j] \in mine => done[i].nth # q[j].nth

LEMMA OnceEmpty == ASSUME NEW mine, NEW hi PROVE Once(<<>>, <<>>, mine, hi)
BY DEF Once

\* A number is used up, and if there is one more it has that number.
LEMMA OnceAppend ==
    ASSUME NEW E, NEW done, NEW q \in Seq(E), NEW mine, NEW hi \in Nat, Once(done, q, mine, hi),
           NEW x \in E
    PROVE  /\ Once(done, q, mine, hi + 1)
           /\ x \in mine /\ x.nth = hi + 1 => Once(done, Append(q, x), mine, hi + 1)
           /\ x \notin mine => Once(done, Append(q, x), mine, hi)
<1>1. PICK longer : longer = Append(q, x)
  OBVIOUS
<1>2. PICK n \in Nat : n = Len(q)
  OBVIOUS
<1>3. Len(longer) = n + 1 /\ longer[n + 1] = x /\ \A i \in 1 .. n : longer[i] = q[i]
  BY <1>1, <1>2
<1>4. \A k \in 1 .. hi : k \in 1 .. hi + 1 /\ k # hi + 1
  OBVIOUS
<1>5. Once(done, q, mine, hi + 1)
  BY <1>4 DEF Once
<1>6. \A i \in 1 .. n + 1 : i \in 1 .. n \/ i = n + 1
  BY <1>2
<1>7. ASSUME x \in mine, x.nth = hi + 1 PROVE Once(done, longer, mine, hi + 1)
  <2>1. \A i \in 1 .. n + 1 : longer[i] \in mine => longer[i].nth \in 1 .. hi + 1
    BY <1>2, <1>3, <1>4, <1>6, <1>7 DEF Once
  <2>2. \A i \in 1 .. n : longer[i] \in mine => longer[i].nth # hi + 1
    BY <1>2, <1>3, <1>4 DEF Once
  <2>3. \A i, j \in 1 .. n + 1 :
           longer[i] \in mine /\ longer[j] \in mine /\ longer[i].nth = longer[j].nth => i = j
    BY <1>2, <1>3, <1>6, <1>7, <2>2 DEF Once
  <2>4. \A i \in 1 .. Len(done), j \in 1 .. n + 1 : longer[j] \in mine => done[i].nth # longer[j].nth
    BY <1>2, <1>3, <1>4, <1>6, <1>7 DEF Once
  <2> QED
    BY <1>3, <1>5, <2>1, <2>3, <2>4 DEF Once
<1>8. ASSUME x \notin mine PROVE Once(done, longer, mine, hi)
  <2>1. \A i \in 1 .. n + 1 : longer[i] \in mine => i \in 1 .. n /\ longer[i] = q[i]
    BY <1>3, <1>6, <1>8
  <2> QED
    BY <1>2, <1>3, <2>1 DEF Once
<1> QED
  BY <1>1, <1>5, <1>7, <1>8

\* The first of those that are left is done.
LEMMA OnceTail ==
    ASSUME NEW E, NEW done \in Seq(E), NEW q \in Seq(E), q # <<>>, NEW mine, NEW hi,
           Once(done, q, mine, hi)
    PROVE  /\ Head(q) \in mine => Once(Append(done, Head(q)), Tail(q), mine, hi)
           /\ Head(q) \notin mine => Once(done, Tail(q), mine, hi)
<1>1. PICK t, x, more : t = Tail(q) /\ x = Head(q) /\ more = Append(done, x)
  OBVIOUS
<1>2. PICK n, m \in Nat : n = Len(done) /\ m = Len(t) /\ Len(q) = m + 1
  <2>1. Len(done) \in Nat /\ Len(t) \in Nat /\ Len(q) = Len(t) + 1
    BY <1>1
  <2> QED
    BY <2>1
<1>3. x = q[1] /\ \A i \in 1 .. m : t[i] = q[i + 1]
  BY <1>1, <1>2
<1>4. Len(more) = n + 1 /\ more[n + 1] = x /\ \A i \in 1 .. n : more[i] = done[i]
  <2>1. x \in E
    BY <1>1
  <2> QED
    BY <1>1, <1>2, <2>1
<1>5. 1 \in 1 .. Len(q) /\ \A i \in 1 .. m : i + 1 \in 1 .. Len(q) /\ i + 1 # 1
  BY <1>2
<1>6. Once(done, t, mine, hi)
  <2>1. \A i, j \in 1 .. m : i + 1 = j + 1 => i = j
    BY <1>2
  <2>2. \A i \in 1 .. m : t[i] \in mine => t[i].nth \in 1 .. hi
    BY <1>3, <1>5 DEF Once
  <2>3. ASSUME NEW i \in 1 .. m, NEW j \in 1 .. m, t[i] \in mine, t[j] \in mine, t[i].nth = t[j].nth
        PROVE  i = j
    <3>1. i + 1 = j + 1
      BY <1>3, <1>5, <2>3 DEF Once
    <3> QED
      BY <2>1, <3>1
  <2>4. ASSUME NEW i \in 1 .. Len(done), NEW j \in 1 .. m, t[j] \in mine
        PROVE  done[i].nth # t[j].nth
    BY <1>3, <1>5, <2>4 DEF Once
  <2> QED
    BY <1>2, <2>2, <2>3, <2>4 DEF Once
<1>7. ASSUME x \in mine PROVE Once(more, t, mine, hi)
  <2>1. \A i \in 1 .. n + 1 : i \in 1 .. n \/ i = n + 1
    BY <1>2
  <2>2. x.nth \in 1 .. hi /\ \A i \in 1 .. n : done[i].nth # x.nth
    BY <1>2, <1>3, <1>5, <1>7 DEF Once
  <2>3. \A j \in 1 .. m : t[j] \in mine => x.nth # t[j].nth
    <3>1. ASSUME NEW j \in 1 .. m, t[j] \in mine, x.nth = t[j].nth PROVE FALSE
      <4>1. 1 = j + 1
        BY <1>3, <1>5, <1>7, <3>1 DEF Once
      <4> QED
        BY <1>5, <4>1
    <3> QED
      BY <3>1
  <2>4. \A i \in 1 .. n + 1 : more[i].nth \in 1 .. hi
    BY <1>2, <1>4, <2>1, <2>2 DEF Once
  <2>5. \A i, j \in 1 .. n + 1 : more[i].nth = more[j].nth => i = j
    BY <1>2, <1>4, <2>1, <2>2 DEF Once
  <2>6. \A i \in 1 .. n + 1, j \in 1 .. m : t[j] \in mine => more[i].nth # t[j].nth
    BY <1>2, <1>4, <1>6, <2>1, <2>3 DEF Once
  <2> QED
    BY <1>2, <1>4, <1>6, <2>4, <2>5, <2>6 DEF Once
<1> QED
  BY <1>1, <1>6, <1>7

\* Those that are left change places.
LEMMA OncePermuted ==
    ASSUME NEW done, NEW q, NEW mine, NEW hi, Once(done, q, mine, hi),
           NEW t, Len(t) = Len(q), NEW f \in [1 .. Len(q) -> 1 .. Len(q)],
           \A i, j \in 1 .. Len(q) : f[i] = f[j] => i = j,
           \A i \in 1 .. Len(q) : t[i] = q[f[i]]
    PROVE  Once(done, t, mine, hi)
<1>1. \A i \in 1 .. Len(q) : t[i] \in mine => t[i].nth \in 1 .. hi
  BY DEF Once
<1>2. ASSUME NEW i \in 1 .. Len(q), NEW j \in 1 .. Len(q), t[i] \in mine, t[j] \in mine,
             t[i].nth = t[j].nth
      PROVE  i = j
  <2>1. f[i] = f[j]
    BY <1>2 DEF Once
  <2> QED
    BY <2>1
<1>3. \A i \in 1 .. Len(done), j \in 1 .. Len(q) : t[j] \in mine => done[i].nth # t[j].nth
  BY DEF Once
<1> QED
  BY <1>1, <1>2, <1>3 DEF Once

\* Nothing is missing: each number up to hi is that of one in done, or of one of
\* those of q that are in mine.
Covered(done, q, mine, hi) ==
    \A n \in 1 .. hi : \/ \E i \in 1 .. Len(done) : done[i].nth = n
                       \/ \E i \in 1 .. Len(q) : q[i] \in mine /\ q[i].nth = n

LEMMA CoveredEmpty == ASSUME NEW mine PROVE Covered(<<>>, <<>>, mine, 0)
BY DEF Covered

LEMMA CoveredAppend ==
    ASSUME NEW E, NEW done, NEW q \in Seq(E), NEW mine, NEW hi \in Nat, Covered(done, q, mine, hi),
           NEW x \in E
    PROVE  /\ x \in mine /\ x.nth = hi + 1 => Covered(done, Append(q, x), mine, hi + 1)
           /\ Covered(done, Append(q, x), mine, hi)
<1>1. PICK longer : longer = Append(q, x)
  OBVIOUS
<1>2. PICK k \in Nat : k = Len(q)
  OBVIOUS
<1>3. Len(longer) = k + 1 /\ longer[k + 1] = x /\ \A i \in 1 .. k : longer[i] = q[i]
  BY <1>1, <1>2
<1>4. Covered(done, longer, mine, hi)
  <2>1. \A i \in 1 .. k : i \in 1 .. k + 1
    BY <1>2
  <2> QED
    BY <1>2, <1>3, <2>1 DEF Covered
<1>5. ASSUME x \in mine, x.nth = hi + 1 PROVE Covered(done, longer, mine, hi + 1)
  <2>1. \A n \in 1 .. hi + 1 : n \in 1 .. hi \/ n = hi + 1
    OBVIOUS
  <2>2. k + 1 \in 1 .. Len(longer) /\ longer[k + 1] \in mine /\ longer[k + 1].nth = hi + 1
    BY <1>2, <1>3, <1>5
  <2> QED
    BY <1>4, <2>1, <2>2 DEF Covered
<1> QED
  BY <1>1, <1>4, <1>5

LEMMA CoveredTail ==
    ASSUME NEW E, NEW done \in Seq(E), NEW q \in Seq(E), q # <<>>, NEW mine, NEW hi,
           Covered(done, q, mine, hi)
    PROVE  /\ Covered(Append(done, Head(q)), Tail(q), mine, hi)
           /\ Head(q) \notin mine => Covered(done, Tail(q), mine, hi)
<1>1. PICK t, x, more : t = Tail(q) /\ x = Head(q) /\ more = Append(done, x)
  OBVIOUS
<1>2. PICK n, m \in Nat : n = Len(done) /\ m = Len(t) /\ Len(q) = m + 1
  <2>1. Len(done) \in Nat /\ Len(t) \in Nat /\ Len(q) = Len(t) + 1
    BY <1>1
  <2> QED
    BY <2>1
<1>3. x = q[1] /\ \A i \in 1 .. m : t[i] = q[i + 1]
  BY <1>1, <1>2
<1>4. Len(more) = n + 1 /\ more[n + 1] = x /\ \A i \in 1 .. n : more[i] = done[i]
  <2>1. x \in E
    BY <1>1
  <2> QED
    BY <1>1, <1>2, <2>1
<1>5. ASSUME NEW i \in 1 .. Len(q), i # 1 PROVE \E j \in 1 .. m : t[j] = q[i]
  <2>1. i - 1 \in 1 .. m /\ (i - 1) + 1 = i
    BY <1>2, <1>5
  <2>2. t[i - 1] = q[i]
    BY <1>3, <2>1
  <2> QED
    BY <2>1, <2>2
<1>6. ASSUME x \notin mine PROVE Covered(done, t, mine, hi)
  <2>1. ASSUME NEW k \in 1 .. hi
        PROVE  \/ \E i \in 1 .. Len(done) : done[i].nth = k
               \/ \E i \in 1 .. m : t[i] \in mine /\ t[i].nth = k
    <3>1. ASSUME NEW i \in 1 .. Len(q), q[i] \in mine, q[i].nth = k
          PROVE  \E j \in 1 .. m : t[j] \in mine /\ t[j].nth = k
      <4>1. PICK j \in 1 .. m : t[j] = q[i]
        BY <1>3, <1>5, <1>6, <3>1
      <4> QED
        BY <3>1, <4>1
    <3> QED
      BY <3>1 DEF Covered
  <2> QED
    BY <1>2, <2>1 DEF Covered
<1>7. Covered(more, t, mine, hi)
  <2>1. \A i \in 1 .. n : i \in 1 .. n + 1
    BY <1>2
  <2>2. n + 1 \in 1 .. n + 1
    BY <1>2
  <2>3. ASSUME NEW k \in 1 .. hi
        PROVE  \/ \E i \in 1 .. n + 1 : more[i].nth = k
               \/ \E i \in 1 .. m : t[i] \in mine /\ t[i].nth = k
    <3>1. CASE \E i \in 1 .. n : done[i].nth = k
      BY <1>4, <2>1, <3>1
    <3>2. ASSUME NEW i \in 1 .. Len(q), q[i] \in mine, q[i].nth = k
          PROVE  \/ \E j \in 1 .. n + 1 : more[j].nth = k
                 \/ \E j \in 1 .. m : t[j] \in mine /\ t[j].nth = k
      BY <1>3, <1>4, <1>5, <2>2, <3>2
    <3> QED
      BY <1>2, <3>1, <3>2 DEF Covered
  <2> QED
    BY <1>2, <1>4, <2>3 DEF Covered
<1> QED
  BY <1>1, <1>6, <1>7

LEMMA CoveredPermuted ==
    ASSUME NEW done, NEW q, NEW mine, NEW hi, Covered(done, q, mine, hi),
           NEW t, Len(t) = Len(q), \A j \in 1 .. Len(q) : \E i \in 1 .. Len(q) : t[i] = q[j]
    PROVE  Covered(done, t, mine, hi)
<1>1. ASSUME NEW n \in 1 .. hi
      PROVE  \/ \E i \in 1 .. Len(done) : done[i].nth = n
             \/ \E i \in 1 .. Len(q) : t[i] \in mine /\ t[i].nth = n
  <2>1. ASSUME NEW j \in 1 .. Len(q), q[j] \in mine, q[j].nth = n
        PROVE  \E i \in 1 .. Len(q) : t[i] \in mine /\ t[i].nth = n
    <3>1. PICK i \in 1 .. Len(q) : t[i] = q[j]
      OBVIOUS
    <3> QED
      BY <2>1, <3>1
  <2> QED
    BY <2>1 DEF Covered
<1> QED
  BY <1>1 DEF Covered
----------------------------------------------------------------------------
(* The invariant.                                                           *)

\* A request is numbered as its gateway counts it, a response as the engine does.
Requests == [client_id_ : Clients, from : Gateways \cup {Spliced}, nth : Nat \ {0}]
RequestsOf(g) ==
    {r \in [seq_num_ : Nat \ {0}, client_id_ : Clients, from : Gateways, nth : Nat \ {0}] :
        r.from = g /\ r.nth = r.seq_num_}
Responses == [client_id_ : Clients, nth : Nat \ {0}, answers : Nat]
Sequenced == [seq_num_ : Nat \ {0}, client_id_ : Clients, nth : Nat \ {0}, answers : Nat]
Numbered == {r \in Sequenced : r.nth = r.seq_num_}
Passed == [client_id_ : Clients, nth : Nat \cup {Spliced}, answers : Nat \cup {Spliced}]

\* What the engine is given of a client, and what it answers.
From(c) == {r \in Requests : r.client_id_ = c}
To(c) == {r \in Responses : r.client_id_ = c}

\* The strategy has been given the first responses to its client.
Received(g, responses, next, cut) ==
    /\ responses \in Seq(Passed)
    /\ \A i \in 1 .. Len(responses) :
          /\ responses[i].client_id_ = ClientOf[g]
          /\ responses[i].nth = i \/ (responses[i].nth = Spliced /\ <<"down", g>> \in cut)
    /\ next = Len(responses) + 1

\* What is under way belongs to a client that has a socket: requests that came
\* through it, of which only a torn stream has made two into one, and responses.
Through(g, r, cut) == r.from = g \/ (r.from = Spliced /\ <<"up", g>> \in cut)
Known(sockets, cut) ==
    {r \in Requests : /\ sockets[r.client_id_] \in Gateways
                      /\ Through(sockets[r.client_id_], r, cut)}
Answerable(sockets) == {r \in Responses : sockets[r.client_id_] \in Gateways}

GatewaysTyped ==
    /\ connected \in [Gateways -> BOOLEAN]
    /\ next_outgoing_seq_num_ \in [Gateways -> Nat \ {0}]
    /\ DOMAIN next_exp_seq_num_ = Gateways
    /\ DOMAIN incoming_responses_ = Gateways
    /\ \A g \in Gateways : Received(g, incoming_responses_[g], next_exp_seq_num_[g], torn)

StreamsTyped ==
    /\ DOMAIN upstream = Gateways
    /\ DOMAIN downstream = Gateways
    /\ server_outbound \in [Gateways -> Seq(Numbered)]
    /\ \A g \in Gateways : Stream(upstream[g], RequestsOf(g), <<"up", g>> \notin torn)
    /\ \A g \in Gateways : Stream(downstream[g], Numbered, <<"down", g>> \notin torn)

ServerTyped ==
    /\ backlog \in Seq(Gateways)
    /\ receive_sockets_ \in Seq(Gateways)
    /\ visiting \in 0 .. Len(receive_sockets_) + 2
    /\ cid_tcp_sockets_ \in [Clients -> Gateways \cup {None}]
    /\ cid_next_exp_seq_num_ \in [Clients -> Nat \ {0}]
    /\ cid_next_outgoing_seq_num_ \in [Clients -> Nat \ {0}]
    /\ Len(pending_client_requests_) <= ME_MAX_PENDING_REQUESTS
    /\ reordered \in BOOLEAN

Owned ==
    /\ pending_client_requests_ \in Seq(Known(cid_tcp_sockets_, torn))
    /\ client_requests \in Seq(Known(cid_tcp_sockets_, torn))
    /\ client_responses \in Seq(Answerable(cid_tcp_sockets_))
    /\ DOMAIN processed = Clients
    /\ \A c \in Clients : processed[c] \in Seq(Known(cid_tcp_sockets_, torn) \cap From(c))
    /\ SocketKnown

\* The responses that wait to be sent have the numbers that come next.
Numbering ==
    /\ responded \in [Clients -> Nat]
    /\ \A c \in Clients :
          InTurn(client_responses, To(c), cid_next_outgoing_seq_num_[c], responded[c])

\* A request that the engine has taken is not on its way to it, and none of those
\* that are is there twice.
OnlyOnce ==
    \A c \in Clients :
        Once(processed[c], client_requests \o pending_client_requests_, From(c),
             cid_next_exp_seq_num_[c] - 1)

\* Those on their way are the ones between what the engine has taken and what the
\* server expects.
Underway ==
    \A c \in Clients :
        InTurn(client_requests \o pending_client_requests_, From(c),
               Len(processed[c]) + 1, cid_next_exp_seq_num_[c] - 1)

\* They are all there.
NoneMissing ==
    \A c \in Clients :
        Covered(processed[c], client_requests \o pending_client_requests_, From(c),
                cid_next_exp_seq_num_[c] - 1)

Ordered ==
    /\ server = "running" => NoneMissing
    /\ ~reordered =>
          /\ \A c \in Clients : \A i \in 1 .. Len(processed[c]) : processed[c][i].nth = i
          /\ server = "running" => Underway

IInv ==
    GatewaysTyped /\ StreamsTyped /\ ServerTyped /\ Owned /\ Numbering /\ OnlyOnce /\ Ordered
----------------------------------------------------------------------------
(* It is inductive.                                                         *)

\* More gets known: a client keeps its socket, and what is torn stays torn.
LEMMA KnownGrows ==
    ASSUME NEW sockets, NEW sockets2, NEW cut, NEW cut2, cut \subseteq cut2,
           \A c \in Clients : sockets[c] \in Gateways => sockets2[c] = sockets[c]
    PROVE  /\ Known(sockets, cut) \subseteq Known(sockets2, cut2)
           /\ Answerable(sockets) \subseteq Answerable(sockets2)
<1>1. ASSUME NEW r \in Known(sockets, cut) PROVE r \in Known(sockets2, cut2)
  <2>1. /\ r \in Requests /\ r.client_id_ \in Clients /\ sockets[r.client_id_] \in Gateways
        /\ Through(sockets[r.client_id_], r, cut)
    BY <1>1 DEF Known, Requests
  <2>2. sockets2[r.client_id_] = sockets[r.client_id_]
    BY <2>1
  <2>3. Through(sockets[r.client_id_], r, cut2)
    BY <2>1 DEF Through
  <2> QED
    BY <2>1, <2>2, <2>3 DEF Known
<1>2. ASSUME NEW r \in Answerable(sockets) PROVE r \in Answerable(sockets2)
  <2>1. r \in Responses /\ r.client_id_ \in Clients /\ sockets[r.client_id_] \in Gateways
    BY <1>2 DEF Answerable, Responses
  <2>2. sockets2[r.client_id_] = sockets[r.client_id_]
    BY <2>1
  <2> QED
    BY <2>1, <2>2 DEF Answerable
<1> QED
  BY <1>1, <1>2

LEMMA ReceivedStays ==
    ASSUME NEW g, NEW responses, NEW next, NEW cut, Received(g, responses, next, cut),
           NEW cut2, cut \subseteq cut2
    PROVE  Received(g, responses, next, cut2)
BY DEF Received

\* Requests that are known are requests.
LEMMA OwnedRequests ==
    ASSUME IInv
    PROVE  /\ pending_client_requests_ \in Seq(Requests) /\ client_requests \in Seq(Requests)
           /\ client_requests \o pending_client_requests_ \in Seq(Requests)
           /\ \A c \in Clients : processed[c] \in Seq(Requests)
<1>1. Known(cid_tcp_sockets_, torn) \subseteq Requests
  BY DEF Known
<1>2. pending_client_requests_ \in Seq(Requests) /\ client_requests \in Seq(Requests)
  BY <1>1, SeqMono DEF IInv, Owned
<1>3. ASSUME NEW c \in Clients PROVE processed[c] \in Seq(Requests)
  <2>1. Known(cid_tcp_sockets_, torn) \cap From(c) \subseteq Requests
    BY <1>1
  <2>2. processed[c] \in Seq(Known(cid_tcp_sockets_, torn) \cap From(c))
    BY DEF IInv, Owned
  <2> QED
    BY <2>1, <2>2, SeqMono
<1> QED
  BY <1>2, <1>3

LEMMA InitInv == ASSUME Init PROVE IInv
<1> USE OrderSessionAssumption DEF Init, Gateway!Init, Server!Init
<1>1. GatewaysTyped
  <2>1. \A g \in Gateways : Received(g, <<>>, 1, torn)
    BY DEF Received
  <2> QED
    BY <2>1 DEF GatewaysTyped
<1>2. StreamsTyped
  BY StreamEmpty, SeqEmpty DEF StreamsTyped
<1>3. ServerTyped
  <2>1. /\ backlog \in Seq(Gateways) /\ receive_sockets_ \in Seq(Gateways)
        /\ Len(receive_sockets_) = 0 /\ Len(pending_client_requests_) = 0
        /\ visiting = 0 /\ reordered = FALSE
    OBVIOUS
  <2>2. visiting \in 0 .. Len(receive_sockets_) + 2
    BY <2>1
  <2>3. /\ cid_tcp_sockets_ \in [Clients -> Gateways \cup {None}]
        /\ cid_next_exp_seq_num_ \in [Clients -> Nat \ {0}]
        /\ cid_next_outgoing_seq_num_ \in [Clients -> Nat \ {0}]
    OBVIOUS
  <2>4. reordered \in BOOLEAN
    BY <2>1
  <2>5. Len(pending_client_requests_) <= ME_MAX_PENDING_REQUESTS
    BY <2>1
  <2> QED
    BY <2>1, <2>2, <2>3, <2>4, <2>5, Zenon DEF ServerTyped
<1>4. Owned
  <2>1. SocketKnown
    BY Zenon DEF SocketKnown
  <2> QED
    BY <2>1 DEF Owned
<1>5. Numbering
  <2>1. \A c \in Clients : InTurn(<<>>, To(c), 0 + 1, 0)
    BY InTurnEmpty
  <2> QED
    BY <2>1 DEF Numbering
<1>6. client_requests \o pending_client_requests_ = <<>>
      /\ \A c \in Clients : processed[c] = <<>> /\ cid_next_exp_seq_num_[c] = 1
  OBVIOUS
<1>7. OnlyOnce
  BY <1>6, OnceEmpty DEF OnlyOnce
<1>8. Ordered
  <2>1. \A c \in Clients : InTurn(<<>>, From(c), 0 + 1, 0)
    BY InTurnEmpty
  <2> QED
    BY <1>6, <2>1, CoveredEmpty DEF Ordered, Underway, NoneMissing
<1> QED
  BY <1>1, <1>2, <1>3, <1>4, <1>5, <1>7, <1>8 DEF IInv

\* What concerns requests and responses on their way, while the sockets and the
\* gateways are left alone or more of them known.
LEMMA QueuesStay ==
    ASSUME IInv, torn \subseteq torn',
           UNCHANGED <<cid_tcp_sockets_, cid_next_exp_seq_num_, cid_next_outgoing_seq_num_,
                       pending_client_requests_, client_requests, client_responses, server,
                       reordered, processed, responded>>
    PROVE  Owned' /\ Numbering' /\ OnlyOnce' /\ Ordered'
<1>1. Known(cid_tcp_sockets_, torn) \subseteq Known(cid_tcp_sockets_, torn)'
  BY KnownGrows
<1>2. Answerable(cid_tcp_sockets_)' = Answerable(cid_tcp_sockets_)
  BY DEF Answerable
<1>3. Owned'
  <2>1. /\ pending_client_requests_ \in Seq(Known(cid_tcp_sockets_, torn)')
        /\ client_requests \in Seq(Known(cid_tcp_sockets_, torn)')
    BY <1>1, SeqMono DEF IInv, Owned
  <2>2. ASSUME NEW c \in Clients
        PROVE  processed[c] \in Seq(Known(cid_tcp_sockets_, torn)' \cap From(c))
    <3>1. processed[c] \in Seq(Known(cid_tcp_sockets_, torn) \cap From(c))
      BY DEF IInv, Owned
    <3>2. Known(cid_tcp_sockets_, torn) \cap From(c)
            \subseteq Known(cid_tcp_sockets_, torn)' \cap From(c)
      BY <1>1
    <3> QED
      BY <3>1, <3>2, SeqMono
  <2>3. SocketKnown'
    BY Zenon DEF IInv, Owned, SocketKnown
  <2> QED
    BY <1>2, <2>1, <2>2, <2>3 DEF IInv, Owned
<1>4. Numbering'
  BY DEF IInv, Numbering
<1>5. OnlyOnce'
  BY DEF IInv, OnlyOnce
<1>6. Ordered'
  BY DEF IInv, Ordered, Underway, NoneMissing
<1> QED
  BY <1>3, <1>4, <1>5, <1>6

LEMMA ConnectInv ==
    ASSUME NEW g \in Gateways, IInv, Connect(g) PROVE IInv'
<1>1. /\ connected' = [connected EXCEPT ![g] = TRUE] /\ backlog' = Append(backlog, g)
      /\ UNCHANGED <<next_outgoing_seq_num_, next_exp_seq_num_, incoming_responses_,
                     torn, upstream, downstream>>
      /\ UNCHANGED <<receive_sockets_, visiting, cid_tcp_sockets_, cid_next_exp_seq_num_,
                     cid_next_outgoing_seq_num_, pending_client_requests_, server_outbound,
                     client_requests, client_responses, server, reordered, processed, responded>>
  BY DEF Connect, Gateway!Established, Server!Connected, engineVars
<1>2. GatewaysTyped'
  BY <1>1 DEF IInv, GatewaysTyped
<1>3. StreamsTyped'
  BY <1>1 DEF IInv, StreamsTyped
<1>4. ServerTyped'
  BY <1>1 DEF IInv, ServerTyped
<1>5. Owned' /\ Numbering' /\ OnlyOnce' /\ Ordered'
  BY <1>1, QueuesStay
<1> QED
  BY <1>2, <1>3, <1>4, <1>5 DEF IInv

LEMMA PollInv == ASSUME IInv, Server!Poll, UNCHANGED <<gatewayVars, engineVars>> PROVE IInv'
<1>1. /\ UNCHANGED <<cid_tcp_sockets_, cid_next_exp_seq_num_, cid_next_outgoing_seq_num_,
                     pending_client_requests_, server_outbound, client_requests,
                     client_responses, server, reordered, torn, upstream, downstream>>
      /\ UNCHANGED <<connected, next_outgoing_seq_num_, next_exp_seq_num_, incoming_responses_,
                     processed, responded>>
      /\ visiting' = 1
  BY DEF Server!Poll, gatewayVars, engineVars
<1>2. \/ backlog' = <<>> /\ receive_sockets_' = receive_sockets_ \o backlog
      \/ backlog' = backlog /\ receive_sockets_' = receive_sockets_
  BY DEF Server!Poll, Server!Accept, Server!AcceptMissed
<1>3. GatewaysTyped'
  BY <1>1 DEF IInv, GatewaysTyped
<1>4. StreamsTyped'
  BY <1>1 DEF IInv, StreamsTyped
<1>5. ServerTyped'
  <2>1. backlog' \in Seq(Gateways) /\ receive_sockets_' \in Seq(Gateways)
    <3>1. backlog \in Seq(Gateways) /\ receive_sockets_ \in Seq(Gateways) /\ <<>> \in Seq(Gateways)
      BY DEF IInv, ServerTyped
    <3>2. receive_sockets_ \o backlog \in Seq(Gateways)
      BY <3>1
    <3> QED
      BY <1>2, <3>1, <3>2
  <2>2. visiting' \in 0 .. Len(receive_sockets_') + 2
    <3>1. PICK n \in Nat : n = Len(receive_sockets_')
      BY <2>1
    <3> QED
      BY <1>1, <3>1
  <2> QED
    BY <1>1, <2>1, <2>2 DEF IInv, ServerTyped
<1>6. Owned' /\ Numbering' /\ OnlyOnce' /\ Ordered'
  BY <1>1, QueuesStay
<1> QED
  BY <1>3, <1>4, <1>5, <1>6 DEF IInv
----------------------------------------------------------------------------
(* The gateway.                                                             *)

\* What recvCallback may have come to after any number of records.
Delivering(g) ==
    {now \in [left : Seq(PartsOf(Numbered)), expected : Nat \ {0}, responses : Seq(Passed)] :
        /\ Stream(now.left, Numbered, <<"down", g>> \notin torn)
        /\ Received(g, now.responses, now.expected, torn)}

LEMMA ReceivedMore ==
    ASSUME NEW g, NEW responses, NEW next, NEW cut, Received(g, responses, next, cut),
           NEW r \in Passed, r.client_id_ = ClientOf[g],
           r.nth = next \/ (r.nth = Spliced /\ <<"down", g>> \in cut)
    PROVE  Received(g, Append(responses, r), next + 1, cut) /\ next \in Nat \ {0}
<1>1. PICK n \in Nat : n = Len(responses) /\ next = n + 1
  BY DEF Received
<1>2. PICK more : more = Append(responses, r)
  OBVIOUS
<1>3. /\ more \in Seq(Passed) /\ Len(more) = n + 1 /\ more[n + 1] = r
      /\ \A i \in 1 .. n : more[i] = responses[i]
  BY <1>1, <1>2 DEF Received
<1>4. \A i \in 1 .. n + 1 : i \in 1 .. n \/ i = n + 1
  BY <1>1
<1>5. ASSUME NEW i \in 1 .. n + 1
      PROVE  /\ more[i].client_id_ = ClientOf[g]
             /\ more[i].nth = i \/ (more[i].nth = Spliced /\ <<"down", g>> \in cut)
  <2>1. CASE i \in 1 .. n
    BY <1>1, <1>3, <2>1 DEF Received
  <2>2. CASE i = n + 1
    BY <1>1, <1>3, <2>2
  <2> QED
    BY <1>4, <2>1, <2>2
<1>6. next + 1 = Len(more) + 1 /\ next \in Nat \ {0}
  BY <1>1, <1>3
<1>7. Len(more) = n + 1
  BY <1>3
<1> QED
  BY <1>2, <1>3, <1>5, <1>6, <1>7 DEF Received

\* The response in a record that is accepted is the next one, or made up of two.
LEMMA ResponseIs ==
    ASSUME NEW g \in Gateways, NEW s, Stream(s, Numbered, <<"down", g>> \notin torn), HasRecord(s),
           NEW expected, NEW c \in ClientIds(Record(s)),
           expected \in SeqNums(Record(s), expected), c = ClientOf[g]
    PROVE  /\ Gateway!Response(Record(s), c) \in Passed
           /\ Gateway!Response(Record(s), c).client_id_ = ClientOf[g]
           /\ \/ Gateway!Response(Record(s), c).nth = expected
              \/ Gateway!Response(Record(s), c).nth = Spliced /\ <<"down", g>> \in torn
<1>1. PICK record, r : record = Record(s) /\ r = Gateway!Response(record, c)
  OBVIOUS
<1>2. c \in Clients /\ c = ClientOf[g]
  BY OrderSessionAssumption
<1>3. CASE Intact(record)
  <2>1. PICK m \in Numbered : /\ record[1].of = m
                              /\ \A e : SeqNums(record, e) = {m.seq_num_}
    <3>1. Intact(Record(s))
      BY <1>1, <1>3
    <3>2. \E m \in Numbered : /\ Record(s)[1].of = m
                              /\ ClientIds(Record(s)) = {m.client_id_}
                              /\ \A e : SeqNums(Record(s), e) = {m.seq_num_}
      BY <3>1, RecordIs
    <3> QED
      BY <1>1, <3>2
  <2>2. m.seq_num_ = expected
    BY <1>1, <2>1
  <2>3. m.nth = m.seq_num_ /\ m.nth \in Nat \ {0} /\ m.answers \in Nat
    BY <2>1 DEF Numbered, Sequenced
  <2>4. r = [client_id_ |-> c, nth |-> m.nth, answers |-> m.answers]
    BY <1>1, <1>3, <2>1, SameReading DEF Gateway!Response
  <2>5. r \in Passed /\ r.client_id_ = c /\ r.nth = m.nth
    BY <1>2, <2>3, <2>4 DEF Passed
  <2> QED
    BY <1>1, <1>2, <2>2, <2>3, <2>5
<1>4. CASE ~Intact(record)
  <2>1. <<"down", g>> \in torn
    BY <1>1, <1>4, RecordIs
  <2>2. r = [client_id_ |-> c, nth |-> Spliced, answers |-> Spliced]
    BY <1>1, <1>4, SameReading DEF Gateway!Response
  <2>3. r \in Passed /\ r.client_id_ = c /\ r.nth = Spliced
    BY <1>2, <2>2 DEF Passed
  <2> QED
    BY <1>1, <1>2, <2>1, <2>3
<1> QED
  BY <1>3, <1>4

LEMMA GatewayTurn ==
    ASSUME NEW g \in Gateways, NEW now \in Delivering(g), NEW out \in Gateway!Turn(now, g)
    PROVE  out \in Delivering(g)
<1>1. PICK left, expected, responses :
        /\ now = [left |-> left, expected |-> expected, responses |-> responses]
        /\ left = now.left /\ expected = now.expected /\ responses = now.responses
  BY DEF Delivering
<1>2. /\ Stream(left, Numbered, <<"down", g>> \notin torn)
      /\ Received(g, responses, expected, torn)
      /\ expected \in Nat \ {0} /\ responses \in Seq(Passed)
  BY <1>1 DEF Delivering
<1>3. CASE ~HasRecord(left)
  BY <1>1, <1>3, SameReading DEF Gateway!Turn
<1>4. CASE HasRecord(left)
  <2>1. PICK record, rest : record = Record(left) /\ rest = Rest(left)
    OBVIOUS
  <2>2. PICK next : next = [left |-> rest, expected |-> expected, responses |-> responses]
    OBVIOUS
  <2>3. Stream(rest, Numbered, <<"down", g>> \notin torn) /\ rest \in Seq(PartsOf(Numbered))
    BY <1>2, <1>4, <2>1, RecordIs DEF Stream
  <2>4. next \in Delivering(g)
    BY <1>2, <2>2, <2>3 DEF Delivering
  <2>5. PICK c \in ClientIds(record), seq_num \in SeqNums(record, expected) :
          out = Gateway!Check(next, g, c, seq_num, record)
    <3>1. /\ Gateway!TCP!Record(now.left) = record
          /\ [now EXCEPT !.left = Gateway!TCP!Rest(now.left)] = next
      BY <1>1, <2>1, <2>2, SameReading
    <3>2. out \in {Gateway!Check(next, g, c, seq_num, record) :
                     c \in ClientIds(record), seq_num \in SeqNums(record, expected)}
      BY <1>1, <1>4, <3>1, SameReading DEF Gateway!Turn
    <3> QED
      BY <3>2
  <2>6. CASE ~(c = ClientOf[g] /\ seq_num = expected)
    <3>1. out = next
      BY <2>2, <2>5, <2>6 DEF Gateway!Check, Gateway!Accepted
    <3> QED
      BY <2>4, <3>1
  <2>7. CASE c = ClientOf[g] /\ seq_num = expected
    <3>1. PICK r : r = Gateway!Response(record, c)
      OBVIOUS
    <3>2. out = [left |-> rest, expected |-> expected + 1, responses |-> Append(responses, r)]
      BY <2>2, <2>5, <2>7, <3>1 DEF Gateway!Check, Gateway!Accepted
    <3>3. /\ r \in Passed /\ r.client_id_ = ClientOf[g]
          /\ r.nth = expected \/ (r.nth = Spliced /\ <<"down", g>> \in torn)
      BY <1>2, <1>4, <2>1, <2>5, <2>7, <3>1, ResponseIs
    <3>4. Received(g, Append(responses, r), expected + 1, torn)
      BY <1>2, <3>3, ReceivedMore
    <3>5. expected + 1 \in Nat \ {0} /\ Append(responses, r) \in Seq(Passed)
      BY <1>2, <3>3
    <3> QED
      BY <2>3, <3>2, <3>4, <3>5 DEF Delivering
  <2> QED
    BY <2>6, <2>7
<1> QED
  BY <1>3, <1>4

LEMMA GatewayReads ==
    ASSUME IInv, NEW g \in Gateways, NEW k \in Nat, NEW out \in Gateway!RecvCallback(g, k)
    PROVE  out \in Delivering(g)
<1> DEFINE first == [left |-> downstream[g], expected |-> next_exp_seq_num_[g],
                     responses |-> incoming_responses_[g]]
           V == SUBSET Delivering(g)
           step == [i \in 1 .. k |-> [A \in V |-> UNION {Gateway!Turn(now, g) : now \in A}]]
           Is(t) == t = [i \in 0 .. k |->
                IF i = 0 THEN {first} ELSE UNION {Gateway!Turn(now, g) : now \in t[i - 1]}]
           after == CHOOSE t : Is(t)
<1>1. {first} \in V
  <2>1. /\ Received(g, incoming_responses_[g], next_exp_seq_num_[g], torn)
        /\ Stream(downstream[g], Numbered, <<"down", g>> \notin torn)
    BY DEF IInv, GatewaysTyped, StreamsTyped
  <2>2. /\ incoming_responses_[g] \in Seq(Passed) /\ next_exp_seq_num_[g] \in Nat \ {0}
        /\ downstream[g] \in Seq(PartsOf(Numbered))
    BY <2>1 DEF Received, Stream
  <2> QED
    BY <2>1, <2>2 DEF Delivering
<1>2. ASSUME NEW A \in V PROVE UNION {Gateway!Turn(now, g) : now \in A} \in V
  BY <1>2, GatewayTurn
<1>3. step \in [1 .. k -> [V -> V]]
  <2> HIDE DEF V
  <2> QED
    BY <1>2
<1>4. \E t : Is(t)
  <2>1. PICK f \in [0 .. k -> V] : Recursive(f, k, {first}, step)
    <3> HIDE DEF V, step, first
    <3> QED
      BY <1>1, <1>3, RecursionExists
  <2>2. ASSUME NEW i \in 0 .. k, i # 0
        PROVE  step[i][f[i - 1]] = UNION {Gateway!Turn(now, g) : now \in f[i - 1]}
    <3>1. i \in 1 .. k /\ i - 1 \in 0 .. k
      BY <2>2
    <3> HIDE DEF V
    <3> QED
      BY <2>1, <3>1
  <2>3. Is(f)
    <3> HIDE DEF V, step, first
    <3> QED
      BY <2>1, <2>2 DEF Recursive
  <2> QED
    BY <2>3
<1>5. Is(after)
  <2> HIDE DEF Is
  <2> QED
    BY <1>4
<1>6. /\ after[0] = {first}
      /\ \A i \in 1 .. k : after[i] = UNION {Gateway!Turn(now, g) : now \in after[i - 1]}
  <2>1. 0 \in 0 .. k /\ \A i \in 1 .. k : i \in 0 .. k /\ i # 0
    OBVIOUS
  <2> HIDE DEF after, first
  <2> QED
    BY <1>5, <2>1
<1>7. \A i \in 0 .. k : after[i] \in V
  <2> DEFINE S == {i \in 0 .. k : after[i] \in V}
  <2>1. 0 \in S
    <3> HIDE DEF after, V, first
    <3> QED
      BY <1>1, <1>6
  <2>2. ASSUME NEW i \in 1 .. k, i - 1 \in S PROVE i \in S
    <3> HIDE DEF after, V
    <3>1. after[i - 1] \in V /\ i \in 0 .. k
      BY <2>2
    <3>2. after[i] = UNION {Gateway!Turn(now, g) : now \in after[i - 1]}
      BY <1>6
    <3>3. after[i] \in V
      BY <1>2, <3>1, <3>2
    <3> QED
      BY <3>1, <3>3
  <2>3. \A i \in 0 .. k : i \in S
    <3> HIDE DEF S
    <3> QED
      BY <2>1, <2>2, InductionUpTo
  <2> QED
    BY <2>3
<1>8. Gateway!RecvCallback(g, k) = after[k]
  BY DEF Gateway!RecvCallback
<1>9. k \in 0 .. k
  OBVIOUS
<1>10. after[k] \in V
  <2> HIDE DEF after, V
  <2> QED
    BY <1>7, <1>9
<1> HIDE DEF after
<1> QED
  BY <1>8, <1>10

LEMMA RequestsNumbered ==
    ASSUME NEW g \in Gateways, NEW n \in Nat, next_outgoing_seq_num_[g] \in Nat \ {0}
    PROVE  Gateway!Requests(g, n) \in Seq(RequestsOf(g))
<1>1. PICK first \in Nat \ {0} : first = next_outgoing_seq_num_[g]
  OBVIOUS
<1>2. ClientOf[g] \in Clients
  BY OrderSessionAssumption
<1>3. \A i \in 1 .. n : [seq_num_ |-> first + i - 1, client_id_ |-> ClientOf[g], from |-> g,
                         nth |-> first + i - 1] \in RequestsOf(g)
  BY <1>2 DEF RequestsOf
<1> QED
  BY <1>1, <1>3 DEF Gateway!Requests

LEMMA GatewayStepInv ==
    ASSUME NEW g \in Gateways, IInv, GatewayStep(g) PROVE IInv'
<1>1. PICK n \in 0 .. MaxRequests : Gateway!Run(g, n)
  BY Zenon DEF GatewayStep
<1>2. n \in Nat
  BY OrderSessionAssumption
<1>3. UNCHANGED <<connected, backlog, receive_sockets_, visiting, cid_tcp_sockets_,
                  cid_next_exp_seq_num_, cid_next_outgoing_seq_num_, pending_client_requests_,
                  server_outbound, client_requests, client_responses, server, reordered,
                  processed, responded>>
  BY <1>1, Zenon DEF GatewayStep, Gateway!Run, serverVars, engineVars
<1>4. PICK k \in Readable(downstream[g]) : \E now \in Gateway!RecvCallback(g, k) :
        /\ downstream' = [downstream EXCEPT ![g] = now.left]
        /\ next_exp_seq_num_' = [next_exp_seq_num_ EXCEPT ![g] = now.expected]
        /\ incoming_responses_' = [incoming_responses_ EXCEPT ![g] = now.responses]
  <2>1. Gateway!TCP!Readable(downstream[g]) = Readable(downstream[g])
    BY SameReading
  <2> QED
    BY <1>1, <2>1, Zenon DEF Gateway!Run
<1>5. PICK now \in Gateway!RecvCallback(g, k) :
        /\ downstream' = [downstream EXCEPT ![g] = now.left]
        /\ next_exp_seq_num_' = [next_exp_seq_num_ EXCEPT ![g] = now.expected]
        /\ incoming_responses_' = [incoming_responses_ EXCEPT ![g] = now.responses]
  BY <1>4, Zenon
<1>6. PICK bytes : bytes = Wire(Gateway!Requests(g, n))
  OBVIOUS
<1>7. PICK taken \in Takes(bytes, connected[g]) :
        /\ upstream' = [upstream EXCEPT ![g] = Flushed(@, bytes, taken)]
        /\ torn' = IF Tears(bytes, taken) THEN torn \cup {<<"up", g>>} ELSE torn
  <2>1. \E taken \in Gateway!TCP!Takes(bytes, connected[g]) :
          /\ upstream' = [upstream EXCEPT ![g] = Gateway!TCP!Flushed(@, bytes, taken)]
          /\ torn' = IF Gateway!TCP!Tears(bytes, taken) THEN torn \cup {<<"up", g>>} ELSE torn
    <3>1. bytes = Gateway!TCP!Wire(Gateway!Requests(g, n))
      BY <1>6, SameSending
    <3> QED
      BY <1>1, <3>1, Zenon DEF Gateway!Run
  <2>2. /\ Gateway!TCP!Takes(bytes, connected[g]) = Takes(bytes, connected[g])
        /\ \A taken : /\ Gateway!TCP!Flushed(upstream[g], bytes, taken) = Flushed(upstream[g], bytes, taken)
                      /\ Gateway!TCP!Tears(bytes, taken) = Tears(bytes, taken)
    BY SameSending
  <2> QED
    BY <2>1, <2>2
<1>8. next_outgoing_seq_num_' = [next_outgoing_seq_num_ EXCEPT ![g] = @ + n]
  BY <1>1 DEF Gateway!Run
<1>9. torn \subseteq torn' /\ \A h \in Gateways : <<"down", h>> \notin torn' <=> <<"down", h>> \notin torn
  <2>1. \A h : <<"down", h>> # <<"up", g>>
    OBVIOUS
  <2> QED
    BY <1>7, <2>1
<1>10. now \in Delivering(g)
  <2>1. k \in Nat
    BY ReadableIs
  <2> QED
    BY <2>1, GatewayReads
<1>11. Stream(now.left, Numbered, <<"down", g>> \notin torn) /\ Received(g, now.responses, now.expected, torn)
  BY <1>10 DEF Delivering
<1>12. GatewaysTyped'
  <2>1. ASSUME NEW h \in Gateways PROVE Received(h, incoming_responses_'[h], next_exp_seq_num_'[h], torn')
    <3>1. Received(h, incoming_responses_'[h], next_exp_seq_num_'[h], torn)
      BY <1>5, <1>11 DEF IInv, GatewaysTyped
    <3> QED
      BY <1>9, <3>1, ReceivedStays
  <2>2. next_outgoing_seq_num_' \in [Gateways -> Nat \ {0}]
    BY <1>2, <1>8 DEF IInv, GatewaysTyped
  <2>3. DOMAIN next_exp_seq_num_' = Gateways /\ DOMAIN incoming_responses_' = Gateways
    BY <1>5 DEF IInv, GatewaysTyped
  <2> QED
    BY <1>3, <2>1, <2>2, <2>3 DEF IInv, GatewaysTyped
<1>13. Stream(Flushed(upstream[g], bytes, taken), RequestsOf(g), <<"up", g>> \notin torn')
  <2>1. bytes \in Seq(PartsOf(RequestsOf(g))) /\ InFrame(bytes)
    <3>1. Gateway!Requests(g, n) \in Seq(RequestsOf(g))
      BY <1>2, RequestsNumbered DEF IInv, GatewaysTyped
    <3> QED
      BY <1>6, <3>1, WireIs
  <2>2. Stream(upstream[g], RequestsOf(g), <<"up", g>> \notin torn)
    BY DEF IInv, StreamsTyped
  <2>3. Stream(Flushed(upstream[g], bytes, taken), RequestsOf(g),
               <<"up", g>> \notin torn /\ ~Tears(bytes, taken))
    BY <2>1, <2>2, FlushedIs
  <2>4. <<"up", g>> \notin torn' => <<"up", g>> \notin torn /\ ~Tears(bytes, taken)
    BY <1>7
  <2> QED
    BY <2>3, <2>4, StreamStays
<1>14. StreamsTyped'
  <2>1. ASSUME NEW h \in Gateways PROVE Stream(upstream'[h], RequestsOf(h), <<"up", h>> \notin torn')
    <3>1. CASE h = g
      BY <1>7, <1>13, <3>1 DEF IInv, StreamsTyped
    <3>2. CASE h # g
      <4>1. Stream(upstream[h], RequestsOf(h), <<"up", h>> \notin torn) /\ upstream'[h] = upstream[h]
        BY <1>7, <3>2 DEF IInv, StreamsTyped
      <4>2. <<"up", h>> \notin torn' => <<"up", h>> \notin torn
        BY <1>9
      <4> QED
        BY <4>1, <4>2, StreamStays
    <3> QED
      BY <3>1, <3>2
  <2>2. ASSUME NEW h \in Gateways PROVE Stream(downstream'[h], Numbered, <<"down", h>> \notin torn')
    <3>1. Stream(downstream'[h], Numbered, <<"down", h>> \notin torn)
      BY <1>5, <1>11 DEF IInv, StreamsTyped
    <3>2. <<"down", h>> \notin torn' => <<"down", h>> \notin torn
      BY <1>9
    <3> QED
      BY <3>1, <3>2, StreamStays
  <2>3. DOMAIN upstream' = Gateways /\ DOMAIN downstream' = Gateways
    BY <1>5, <1>7 DEF IInv, StreamsTyped
  <2> QED
    BY <1>3, <2>1, <2>2, <2>3 DEF IInv, StreamsTyped
<1>15. ServerTyped'
  BY <1>3 DEF IInv, ServerTyped
<1>16. Owned' /\ Numbering' /\ OnlyOnce' /\ Ordered'
  BY <1>3, <1>9, QueuesStay
<1> QED
  BY <1>12, <1>14, <1>15, <1>16 DEF IInv
----------------------------------------------------------------------------
(* The server reads a socket.                                               *)

Statuses == {"running", "Too many pending requests", "client id out of range"}

\* What recvCallback keeps whatever the records are.
Kept(g, left, sockets, expected, pending, status) ==
    /\ Stream(left, RequestsOf(g), <<"up", g>> \notin torn)
    /\ sockets \in [Clients -> Gateways \cup {None}]
    /\ \A c \in Clients : cid_tcp_sockets_[c] \in Gateways => sockets[c] = cid_tcp_sockets_[c]
    /\ expected \in [Clients -> Nat \ {0}]
    /\ pending \in Seq(Known(sockets, torn))
    /\ Len(pending) <= ME_MAX_PENDING_REQUESTS
    /\ status \in Statuses
    /\ \A c \in Clients :
          Once(processed[c], client_requests \o pending, From(c), expected[c] - 1)
    /\ status = "running" => \A c \in Clients :
          Covered(processed[c], client_requests \o pending, From(c), expected[c] - 1)
    /\ ~reordered /\ status = "running" => \A c \in Clients :
          InTurn(client_requests \o pending, From(c), Len(processed[c]) + 1, expected[c] - 1)

Reading(g) ==
    {now \in [left : Seq(PartsOf(RequestsOf(g))), sockets : [Clients -> Gateways \cup {None}],
              expected : [Clients -> Nat \ {0}], pending : Seq(Requests), server : Statuses] :
        Kept(g, now.left, now.sockets, now.expected, now.pending, now.server)}

LEMMA KeptIs ==
    ASSUME NEW g, NEW left, NEW sockets, NEW expected, NEW pending, NEW status,
           Kept(g, left, sockets, expected, pending, status)
    PROVE  [left |-> left, sockets |-> sockets, expected |-> expected, pending |-> pending,
            server |-> status] \in Reading(g)
<1>1. pending \in Seq(Requests)
  <2>1. Known(sockets, torn) \subseteq Requests
    BY DEF Known
  <2> QED
    BY <2>1, SeqMono DEF Kept
<1>2. /\ left \in Seq(PartsOf(RequestsOf(g))) /\ sockets \in [Clients -> Gateways \cup {None}]
      /\ expected \in [Clients -> Nat \ {0}] /\ status \in Statuses
  BY DEF Kept, Stream
<1> QED
  BY <1>1, <1>2 DEF Reading

\* The rest of the stream, with the same.
LEMMA KeptRest ==
    ASSUME NEW g, NEW left, NEW sockets, NEW expected, NEW pending, NEW status,
           Kept(g, left, sockets, expected, pending, status), HasRecord(left)
    PROVE  Kept(g, Rest(left), sockets, expected, pending, status)
<1>1. Stream(Rest(left), RequestsOf(g), <<"up", g>> \notin torn)
  BY RecordIs DEF Kept
<1> QED
  BY <1>1 DEF Kept

\* A client that has no socket gets one.
LEMMA KeptOwner ==
    ASSUME NEW g \in Gateways, NEW left, NEW sockets, NEW expected, NEW pending, NEW status,
           Kept(g, left, sockets, expected, pending, status), NEW c \in Clients,
           NEW owner, owner = IF sockets[c] = None THEN g ELSE sockets[c]
    PROVE  Kept(g, left, [sockets EXCEPT ![c] = owner], expected, pending, status)
<1>1. PICK sockets2 : sockets2 = [sockets EXCEPT ![c] = owner]
  OBVIOUS
<1>2. sockets \in [Clients -> Gateways \cup {None}] /\ None \notin Gateways
  BY OrderSessionAssumption DEF Kept
<1>3. /\ sockets2 \in [Clients -> Gateways \cup {None}]
      /\ \A d \in Clients : sockets[d] \in Gateways => sockets2[d] = sockets[d]
  BY <1>1, <1>2
<1>4. \A d \in Clients : cid_tcp_sockets_[d] \in Gateways => sockets2[d] = cid_tcp_sockets_[d]
  BY <1>3 DEF Kept
<1>5. pending \in Seq(Known(sockets2, torn))
  <2>1. Known(sockets, torn) \subseteq Known(sockets2, torn)
    BY <1>3, KnownGrows
  <2>2. pending \in Seq(Known(sockets, torn))
    BY DEF Kept
  <2> QED
    BY <2>1, <2>2, SeqMono
<1>6. Kept(g, left, sockets2, expected, pending, status)
  BY <1>3, <1>4, <1>5 DEF Kept
<1> QED
  BY <1>1, <1>6

\* The request that was expected is taken, or there is no room for it.
LEMMA KeptTaken ==
    ASSUME IInv, NEW g \in Gateways, NEW left, NEW sockets, NEW expected, NEW pending,
           Kept(g, left, sockets, expected, pending, "running"),
           NEW c \in Clients, sockets[c] = g, NEW x \in From(c), Through(g, x, torn),
           x.nth = expected[c]
    PROVE  /\ Len(pending) < ME_MAX_PENDING_REQUESTS =>
                 Kept(g, left, sockets, [expected EXCEPT ![c] = @ + 1], Append(pending, x), "running")
           /\ Kept(g, left, sockets, [expected EXCEPT ![c] = @ + 1], pending,
                   "Too many pending requests")
<1>1. PICK expected2, more, q : /\ expected2 = [expected EXCEPT ![c] = @ + 1]
                                /\ more = Append(pending, x) /\ q = client_requests \o pending
  OBVIOUS
<1>2. expected \in [Clients -> Nat \ {0}]
  BY DEF Kept
<1>3. /\ expected2 \in [Clients -> Nat \ {0}] /\ expected2[c] = expected[c] + 1
      /\ \A d \in Clients : d # c => expected2[d] = expected[d]
  BY <1>1, <1>2
<1>4. PICK hi \in Nat : hi = expected[c] - 1 /\ x.nth = hi + 1 /\ expected2[c] - 1 = hi + 1
  <2>1. PICK e \in Nat \ {0} : e = expected[c]
    BY <1>2
  <2>2. e - 1 \in Nat /\ e = (e - 1) + 1 /\ (e + 1) - 1 = (e - 1) + 1
    OBVIOUS
  <2> QED
    BY <1>3, <2>1, <2>2
<1>5. x \in Requests /\ x.client_id_ = c /\ \A d \in Clients : d # c => x \notin From(d)
  BY DEF From
<1>6. x \in Known(sockets, torn)
  BY <1>5 DEF Known
<1>7. /\ pending \in Seq(Known(sockets, torn)) /\ pending \in Seq(Requests)
      /\ client_requests \in Seq(Requests) /\ q \in Seq(Requests)
  <2>1. Known(sockets, torn) \subseteq Requests
    BY DEF Known
  <2>2. pending \in Seq(Known(sockets, torn))
    BY DEF Kept
  <2>3. pending \in Seq(Requests)
    BY <2>1, <2>2, SeqMono
  <2> QED
    BY <1>1, <2>2, <2>3, OwnedRequests
<1>8. client_requests \o more = Append(q, x)
  BY <1>1, <1>5, <1>7, ConcatAppend
<1>9. \A d \in Clients : Once(processed[d], q, From(d), expected[d] - 1)
  BY <1>1 DEF Kept
<1>10. /\ \A d \in Clients : Once(processed[d], Append(q, x), From(d), expected2[d] - 1)
       /\ \A d \in Clients : Once(processed[d], q, From(d), expected2[d] - 1)
  <2>1. /\ Once(processed[c], Append(q, x), From(c), hi + 1)
        /\ Once(processed[c], q, From(c), hi + 1)
    <3>1. Once(processed[c], q, From(c), hi)
      BY <1>4, <1>9
    <3> QED
      BY <1>4, <1>5, <1>7, <3>1, OnceAppend
  <2>2. ASSUME NEW d \in Clients, d # c PROVE Once(processed[d], Append(q, x), From(d), expected[d] - 1)
    <3>1. expected[d] - 1 \in Nat
      BY <1>2
    <3> QED
      BY <1>5, <1>7, <1>9, <2>2, <3>1, OnceAppend
  <2> QED
    BY <1>3, <1>4, <1>9, <2>1, <2>2
<1>11. ASSUME ~reordered
       PROVE  \A d \in Clients :
                 InTurn(Append(q, x), From(d), Len(processed[d]) + 1, expected2[d] - 1)
  <2>1. \A d \in Clients : InTurn(q, From(d), Len(processed[d]) + 1, expected[d] - 1)
    BY <1>1, <1>11 DEF Kept
  <2>2. InTurn(Append(q, x), From(c), Len(processed[c]) + 1, hi + 1)
    <3>1. InTurn(q, From(c), Len(processed[c]) + 1, hi)
      BY <1>4, <2>1
    <3> QED
      BY <1>4, <1>5, <1>7, <3>1, InTurnAppend
  <2>3. ASSUME NEW d \in Clients, d # c
        PROVE  InTurn(Append(q, x), From(d), Len(processed[d]) + 1, expected[d] - 1)
    BY <1>5, <1>7, <2>1, <2>3, InTurnAppend
  <2> QED
    BY <1>3, <1>4, <2>2, <2>3
<1>12. ASSUME NEW d \in Clients PROVE Covered(processed[d], Append(q, x), From(d), expected2[d] - 1)
  <2>1. Covered(processed[d], q, From(d), expected[d] - 1)
    BY <1>1 DEF Kept
  <2>2. CASE d = c
    <3>1. Covered(processed[c], q, From(c), hi)
      BY <1>4, <2>1, <2>2
    <3> QED
      BY <1>4, <1>5, <1>7, <2>2, <3>1, CoveredAppend
  <2>3. CASE d # c
    <3>1. expected[d] - 1 \in Nat
      BY <1>2
    <3> QED
      BY <1>3, <1>5, <1>7, <2>1, <2>3, <3>1, CoveredAppend
  <2> QED
    BY <2>2, <2>3
<1>13. ASSUME Len(pending) < ME_MAX_PENDING_REQUESTS
       PROVE  Kept(g, left, sockets, expected2, more, "running")
  <2>1. more \in Seq(Known(sockets, torn)) /\ Len(more) = Len(pending) + 1 /\ Len(pending) \in Nat
    BY <1>1, <1>6, <1>7
  <2>2. Len(more) <= ME_MAX_PENDING_REQUESTS
    BY <1>13, <2>1, OrderSessionAssumption
  <2> QED
    BY <1>3, <1>8, <1>10, <1>11, <1>12, <2>1, <2>2 DEF Kept
<1>14. Kept(g, left, sockets, expected2, pending, "Too many pending requests")
  <2>1. "Too many pending requests" \in Statuses /\ "Too many pending requests" # "running"
    BY DEF Statuses
  <2> QED
    BY <1>1, <1>3, <1>10, <2>1 DEF Kept
<1> QED
  BY <1>1, <1>13, <1>14

\* The request in a record that is accepted is the next one, or made up of two.
LEMMA RequestIs ==
    ASSUME NEW g \in Gateways, NEW s, Stream(s, RequestsOf(g), <<"up", g>> \notin torn), HasRecord(s),
           NEW expected \in Nat \ {0}, NEW c \in Clients, c \in ClientIds(Record(s)),
           expected \in SeqNums(Record(s), expected)
    PROVE  /\ Server!Request(Record(s), c, expected) \in From(c)
           /\ Server!Request(Record(s), c, expected).nth = expected
           /\ Through(g, Server!Request(Record(s), c, expected), torn)
<1>1. PICK record, r : record = Record(s) /\ r = Server!Request(record, c, expected)
  OBVIOUS
<1>2. CASE Intact(record)
  <2>1. PICK m \in RequestsOf(g) : /\ record[1].of = m
                                   /\ \A e : SeqNums(record, e) = {m.seq_num_}
    <3>1. Intact(Record(s))
      BY <1>1, <1>2
    <3>2. \E m \in RequestsOf(g) : /\ Record(s)[1].of = m
                                   /\ ClientIds(Record(s)) = {m.client_id_}
                                   /\ \A e : SeqNums(Record(s), e) = {m.seq_num_}
      BY <3>1, RecordIs
    <3> QED
      BY <1>1, <3>2
  <2>2. m.seq_num_ = expected
    BY <1>1, <2>1
  <2>3. m.nth = expected /\ m.from = g
    BY <2>1, <2>2 DEF RequestsOf
  <2>4. r = [client_id_ |-> c, from |-> g, nth |-> expected]
    BY <1>1, <1>2, <2>1, <2>3 DEF Server!Request, Intact
  <2>5. r \in From(c) /\ r.nth = expected /\ r.from = g
    BY <2>4 DEF From, Requests
  <2> QED
    BY <1>1, <2>5 DEF Through
<1>3. CASE ~Intact(record)
  <2>1. <<"up", g>> \in torn
    BY <1>1, <1>3, RecordIs
  <2>2. r = [client_id_ |-> c, from |-> Spliced, nth |-> expected]
    BY <1>1, <1>3 DEF Server!Request, Intact
  <2>3. r \in From(c) /\ r.nth = expected /\ r.from = Spliced
    BY <2>2 DEF From, Requests
  <2> QED
    BY <1>1, <2>1, <2>3 DEF Through
<1> QED
  BY <1>2, <1>3

LEMMA CheckIs ==
    ASSUME IInv, NEW g \in Gateways, NEW left, HasRecord(left),
           NEW sockets, NEW expected, NEW pending,
           Kept(g, left, sockets, expected, pending, "running"),
           NEW next, next = [left |-> Rest(left), sockets |-> sockets, expected |-> expected,
                             pending |-> pending, server |-> "running"],
           NEW c \in Clients, c \in ClientIds(Record(left)),
           NEW seq_num \in SeqNums(Record(left), expected[c])
    PROVE  Server!Check(next, g, c, seq_num, Record(left)) \in Reading(g)
<1>1. PICK rest, owner, sockets2 :
        /\ rest = Rest(left) /\ owner = (IF sockets[c] = None THEN g ELSE sockets[c])
        /\ sockets2 = [sockets EXCEPT ![c] = owner]
  OBVIOUS
<1>2. Kept(g, rest, sockets2, expected, pending, "running")
  <2>1. Kept(g, rest, sockets, expected, pending, "running")
    BY <1>1, KeptRest
  <2> QED
    BY <1>1, <2>1, KeptOwner
<1>3. Server!Owner(next, g, c) = owner
  BY <1>1 DEF Server!Owner
<1>4. PICK out : out = Server!Check(next, g, c, seq_num, Record(left))
  OBVIOUS
<1>5. PICK owned : /\ owned = [left |-> rest, sockets |-> sockets2, expected |-> expected,
                               pending |-> pending, server |-> "running"]
                   /\ owned = [next EXCEPT !.sockets[c] = Server!Owner(next, g, c)]
  <2>1. [next EXCEPT !.sockets[c] = owner] =
          [left |-> rest, sockets |-> [sockets EXCEPT ![c] = owner], expected |-> expected,
           pending |-> pending, server |-> "running"]
    BY <1>1
  <2> QED
    BY <1>1, <1>3, <2>1
<1>6. CASE ~(owner = g /\ seq_num = expected[c])
  <2>1. out = owned
    BY <1>3, <1>4, <1>5, <1>6 DEF Server!Check, Server!Accepted
  <2> QED
    BY <1>2, <1>4, <1>5, <2>1, KeptIs
<1>7. CASE owner = g /\ seq_num = expected[c]
  <2>1. PICK x, expected2 : /\ x = Server!Request(Record(left), c, seq_num)
                            /\ expected2 = [expected EXCEPT ![c] = @ + 1]
    OBVIOUS
  <2>2. x \in From(c) /\ x.nth = expected[c] /\ Through(g, x, torn)
    <3>1. expected[c] \in Nat \ {0} /\ Stream(left, RequestsOf(g), <<"up", g>> \notin torn)
      BY DEF Kept
    <3> QED
      BY <1>7, <2>1, <3>1, RequestIs
  <2>3. sockets2[c] = g
    BY <1>1, <1>7 DEF Kept
  <2>4. /\ Len(pending) < ME_MAX_PENDING_REQUESTS =>
              Kept(g, rest, sockets2, expected2, Append(pending, x), "running")
        /\ Kept(g, rest, sockets2, expected2, pending, "Too many pending requests")
    BY <1>2, <2>1, <2>2, <2>3, KeptTaken
  <2>5. [owned EXCEPT !.expected[c] = @ + 1] =
          [left |-> rest, sockets |-> sockets2, expected |-> expected2, pending |-> pending,
           server |-> "running"]
    BY <1>5, <2>1
  <2>6. out = Server!AddClientRequest([owned EXCEPT !.expected[c] = @ + 1], x)
    BY <1>3, <1>4, <1>5, <1>7, <2>1 DEF Server!Check, Server!Accepted
  <2>7. out = IF Len(pending) < ME_MAX_PENDING_REQUESTS
              THEN [left |-> rest, sockets |-> sockets2, expected |-> expected2,
                    pending |-> Append(pending, x), server |-> "running"]
              ELSE [left |-> rest, sockets |-> sockets2, expected |-> expected2,
                    pending |-> pending, server |-> "Too many pending requests"]
    <3>1. PICK pre : pre = [left |-> rest, sockets |-> sockets2, expected |-> expected2,
                            pending |-> pending, server |-> "running"]
      OBVIOUS
    <3>2. out = Server!AddClientRequest(pre, x)
      BY <2>5, <2>6, <3>1
    <3>3. [pre EXCEPT !.pending = Append(pending, x)] =
            [left |-> rest, sockets |-> sockets2, expected |-> expected2,
             pending |-> Append(pending, x), server |-> "running"]
      BY <3>1
    <3>4. [pre EXCEPT !.server = "Too many pending requests"] =
            [left |-> rest, sockets |-> sockets2, expected |-> expected2,
             pending |-> pending, server |-> "Too many pending requests"]
      <4>1. \A why : [pre EXCEPT !.server = why] =
                       [left |-> rest, sockets |-> sockets2, expected |-> expected2,
                        pending |-> pending, server |-> why]
        BY <3>1
      <4> QED
        BY <4>1
    <3>5. pre.pending = pending
      BY <3>1
    <3> QED
      BY <3>2, <3>3, <3>4, <3>5 DEF Server!AddClientRequest
  <2> QED
    BY <1>4, <2>4, <2>7, KeptIs
<1> QED
  BY <1>6, <1>7

LEMMA ServerTurn ==
    ASSUME IInv, NEW g \in Gateways, NEW now \in Reading(g), NEW out \in Server!Turn(now, g)
    PROVE  out \in Reading(g)
<1>1. PICK left, sockets, expected, pending, status :
        /\ now = [left |-> left, sockets |-> sockets, expected |-> expected,
                  pending |-> pending, server |-> status]
        /\ Kept(g, left, sockets, expected, pending, status)
  BY DEF Reading
<1>2. CASE status # "running" \/ ~HasRecord(left)
  BY <1>1, <1>2 DEF Server!Turn, HasRecord
<1>3. CASE status = "running" /\ HasRecord(left)
  <2>1. PICK next : next = [left |-> Rest(left), sockets |-> sockets, expected |-> expected,
                            pending |-> pending, server |-> "running"]
    OBVIOUS
  <2>2. PICK c \in ClientIds(Record(left)) :
          out \in IF c \in Clients
                  THEN {Server!Check(next, g, c, seq_num, Record(left)) :
                           seq_num \in SeqNums(Record(left), expected[c])}
                  ELSE Server!OutOfRange(next)
    <3>1. /\ Server!TCP!Record(now.left) = Record(left) /\ now.expected = expected
          /\ [now EXCEPT !.left = Server!TCP!Rest(now.left)] = next
      BY <1>1, <1>3, <2>1 DEF Record, Rest
    <3>2. now.server = "running" /\ Server!TCP!HasRecord(now.left)
      BY <1>1, <1>3 DEF HasRecord
    <3>3. out \in UNION {IF c \in Clients
                         THEN {Server!Check(next, g, c, seq_num, Record(left)) :
                                  seq_num \in SeqNums(Record(left), expected[c])}
                         ELSE Server!OutOfRange(next) : c \in ClientIds(Record(left))}
      BY <3>1, <3>2, Zenon DEF Server!Turn, SeqNums, ClientIds
    <3> QED
      BY <3>3, Zenon
  <2>3. CASE c \in Clients
    <3>1. PICK seq_num \in SeqNums(Record(left), expected[c]) :
            out = Server!Check(next, g, c, seq_num, Record(left))
      BY <2>2, <2>3
    <3> QED
      BY <1>1, <1>3, <2>1, <2>2, <2>3, <3>1, CheckIs
  <2>4. CASE c \notin Clients
    <3>1. Kept(g, Rest(left), sockets, expected, pending, "running")
      BY <1>1, <1>3, KeptRest
    <3>2. Kept(g, Rest(left), sockets, expected, pending, "client id out of range")
      <4>1. "client id out of range" \in Statuses /\ "client id out of range" # "running"
        BY DEF Statuses
      <4> QED
        BY <3>1, <4>1 DEF Kept
    <3>3. \/ out = next
          \/ out = [left |-> Rest(left), sockets |-> sockets, expected |-> expected,
                    pending |-> pending, server |-> "client id out of range"]
      BY <2>1, <2>2, <2>4 DEF Server!OutOfRange
    <3> QED
      BY <2>1, <3>1, <3>2, <3>3, KeptIs
  <2> QED
    BY <2>3, <2>4
<1> QED
  BY <1>2, <1>3

LEMMA ServerReads ==
    ASSUME IInv, server = "running", NEW g \in Gateways, NEW k \in Nat,
           NEW out \in Server!RecvCallback(g, k)
    PROVE  out \in Reading(g)
<1> DEFINE first == [left |-> upstream[g], sockets |-> cid_tcp_sockets_,
                     expected |-> cid_next_exp_seq_num_,
                     pending |-> pending_client_requests_, server |-> server]
           V == SUBSET Reading(g)
           step == [i \in 1 .. k |-> [A \in V |-> UNION {Server!Turn(now, g) : now \in A}]]
           Is(t) == t = [i \in 0 .. k |->
                IF i = 0 THEN {first} ELSE UNION {Server!Turn(now, g) : now \in t[i - 1]}]
           after == CHOOSE t : Is(t)
<1>1. {first} \in V
  <2>1. Kept(g, upstream[g], cid_tcp_sockets_, cid_next_exp_seq_num_, pending_client_requests_, server)
    <3>1. server \in Statuses
      BY DEF Statuses
    <3>2. Stream(upstream[g], RequestsOf(g), <<"up", g>> \notin torn)
      BY DEF IInv, StreamsTyped
    <3>3. /\ cid_tcp_sockets_ \in [Clients -> Gateways \cup {None}]
          /\ cid_next_exp_seq_num_ \in [Clients -> Nat \ {0}]
          /\ Len(pending_client_requests_) <= ME_MAX_PENDING_REQUESTS
      BY DEF IInv, ServerTyped
    <3>4. pending_client_requests_ \in Seq(Known(cid_tcp_sockets_, torn))
      BY DEF IInv, Owned
    <3>5. NoneMissing /\ (~reordered => Underway)
      BY DEF IInv, Ordered
    <3> QED
      BY <3>1, <3>2, <3>3, <3>4, <3>5 DEF Kept, IInv, OnlyOnce, Underway, NoneMissing
  <2> QED
    BY <2>1, KeptIs
<1>2. ASSUME NEW A \in V PROVE UNION {Server!Turn(now, g) : now \in A} \in V
  BY <1>2, ServerTurn
<1>3. step \in [1 .. k -> [V -> V]]
  <2> HIDE DEF V
  <2> QED
    BY <1>2
<1>4. \E t : Is(t)
  <2>1. PICK f \in [0 .. k -> V] : Recursive(f, k, {first}, step)
    <3> HIDE DEF V, step, first
    <3> QED
      BY <1>1, <1>3, RecursionExists
  <2>2. ASSUME NEW i \in 0 .. k, i # 0
        PROVE  step[i][f[i - 1]] = UNION {Server!Turn(now, g) : now \in f[i - 1]}
    <3>1. i \in 1 .. k /\ i - 1 \in 0 .. k
      BY <2>2
    <3> HIDE DEF V
    <3> QED
      BY <2>1, <3>1
  <2>3. Is(f)
    <3> HIDE DEF V, step, first
    <3> QED
      BY <2>1, <2>2 DEF Recursive
  <2> QED
    BY <2>3
<1>5. Is(after)
  <2> HIDE DEF Is
  <2> QED
    BY <1>4
<1>6. /\ after[0] = {first}
      /\ \A i \in 1 .. k : after[i] = UNION {Server!Turn(now, g) : now \in after[i - 1]}
  <2>1. 0 \in 0 .. k /\ \A i \in 1 .. k : i \in 0 .. k /\ i # 0
    OBVIOUS
  <2> HIDE DEF after, first
  <2> QED
    BY <1>5, <2>1
<1>7. \A i \in 0 .. k : after[i] \in V
  <2> DEFINE S == {i \in 0 .. k : after[i] \in V}
  <2>1. 0 \in S
    <3> HIDE DEF after, V, first
    <3> QED
      BY <1>1, <1>6
  <2>2. ASSUME NEW i \in 1 .. k, i - 1 \in S PROVE i \in S
    <3> HIDE DEF after, V
    <3>1. after[i - 1] \in V /\ i \in 0 .. k
      BY <2>2
    <3>2. after[i] = UNION {Server!Turn(now, g) : now \in after[i - 1]}
      BY <1>6
    <3>3. after[i] \in V
      BY <1>2, <3>1, <3>2
    <3> QED
      BY <3>1, <3>3
  <2>3. \A i \in 0 .. k : i \in S
    <3> HIDE DEF S
    <3> QED
      BY <2>1, <2>2, InductionUpTo
  <2> QED
    BY <2>3
<1>8. Server!RecvCallback(g, k) = after[k]
  BY DEF Server!RecvCallback
<1>9. k \in 0 .. k
  OBVIOUS
<1>10. after[k] \in V
  <2> HIDE DEF after, V
  <2> QED
    BY <1>7, <1>9
<1> HIDE DEF after
<1> QED
  BY <1>8, <1>10

LEMMA ReadSocketInv ==
    ASSUME IInv, server = "running", Server!ReadSocket, UNCHANGED <<gatewayVars, engineVars>>
    PROVE  IInv'
<1>1. /\ UNCHANGED <<backlog, receive_sockets_, cid_next_outgoing_seq_num_, client_requests,
                     client_responses, reordered>>
      /\ UNCHANGED <<connected, next_outgoing_seq_num_, next_exp_seq_num_, incoming_responses_,
                     processed, responded>>
      /\ visiting \in DOMAIN receive_sockets_ /\ visiting' = visiting + 1
  BY DEF Server!ReadSocket, gatewayVars, engineVars
<1>2. PICK g \in Gateways : g = receive_sockets_[visiting]
  BY <1>1 DEF IInv, ServerTyped
<1>3. PICK bytes : bytes = Wire(server_outbound[g])
  OBVIOUS
<1>4. PICK k \in Readable(upstream[g]) : \E now \in Server!RecvCallback(g, k) :
        /\ upstream' = [upstream EXCEPT ![g] = now.left]
        /\ cid_tcp_sockets_' = now.sockets
        /\ cid_next_exp_seq_num_' = now.expected
        /\ pending_client_requests_' = now.pending
        /\ server' = now.server
        /\ \E n \in Takes(bytes, now.server = "running") :
              /\ downstream' = [downstream EXCEPT ![g] = Flushed(@, bytes, n)]
              /\ torn' = IF Tears(bytes, n) THEN torn \cup {<<"down", g>>} ELSE torn
        /\ server_outbound' = [server_outbound EXCEPT ![g] = <<>>]
  BY <1>2, <1>3, Zenon DEF Server!ReadSocket, Readable, Wire, Takes, Flushed, Tears
<1>5. PICK now \in Server!RecvCallback(g, k) :
        /\ upstream' = [upstream EXCEPT ![g] = now.left]
        /\ cid_tcp_sockets_' = now.sockets
        /\ cid_next_exp_seq_num_' = now.expected
        /\ pending_client_requests_' = now.pending
        /\ server' = now.server
        /\ \E n \in Takes(bytes, now.server = "running") :
              /\ downstream' = [downstream EXCEPT ![g] = Flushed(@, bytes, n)]
              /\ torn' = IF Tears(bytes, n) THEN torn \cup {<<"down", g>>} ELSE torn
        /\ server_outbound' = [server_outbound EXCEPT ![g] = <<>>]
  BY <1>4, Zenon
<1>6. PICK n \in Takes(bytes, now.server = "running") :
        /\ downstream' = [downstream EXCEPT ![g] = Flushed(@, bytes, n)]
        /\ torn' = IF Tears(bytes, n) THEN torn \cup {<<"down", g>>} ELSE torn
  BY <1>5, Zenon
<1>7. now \in Reading(g)
  <2>1. k \in Nat
    BY ReadableIs
  <2> QED
    BY <2>1, ServerReads
<1>8. Kept(g, now.left, cid_tcp_sockets_', cid_next_exp_seq_num_', pending_client_requests_', server')
  BY <1>5, <1>7 DEF Reading
<1>9. /\ torn \subseteq torn'
      /\ \A h \in Gateways : <<"up", h>> \notin torn' <=> <<"up", h>> \notin torn
  <2>1. \A h : <<"up", h>> # <<"down", g>>
    OBVIOUS
  <2> QED
    BY <1>6, <2>1
<1>10. /\ Known(cid_tcp_sockets_, torn) \subseteq Known(cid_tcp_sockets_, torn)'
       /\ Known(cid_tcp_sockets_', torn) \subseteq Known(cid_tcp_sockets_, torn)'
       /\ Answerable(cid_tcp_sockets_) \subseteq Answerable(cid_tcp_sockets_)'
  BY <1>8, <1>9, KnownGrows DEF Kept
<1>11. GatewaysTyped'
  <2>1. ASSUME NEW h \in Gateways PROVE Received(h, incoming_responses_[h], next_exp_seq_num_[h], torn')
    <3>1. Received(h, incoming_responses_[h], next_exp_seq_num_[h], torn)
      BY DEF IInv, GatewaysTyped
    <3> QED
      BY <1>9, <3>1, ReceivedStays
  <2> QED
    BY <1>1, <2>1 DEF IInv, GatewaysTyped
<1>12. Stream(Flushed(downstream[g], bytes, n), Numbered, <<"down", g>> \notin torn')
  <2>1. bytes \in Seq(PartsOf(Numbered)) /\ InFrame(bytes)
    <3>1. server_outbound[g] \in Seq(Numbered)
      BY DEF IInv, StreamsTyped
    <3> QED
      BY <1>3, <3>1, WireIs
  <2>2. Stream(downstream[g], Numbered, <<"down", g>> \notin torn)
    BY DEF IInv, StreamsTyped
  <2>3. Stream(Flushed(downstream[g], bytes, n), Numbered,
               <<"down", g>> \notin torn /\ ~Tears(bytes, n))
    BY <2>1, <2>2, FlushedIs
  <2>4. <<"down", g>> \notin torn' => <<"down", g>> \notin torn /\ ~Tears(bytes, n)
    BY <1>6
  <2> QED
    BY <2>3, <2>4, StreamStays
<1>13. StreamsTyped'
  <2>1. ASSUME NEW h \in Gateways PROVE Stream(downstream'[h], Numbered, <<"down", h>> \notin torn')
    <3>1. CASE h = g
      BY <1>6, <1>12, <3>1 DEF IInv, StreamsTyped
    <3>2. CASE h # g
      <4>1. Stream(downstream[h], Numbered, <<"down", h>> \notin torn) /\ downstream'[h] = downstream[h]
        BY <1>6, <3>2 DEF IInv, StreamsTyped
      <4>2. <<"down", h>> \notin torn' => <<"down", h>> \notin torn
        BY <1>9
      <4> QED
        BY <4>1, <4>2, StreamStays
    <3> QED
      BY <3>1, <3>2
  <2>2. ASSUME NEW h \in Gateways PROVE Stream(upstream'[h], RequestsOf(h), <<"up", h>> \notin torn')
    <3>1. Stream(upstream'[h], RequestsOf(h), <<"up", h>> \notin torn)
      BY <1>5, <1>8 DEF IInv, StreamsTyped, Kept
    <3>2. <<"up", h>> \notin torn' => <<"up", h>> \notin torn
      BY <1>9
    <3> QED
      BY <3>1, <3>2, StreamStays
  <2>3. DOMAIN upstream' = Gateways /\ DOMAIN downstream' = Gateways
        /\ server_outbound' \in [Gateways -> Seq(Numbered)]
    BY <1>5, <1>6, SeqEmpty DEF IInv, StreamsTyped
  <2> QED
    BY <2>1, <2>2, <2>3 DEF StreamsTyped
<1>14. ServerTyped'
  <2>1. visiting' \in 0 .. Len(receive_sockets_') + 2
    BY <1>1 DEF IInv, ServerTyped
  <2> QED
    BY <1>1, <1>8, <2>1 DEF IInv, ServerTyped, Kept
<1>15. Owned'
  <2>1. client_requests' \in Seq(Known(cid_tcp_sockets_, torn)')
        /\ client_responses' \in Seq(Answerable(cid_tcp_sockets_)')
    BY <1>1, <1>10, SeqMono DEF IInv, Owned
  <2>2. pending_client_requests_' \in Seq(Known(cid_tcp_sockets_, torn)')
    BY <1>8, <1>10, SeqMono DEF Kept
  <2>3. ASSUME NEW d \in Clients
        PROVE  processed'[d] \in Seq(Known(cid_tcp_sockets_, torn)' \cap From(d))
    <3>1. processed[d] \in Seq(Known(cid_tcp_sockets_, torn) \cap From(d))
      BY DEF IInv, Owned
    <3>2. Known(cid_tcp_sockets_, torn) \cap From(d)
            \subseteq Known(cid_tcp_sockets_, torn)' \cap From(d)
      BY <1>10
    <3>3. processed[d] \in Seq(Known(cid_tcp_sockets_, torn)' \cap From(d))
      BY <3>1, <3>2, SeqMono
    <3> QED
      BY <1>1, <3>3
  <2>4. SocketKnown'
    <3>1. server' \in Statuses
      BY <1>8 DEF Kept
    <3>2. \A s \in Statuses : s # "Don't have a TCPSocket"
      BY Zenon DEF Statuses
    <3> QED
      BY <3>1, <3>2, Zenon DEF SocketKnown
  <2>5. DOMAIN processed' = Clients
    BY <1>1 DEF IInv, Owned
  <2> QED
    BY <2>1, <2>2, <2>3, <2>4, <2>5, Zenon DEF Owned
<1>16. Numbering'
  BY <1>1 DEF IInv, Numbering
<1>17. OnlyOnce'
  BY <1>1, <1>8 DEF OnlyOnce, Kept
<1>18. Ordered'
  <2>1. ~reordered => \A c \in Clients : \A i \in 1 .. Len(processed[c]) : processed[c][i].nth = i
    BY DEF IInv, Ordered
  <2>2. ~reordered /\ server' = "running" => Underway'
    BY <1>1, <1>8 DEF Kept, Underway
  <2>3. server' = "running" => NoneMissing'
    BY <1>1, <1>8 DEF Kept, NoneMissing
  <2> QED
    BY <1>1, <2>1, <2>2, <2>3 DEF Ordered
<1> QED
  BY <1>11, <1>13, <1>14, <1>15, <1>16, <1>17, <1>18 DEF IInv

\* The ways to change the places of n things.
Permuting(n) == {p \in [1 .. n -> 1 .. n] : /\ \A i, j \in 1 .. n : p[i] = p[j] => i = j
                                          /\ \A j \in 1 .. n : \E i \in 1 .. n : p[i] = j}

\* What the sort makes of a round is the same requests, in other places.
LEMMA SortedIs ==
    ASSUME NEW E, NEW pending \in Seq(E), NEW sorted \in Server!Sorted(pending)
    PROVE  /\ sorted \in Seq(E) /\ Len(sorted) = Len(pending)
           /\ \E p \in Permuting(Len(pending)) :
                 \A i \in 1 .. Len(pending) : sorted[i] = pending[p[i]]
<1>1. PICK n \in Nat : n = Len(pending) /\ DOMAIN pending = 1 .. n
  OBVIOUS
<1>2. CASE sorted = pending
  <2> DEFINE p == [i \in 1 .. n |-> i]
  <2>1. p \in Permuting(n) /\ \A i \in 1 .. n : sorted[i] = pending[p[i]]
    BY <1>2 DEF Permuting
  <2> HIDE DEF p
  <2> QED
    BY <1>1, <1>2, <2>1
<1>3. CASE sorted \in {[i \in DOMAIN pending |-> pending[p[i]]] :
                         p \in Server!Bijection(DOMAIN pending, DOMAIN pending)}
  <2>1. PICK p \in Server!Bijection(1 .. n, 1 .. n) : sorted = [i \in 1 .. n |-> pending[p[i]]]
    BY <1>1, <1>3
  <2>2. p \in Permuting(n)
    BY DEF Permuting, Server!Bijection, Server!Injection, Server!Surjection, Server!IsInjective
  <2>3. \A i \in 1 .. n : pending[p[i]] \in E
    BY <1>1, <2>2 DEF Permuting
  <2>4. sorted \in Seq(E) /\ Len(sorted) = n /\ \A i \in 1 .. n : sorted[i] = pending[p[i]]
    BY <2>1, <2>3
  <2> QED
    BY <1>1, <2>2, <2>4
<1> QED
  BY <1>2, <1>3 DEF Server!Sorted

\* They are still there only once.
LEMMA OnceSorted ==
    ASSUME NEW E, NEW done, NEW q \in Seq(E), NEW pending \in Seq(E), NEW mine, NEW hi,
           Once(done, q \o pending, mine, hi), NEW round \in Server!Sorted(pending)
    PROVE  Once(done, q \o round, mine, hi)
<1>1. PICK n, m \in Nat : n = Len(q) /\ m = Len(pending)
  OBVIOUS
<1>2. /\ round \in Seq(E) /\ Len(round) = m
      /\ \E p \in Permuting(m) : \A i \in 1 .. m : round[i] = pending[p[i]]
  BY <1>1, SortedIs
<1>3. PICK p \in [1 .. m -> 1 .. m] : /\ \A i, j \in 1 .. m : p[i] = p[j] => i = j
                                      /\ \A i \in 1 .. m : round[i] = pending[p[i]]
  BY <1>2 DEF Permuting
<1>4. PICK a, b : a = q \o pending /\ b = q \o round
  OBVIOUS
<1>5. /\ Len(a) = n + m /\ \A i \in 1 .. n : a[i] = q[i]
      /\ \A i \in 1 .. m : a[i + n] = pending[i]
  BY <1>1, <1>4, ConcatIs
<1>6. /\ Len(b) = n + m /\ \A i \in 1 .. n : b[i] = q[i]
      /\ \A i \in 1 .. m : b[i + n] = round[i]
  <2>1. PICK r \in Seq(E) : r = round /\ Len(r) = m
    BY <1>2
  <2>2. b = q \o r
    BY <1>4, <2>1
  <2>3. /\ Len(b) = n + m /\ \A i \in 1 .. n : b[i] = q[i]
        /\ \A i \in 1 .. m : b[i + n] = r[i]
    <3>1. Len(b) = n + m
      <4>1. n = Len(q) /\ m = Len(r)
        BY <1>1, <2>1
      <4> QED
        BY ONLY n \in Nat, m \in Nat, <2>2, <4>1, q \in Seq(E), r \in Seq(E)
    <3>2. \A i \in 1 .. n : b[i] = q[i]
      BY ONLY n \in Nat, m \in Nat, <1>1, <2>1, <2>2, q \in Seq(E), r \in Seq(E)
    <3>3. \A i \in 1 .. m : b[i + n] = r[i]
      BY ONLY n \in Nat, m \in Nat, <1>1, <2>1, <2>2, q \in Seq(E), r \in Seq(E)
    <3> QED
      BY <3>1, <3>2, <3>3
  <2> QED
    BY <2>1, <2>3
<1>7. PICK f : f = [i \in 1 .. n + m |-> IF i <= n THEN i ELSE p[i - n] + n]
  OBVIOUS
<1>8. \A i \in 1 .. n + m : \/ i \in 1 .. n /\ f[i] = i
                            \/ i > n /\ i - n \in 1 .. m /\ f[i] = p[i - n] + n /\ p[i - n] \in 1 .. m
  <2>1. \A i \in 1 .. n + m : i \in 1 .. n \/ (i > n /\ i - n \in 1 .. m)
    BY <1>1
  <2>2. \A i \in 1 .. n : i <= n
    OBVIOUS
  <2>3. \A i \in 1 .. n + m : i > n => ~(i <= n)
    BY <1>1
  <2> QED
    BY <1>3, <1>7, <2>1, <2>2, <2>3
<1>9. f \in [1 .. n + m -> 1 .. n + m]
  <2>1. ASSUME NEW i \in 1 .. n + m PROVE f[i] \in 1 .. n + m
    <3>1. CASE i \in 1 .. n /\ f[i] = i
      BY <3>1
    <3>2. CASE f[i] = p[i - n] + n /\ p[i - n] \in 1 .. m
      <4>1. PICK j \in 1 .. m : j = p[i - n]
        BY <3>2
      <4> QED
        BY <1>1, <3>2, <4>1
    <3> QED
      BY <1>8, <3>1, <3>2
  <2>2. f = [i \in 1 .. n + m |-> f[i]]
    BY <1>7
  <2> QED
    BY <2>1, <2>2
<1>10. ASSUME NEW i \in 1 .. n + m, NEW j \in 1 .. n + m, f[i] = f[j] PROVE i = j
  <2>1. CASE i \in 1 .. n /\ f[i] = i
    <3>1. CASE j \in 1 .. n /\ f[j] = j
      BY <1>10, <2>1, <3>1
    <3>2. CASE f[j] = p[j - n] + n /\ p[j - n] \in 1 .. m
      <4>1. PICK y \in 1 .. m : y = p[j - n]
        BY <3>2
      <4>2. i \in 1 .. n /\ i = y + n
        BY <1>10, <2>1, <3>2, <4>1
      <4>3. y + n > n
        BY <1>1
      <4> QED
        BY <1>1, <4>2, <4>3
    <3> QED
      BY <1>8, <3>1, <3>2
  <2>2. CASE i - n \in 1 .. m /\ f[i] = p[i - n] + n /\ p[i - n] \in 1 .. m
    <3>1. PICK x \in 1 .. m : x = p[i - n]
      BY <2>2
    <3>2. CASE j \in 1 .. n /\ f[j] = j
      <4>1. j \in 1 .. n /\ j = x + n
        BY <1>10, <2>2, <3>1, <3>2
      <4>2. x + n > n
        BY <1>1
      <4> QED
        BY <1>1, <4>1, <4>2
    <3>3. CASE j - n \in 1 .. m /\ f[j] = p[j - n] + n /\ p[j - n] \in 1 .. m
      <4>1. PICK y \in 1 .. m : y = p[j - n]
        BY <3>3
      <4>2. x = y
        <5>1. x + n = y + n
          BY <1>10, <2>2, <3>1, <3>3, <4>1
        <5> QED
          BY <1>1, <5>1
      <4>3. i - n = j - n
        BY <1>3, <2>2, <3>1, <3>3, <4>1, <4>2
      <4> QED
        BY <1>1, <4>3
    <3> QED
      BY <1>8, <3>2, <3>3
  <2> QED
    BY <1>8, <2>1, <2>2
<1>11. ASSUME NEW i \in 1 .. n + m PROVE b[i] = a[f[i]]
  <2>1. CASE i \in 1 .. n /\ f[i] = i
    BY <1>5, <1>6, <2>1
  <2>2. CASE i > n /\ i - n \in 1 .. m /\ f[i] = p[i - n] + n /\ p[i - n] \in 1 .. m
    <3>1. PICK x \in 1 .. m, y \in 1 .. m : x = i - n /\ y = p[x] /\ x + n = i
      BY <1>1, <2>2
    <3>2. b[x + n] = round[x] /\ round[x] = pending[y] /\ a[y + n] = pending[y]
      BY <1>3, <1>5, <1>6, <3>1
    <3> QED
      BY <2>2, <3>1, <3>2
  <2> QED
    BY <1>8, <2>1, <2>2
<1>12. Once(done, a, mine, hi) /\ Len(b) = Len(a) /\ Len(a) = n + m
  BY <1>4, <1>5, <1>6
<1>13. /\ f \in [1 .. Len(a) -> 1 .. Len(a)]
       /\ \A i, j \in 1 .. Len(a) : f[i] = f[j] => i = j
       /\ \A i \in 1 .. Len(a) : b[i] = a[f[i]]
  BY <1>9, <1>10, <1>11, <1>12
<1>14. Once(done, b, mine, hi)
  BY ONLY <1>12, <1>13, OncePermuted
<1> QED
  BY <1>4, <1>14

\* None of them is gone.
LEMMA CoveredSorted ==
    ASSUME NEW E, NEW done, NEW q \in Seq(E), NEW pending \in Seq(E), NEW mine, NEW hi,
           Covered(done, q \o pending, mine, hi), NEW round \in Server!Sorted(pending)
    PROVE  Covered(done, q \o round, mine, hi)
<1>1. PICK n, m \in Nat : n = Len(q) /\ m = Len(pending)
  OBVIOUS
<1>2. PICK r \in Seq(E) : /\ r = round /\ Len(r) = m
                          /\ \E p \in Permuting(m) : \A i \in 1 .. m : r[i] = pending[p[i]]
  BY <1>1, SortedIs
<1> DEFINE Found(j) == \E i \in 1 .. m : r[i] = pending[j]
<1>3. ASSUME NEW j \in 1 .. m PROVE Found(j)
  <2>1. PICK p \in Permuting(m) : \A i \in 1 .. m : r[i] = pending[p[i]]
    BY <1>2
  <2>2. PICK i \in 1 .. m : p[i] = j
    BY DEF Permuting
  <2> QED
    BY <2>1, <2>2
<1>4. PICK a, b : a = q \o pending /\ b = q \o r
  OBVIOUS
<1>5. /\ Len(a) = n + m /\ \A i \in 1 .. n : a[i] = q[i]
      /\ \A i \in 1 .. m : a[i + n] = pending[i]
  BY <1>1, <1>4, ConcatIs
<1>6. /\ Len(b) = n + m /\ \A i \in 1 .. n : b[i] = q[i]
      /\ \A i \in 1 .. m : b[i + n] = r[i]
  <2>1. Len(b) = n + m
    <3>1. n = Len(q) /\ m = Len(r) /\ b = q \o r
      BY <1>1, <1>2, <1>4
    <3> QED
      BY ONLY n \in Nat, m \in Nat, <3>1, q \in Seq(E), r \in Seq(E)
  <2>2. \A i \in 1 .. n : b[i] = q[i]
    BY ONLY n \in Nat, m \in Nat, <1>1, <1>2, <1>4, q \in Seq(E), r \in Seq(E)
  <2>3. \A i \in 1 .. m : b[i + n] = r[i]
    BY ONLY n \in Nat, m \in Nat, <1>1, <1>2, <1>4, q \in Seq(E), r \in Seq(E)
  <2> QED
    BY <2>1, <2>2, <2>3
<1>7. ASSUME NEW j \in 1 .. n + m PROVE \E i \in 1 .. n + m : b[i] = a[j]
  <2>1. CASE j <= n
    <3>1. j \in 1 .. n
      BY <1>1, <2>1
    <3> QED
      BY <1>5, <1>6, <3>1
  <2>2. CASE j > n
    <3>1. PICK x \in 1 .. m : x + n = j
      <4>1. j - n \in 1 .. m /\ (j - n) + n = j
        BY <1>1, <2>2
      <4> QED
        BY <4>1
    <3>2. PICK y \in 1 .. m : r[y] = pending[x]
      BY <1>3
    <3>3. y + n \in 1 .. n + m
      BY <1>1
    <3>4. b[y + n] = r[y] /\ a[x + n] = pending[x]
      BY <1>5, <1>6
    <3> QED
      BY <3>1, <3>2, <3>3, <3>4
  <2> QED
    BY <1>1, <2>1, <2>2
<1>8. Covered(done, a, mine, hi) /\ Len(b) = Len(a) /\ Len(a) = n + m
  BY <1>4, <1>5, <1>6
<1>9. \A j \in 1 .. Len(a) : \E i \in 1 .. Len(a) : b[i] = a[j]
  BY <1>7, <1>8
<1>10. Covered(done, b, mine, hi)
  BY ONLY <1>8, <1>9, CoveredPermuted
<1> QED
  BY <1>2, <1>4, <1>10

LEMMA SequenceAndPublishInv ==
    ASSUME IInv, Server!SequenceAndPublish, UNCHANGED <<gatewayVars, engineVars>> PROVE IInv'
<1>1. /\ UNCHANGED <<backlog, receive_sockets_, cid_tcp_sockets_,
                     cid_next_exp_seq_num_, cid_next_outgoing_seq_num_, server_outbound,
                     client_responses, server, torn, upstream, downstream>>
      /\ UNCHANGED <<connected, next_outgoing_seq_num_, next_exp_seq_num_, incoming_responses_,
                     processed, responded>>
      /\ pending_client_requests_' = <<>>
      /\ visiting = Len(receive_sockets_) + 1 /\ visiting' = visiting + 1
  BY DEF Server!SequenceAndPublish, gatewayVars, engineVars
<1>2. PICK sorted \in Server!Sorted(pending_client_requests_) :
        /\ client_requests' = client_requests \o sorted
        /\ reordered' = (reordered \/ sorted # pending_client_requests_)
  BY DEF Server!SequenceAndPublish
<1>3. PICK E : E = Known(cid_tcp_sockets_, torn)
  OBVIOUS
<1>4. client_requests \in Seq(E) /\ pending_client_requests_ \in Seq(E)
  BY <1>3 DEF IInv, Owned
<1>5. sorted \in Seq(E)
  BY <1>4, SortedIs
<1>6. client_requests' \in Seq(E) /\ client_requests' \o pending_client_requests_' = client_requests \o sorted
  BY <1>1, <1>2, <1>4, <1>5
<1>7. GatewaysTyped'
  BY <1>1 DEF IInv, GatewaysTyped
<1>8. StreamsTyped'
  BY <1>1 DEF IInv, StreamsTyped
<1>9. reordered' \in BOOLEAN
  BY <1>2, Zenon
<1>10. ServerTyped'
  <2>1. Len(pending_client_requests_') <= ME_MAX_PENDING_REQUESTS
    BY <1>1, OrderSessionAssumption
  <2>2. visiting' \in 0 .. Len(receive_sockets_') + 2
    BY <1>1 DEF IInv, ServerTyped
  <2> QED
    BY <1>1, <1>9, <2>1, <2>2 DEF IInv, ServerTyped
<1>11. Owned'
  <2>1. Known(cid_tcp_sockets_, torn)' = E /\ Answerable(cid_tcp_sockets_)' = Answerable(cid_tcp_sockets_)
        /\ SocketKnown'
    BY <1>1, <1>3, Zenon DEF Known, Answerable, IInv, Owned, SocketKnown
  <2>2. pending_client_requests_' \in Seq(E)
    BY <1>1, SeqEmpty, Zenon
  <2> QED
    BY <1>1, <1>3, <1>6, <2>1, <2>2 DEF IInv, Owned
<1>12. Numbering'
  BY <1>1 DEF IInv, Numbering
<1>13. OnlyOnce'
  <2>1. ASSUME NEW c \in Clients
        PROVE  Once(processed[c], client_requests \o sorted, From(c), cid_next_exp_seq_num_[c] - 1)
    <3>1. Once(processed[c], client_requests \o pending_client_requests_, From(c),
               cid_next_exp_seq_num_[c] - 1)
      BY DEF IInv, OnlyOnce
    <3> QED
      BY <1>4, <3>1, OnceSorted
  <2> QED
    BY <1>1, <1>6, <2>1 DEF OnlyOnce
<1>14. Ordered'
  <2>1. ASSUME ~reordered'
        PROVE  ~reordered /\ client_requests' \o pending_client_requests_'
                               = client_requests \o pending_client_requests_
    BY <1>2, <1>6, <2>1
  <2>2. ASSUME server = "running" PROVE NoneMissing'
    <3>1. ASSUME NEW c \in Clients
          PROVE  Covered(processed[c], client_requests \o sorted, From(c), cid_next_exp_seq_num_[c] - 1)
      <4>1. Covered(processed[c], client_requests \o pending_client_requests_, From(c),
                    cid_next_exp_seq_num_[c] - 1)
        BY <2>2 DEF IInv, Ordered, NoneMissing
      <4> QED
        BY <1>4, <4>1, CoveredSorted
    <3> QED
      BY <1>1, <1>6, <3>1 DEF NoneMissing
  <2> QED
    BY <1>1, <2>1, <2>2 DEF IInv, Ordered, Underway
<1> QED
  BY <1>7, <1>8, <1>10, <1>11, <1>12, <1>13, <1>14 DEF IInv

\* What is kept while the responses are numbered: what has been buffered and the
\* numbers of those that are left.
Buffered == [outbound : [Gateways -> Seq(Sequenced)], next : [Clients -> Nat \ {0}]]
Sending(now, i) ==
    /\ now \in Buffered
    /\ \A g \in Gateways : now.outbound[g] \in Seq(Numbered)
    /\ \A c \in Clients : InTurn(SubSeq(client_responses, i + 1, Len(client_responses)),
                                 To(c), now.next[c], responded[c])

LEMMA SendIs ==
    ASSUME IInv, NEW now \in Buffered, NEW r \in Answerable(cid_tcp_sockets_)
    PROVE  Server!Send(now, r) \in Buffered
<1>1. PICK c \in Clients : c = r.client_id_
  BY DEF Answerable, Responses
<1>2. PICK owner \in Gateways : owner = cid_tcp_sockets_[c]
  BY <1>1 DEF Answerable
<1>3. PICK out, next : out = now.outbound /\ next = now.next
  OBVIOUS
<1>4. out \in [Gateways -> Seq(Sequenced)] /\ next \in [Clients -> Nat \ {0}]
  BY <1>3 DEF Buffered
<1>5. PICK m : m = [seq_num_ |-> next[c], client_id_ |-> c, nth |-> r.nth, answers |-> r.answers]
  OBVIOUS
<1>6. m \in Sequenced
  BY <1>1, <1>4, <1>5 DEF Answerable, Responses, Sequenced
<1>7. Append(out[owner], m) \in Seq(Sequenced)
  BY <1>4, <1>6
<1>8. /\ [out EXCEPT ![owner] = Append(@, m)] \in [Gateways -> Seq(Sequenced)]
      /\ [next EXCEPT ![c] = @ + 1] \in [Clients -> Nat \ {0}]
  BY <1>4, <1>7
<1>9. Server!Send(now, r) = [outbound |-> [out EXCEPT ![owner] = Append(@, m)],
                             next |-> [next EXCEPT ![c] = @ + 1]]
  BY <1>1, <1>2, <1>3, <1>5 DEF Server!Send
<1> QED
  BY <1>8, <1>9 DEF Buffered

\* One response more.
LEMMA SendKeeps ==
    ASSUME IInv, NEW i \in 1 .. Len(client_responses), NEW now, Sending(now, i - 1)
    PROVE  Sending(Server!Send(now, client_responses[i]), i)
<1>1. PICK q, E : q = client_responses /\ E = Answerable(cid_tcp_sockets_)
  OBVIOUS
<1>2. PICK n \in Nat : n = Len(q)
  BY <1>1 DEF IInv, Owned
<1>3. q \in Seq(E) /\ i \in 1 .. n
  BY <1>1, <1>2 DEF IInv, Owned
<1>4. PICK r \in E : r = q[i]
  BY <1>2, <1>3
<1>5. PICK left : left = SubSeq(q, i, n)
  OBVIOUS
<1>6. left \in Seq(E) /\ left # <<>> /\ Head(left) = r /\ Tail(left) = SubSeq(q, i + 1, n)
  BY <1>2, <1>3, <1>4, <1>5, SubSeqFrom
<1>7. \A c \in Clients : InTurn(left, To(c), now.next[c], responded[c])
  <2>1. i - 1 + 1 = i
    BY <1>3
  <2> QED
    BY <1>1, <1>2, <1>5, <2>1 DEF Sending
<1>8. PICK c \in Clients : c = r.client_id_
  BY <1>1 DEF Answerable, Responses
<1>9. PICK owner \in Gateways : owner = cid_tcp_sockets_[c]
  BY <1>1, <1>8 DEF Answerable
<1>10. r \in Responses /\ r \in To(c) /\ \A d \in Clients : d # c => r \notin To(d)
  BY <1>1, <1>8 DEF Answerable, To
<1>11. r.nth = now.next[c] /\ InTurn(Tail(left), To(c), now.next[c] + 1, responded[c])
  BY <1>6, <1>7, <1>10, InTurnTail
<1>12. \A d \in Clients : d # c => InTurn(Tail(left), To(d), now.next[d], responded[d])
  BY <1>6, <1>7, <1>10, InTurnTail
<1>13. PICK m : m = [seq_num_ |-> now.next[c], client_id_ |-> c, nth |-> r.nth, answers |-> r.answers]
  OBVIOUS
<1>14. now.next[c] \in Nat \ {0} /\ now.next \in [Clients -> Nat \ {0}]
       /\ now.outbound \in [Gateways -> Seq(Sequenced)]
  BY DEF Sending, Buffered
<1>15. m \in Numbered
  <2>1. r.nth \in Nat \ {0} /\ r.answers \in Nat
    BY <1>10 DEF Responses
  <2> QED
    BY <1>11, <1>13, <1>14, <2>1 DEF Numbered, Sequenced
<1>16. PICK after : after = Server!Send(now, client_responses[i])
  OBVIOUS
<1>17. /\ after.outbound = [now.outbound EXCEPT ![owner] = Append(@, m)]
       /\ after.next = [now.next EXCEPT ![c] = @ + 1]
  BY <1>1, <1>4, <1>8, <1>9, <1>13, <1>16 DEF Server!Send
<1>18. after \in Buffered
  <2>1. now \in Buffered
    BY DEF Sending
  <2> QED
    BY <1>1, <1>4, <1>16, <2>1, SendIs
<1>19. ASSUME NEW g \in Gateways PROVE after.outbound[g] \in Seq(Numbered)
  <2>1. now.outbound[g] \in Seq(Numbered)
    BY DEF Sending
  <2>2. CASE g = owner
    <3>1. after.outbound[g] = Append(now.outbound[g], m)
      BY <1>14, <1>17, <2>2
    <3> QED
      BY <1>15, <2>1, <3>1
  <2>3. CASE g # owner
    BY <1>14, <1>17, <2>1, <2>3
  <2> QED
    BY <2>2, <2>3
<1>20. ASSUME NEW d \in Clients
       PROVE  InTurn(SubSeq(q, i + 1, n), To(d), after.next[d], responded[d])
  BY <1>6, <1>11, <1>12, <1>14, <1>17
<1> QED
  BY <1>1, <1>2, <1>16, <1>18, <1>19, <1>20 DEF Sending

LEMMA SendAllIs ==
    ASSUME IInv PROVE Sending(Server!SendAll, Len(client_responses))
<1> DEFINE n == Len(client_responses)
           base == [outbound |-> server_outbound, next |-> cid_next_outgoing_seq_num_]
           step == [i \in 1 .. n |-> [now \in Buffered |-> Server!Send(now, client_responses[i])]]
           Is(t) == t = [i \in 0 .. n |->
                IF i = 0 THEN base ELSE Server!Send(t[i - 1], client_responses[i])]
           after == CHOOSE t : Is(t)
<1>1. n \in Nat /\ \A i \in 1 .. n : client_responses[i] \in Answerable(cid_tcp_sockets_)
  BY DEF IInv, Owned
<1>2. base \in Buffered /\ Sending(base, 0)
  <2>1. \A g \in Gateways : server_outbound[g] \in Seq(Numbered)
    BY DEF IInv, StreamsTyped
  <2>2. Numbered \subseteq Sequenced
    BY DEF Numbered
  <2>3. \A g \in Gateways : server_outbound[g] \in Seq(Sequenced)
    BY <2>1, <2>2, SeqMono
  <2>4. base \in Buffered
    BY <2>3 DEF IInv, StreamsTyped, ServerTyped, Buffered
  <2>5. SubSeq(client_responses, 0 + 1, n) = client_responses
    BY DEF IInv, Owned
  <2>6. \A c \in Clients : InTurn(client_responses, To(c), base.next[c], responded[c])
    BY DEF IInv, Numbering
  <2> QED
    BY <2>1, <2>4, <2>5, <2>6 DEF Sending
<1>3. ASSUME NEW i \in 1 .. n, NEW now \in Buffered
      PROVE  Server!Send(now, client_responses[i]) \in Buffered
  BY <1>1, <1>3, SendIs
<1>4. step \in [1 .. n -> [Buffered -> Buffered]]
  <2> HIDE DEF n
  <2> QED
    BY <1>3
<1>5. \E t : Is(t)
  <2>1. PICK f \in [0 .. n -> Buffered] : Recursive(f, n, base, step)
    <3> HIDE DEF n, step, base
    <3> QED
      BY <1>1, <1>2, <1>4, RecursionExists
  <2>2. ASSUME NEW i \in 0 .. n, i # 0
        PROVE  step[i][f[i - 1]] = Server!Send(f[i - 1], client_responses[i])
    <3>1. i \in 1 .. n /\ i - 1 \in 0 .. n
      BY <1>1, <2>2
    <3> HIDE DEF n
    <3> QED
      BY <2>1, <3>1
  <2>3. Is(f)
    <3> HIDE DEF step, n, base
    <3> QED
      BY <2>1, <2>2 DEF Recursive
  <2> QED
    BY <2>3
<1>6. Is(after)
  <2> HIDE DEF Is
  <2> QED
    BY <1>5
<1>7. after[0] = base /\ \A i \in 1 .. n : after[i] = Server!Send(after[i - 1], client_responses[i])
  <2>1. 0 \in 0 .. n /\ \A i \in 1 .. n : i \in 0 .. n /\ i # 0
    BY <1>1
  <2> HIDE DEF after, n, base
  <2> QED
    BY <1>6, <2>1
<1>8. \A i \in 0 .. n : Sending(after[i], i)
  <2> DEFINE S == {i \in 0 .. n : Sending(after[i], i)}
  <2>1. 0 \in S
    <3> HIDE DEF after, n, base
    <3> QED
      BY <1>1, <1>2, <1>7
  <2>2. ASSUME NEW i \in 1 .. n, i - 1 \in S PROVE i \in S
    <3>1. Sending(after[i - 1], i - 1) /\ i \in 0 .. n
      BY <1>1, <2>2
    <3>2. Sending(Server!Send(after[i - 1], client_responses[i]), i)
      <4> HIDE DEF after
      <4> QED
        BY <3>1, SendKeeps
    <3> HIDE DEF after, n
    <3> QED
      BY <1>7, <3>1, <3>2
  <2>3. \A i \in 0 .. n : i \in S
    <3> HIDE DEF S, n
    <3> QED
      BY <1>1, <2>1, <2>2, InductionUpTo
  <2> QED
    BY <2>3
<1>9. Server!SendAll = after[n]
  BY DEF Server!SendAll
<1>10. n \in 0 .. n
  BY <1>1
<1>11. Sending(after[n], n)
  <2> HIDE DEF after, n
  <2> QED
    BY <1>8, <1>10
<1> HIDE DEF after
<1> QED
  BY <1>9, <1>11

LEMMA SendResponsesInv ==
    ASSUME IInv, Server!SendResponses, UNCHANGED <<gatewayVars, engineVars>> PROVE IInv'
<1>1. /\ UNCHANGED <<backlog, receive_sockets_, cid_tcp_sockets_, cid_next_exp_seq_num_,
                     pending_client_requests_, client_requests, reordered, torn, upstream,
                     downstream>>
      /\ UNCHANGED <<connected, next_outgoing_seq_num_, next_exp_seq_num_, incoming_responses_,
                     processed, responded>>
  BY Zenon DEF Server!SendResponses, gatewayVars, engineVars
<1>2. ~ \E i \in DOMAIN client_responses : cid_tcp_sockets_[client_responses[i].client_id_] = None
  <2>1. client_responses \in Seq(Answerable(cid_tcp_sockets_))
    BY DEF IInv, Owned
  <2>2. \A i \in DOMAIN client_responses : client_responses[i] \in Answerable(cid_tcp_sockets_)
    BY <2>1
  <2> QED
    BY <2>2, OrderSessionAssumption DEF Answerable
<1>3. /\ server_outbound' = Server!SendAll.outbound
      /\ cid_next_outgoing_seq_num_' = Server!SendAll.next
      /\ client_responses' = <<>> /\ visiting' = 0 /\ server' = server
  BY <1>2, Zenon DEF Server!SendResponses
<1>4. PICK all : all = Server!SendAll
  OBVIOUS
<1>5. Sending(all, Len(client_responses))
  BY <1>4, SendAllIs
<1>6. GatewaysTyped'
  BY <1>1 DEF IInv, GatewaysTyped
<1>7. StreamsTyped'
  <2>1. server_outbound' \in [Gateways -> Seq(Numbered)]
    BY <1>3, <1>4, <1>5 DEF Sending, Buffered
  <2> QED
    BY <1>1, <2>1 DEF IInv, StreamsTyped
<1>8. ServerTyped'
  <2>1. cid_next_outgoing_seq_num_' \in [Clients -> Nat \ {0}]
    BY <1>3, <1>4, <1>5 DEF Sending, Buffered
  <2>2. visiting' \in 0 .. Len(receive_sockets_') + 2
    BY <1>1, <1>3 DEF IInv, ServerTyped
  <2> QED
    BY <1>1, <2>1, <2>2 DEF IInv, ServerTyped
<1>9. Owned'
  <2>1. client_responses' \in Seq(Answerable(cid_tcp_sockets_)')
    BY <1>3, SeqEmpty, Zenon
  <2>2. Known(cid_tcp_sockets_, torn)' = Known(cid_tcp_sockets_, torn)
    BY <1>1 DEF Known
  <2>3. SocketKnown'
    BY <1>3, Zenon DEF IInv, Owned, SocketKnown
  <2> QED
    BY <1>1, <2>1, <2>2, <2>3 DEF IInv, Owned
<1>10. Numbering'
  <2>1. SubSeq(client_responses, Len(client_responses) + 1, Len(client_responses)) = <<>>
    BY DEF IInv, Owned
  <2>2. \A c \in Clients : InTurn(<<>>, To(c), all.next[c], responded[c])
    BY <1>5, <2>1 DEF Sending
  <2> QED
    BY <1>1, <1>3, <1>4, <2>2 DEF IInv, Numbering
<1>11. OnlyOnce'
  BY <1>1 DEF IInv, OnlyOnce
<1>12. Ordered'
  BY <1>1, <1>3 DEF IInv, Ordered, Underway, NoneMissing
<1> QED
  BY <1>6, <1>7, <1>8, <1>9, <1>10, <1>11, <1>12 DEF IInv

\* What the engine answers to a client that has a socket.
Response(d, answers) == [client_id_ |-> d, nth |-> responded[d] + 1, answers |-> answers]

LEMMA AnswerIs ==
    ASSUME IInv, NEW d \in Clients, cid_tcp_sockets_[d] \in Gateways, NEW answers \in Nat
    PROVE  /\ Response(d, answers) \in Answerable(cid_tcp_sockets_)
           /\ Response(d, answers) \in To(d) /\ Response(d, answers).nth = responded[d] + 1
           /\ \A e : e # d => Response(d, answers) \notin To(e)
<1>1. responded[d] \in Nat
  BY DEF IInv, Numbering
<1> QED
  BY <1>1 DEF Response, Responses, Answerable, To

\* It is appended to those that wait.
LEMMA Answering ==
    ASSUME NEW E, NEW q \in Seq(E), NEW hi, NEW lo, DOMAIN hi = Clients,
           \A e \in Clients : InTurn(q, To(e), lo[e], hi[e]),
           NEW d \in Clients, NEW x \in E, x \in To(d), x.nth = hi[d] + 1,
           \A e : e # d => x \notin To(e)
    PROVE  \A e \in Clients : InTurn(Append(q, x), To(e), lo[e], [hi EXCEPT ![d] = @ + 1][e])
<1>1. InTurn(Append(q, x), To(d), lo[d], hi[d] + 1)
  BY InTurnAppend
<1>2. \A e \in Clients : e # d => InTurn(Append(q, x), To(e), lo[e], hi[e])
  BY InTurnAppend
<1> QED
  BY <1>1, <1>2

LEMMA EngineAnswersInv == ASSUME IInv, EngineAnswers PROVE IInv'
<1>1. /\ UNCHANGED <<connected, next_outgoing_seq_num_, next_exp_seq_num_, incoming_responses_,
                     torn, upstream, downstream>>
      /\ UNCHANGED <<backlog, receive_sockets_, visiting, cid_tcp_sockets_, cid_next_exp_seq_num_,
                     cid_next_outgoing_seq_num_, pending_client_requests_, server_outbound, server,
                     reordered>>
      /\ server = "running" /\ client_requests # <<>> /\ client_requests' = Tail(client_requests)
  BY Zenon DEF EngineAnswers, gatewayVars, connectionVars
<1>2. PICK K, A : K = Known(cid_tcp_sockets_, torn) /\ A = Answerable(cid_tcp_sockets_)
  OBVIOUS
<1>3. client_requests \in Seq(K) /\ client_responses \in Seq(A)
      /\ DOMAIN processed = Clients /\ \A d \in Clients : processed[d] \in Seq(K \cap From(d))
  BY <1>2 DEF IInv, Owned
<1>4. PICK request \in K : request = Head(client_requests)
  BY <1>1, <1>3
<1>5. request \in Requests /\ cid_tcp_sockets_[request.client_id_] \in Gateways
  BY <1>2, <1>4 DEF Known
<1>6. PICK c \in Clients : c = request.client_id_
  BY <1>5 DEF Requests
<1>7. PICK answer : answer = Response(c, request.nth)
  OBVIOUS
<1>8. /\ processed' = [processed EXCEPT ![c] = Append(@, request)]
      /\ \/ /\ client_responses' = Append(client_responses, answer)
            /\ responded' = [responded EXCEPT ![c] = @ + 1]
         \/ \E d \in Clients \ {c} :
               /\ processed[d] # <<>>
               /\ client_responses' = client_responses \o <<answer, Response(d, 0)>>
               /\ responded' = [responded EXCEPT ![c] = @ + 1, ![d] = @ + 1]
  BY <1>4, <1>6, <1>7, Zenon DEF EngineAnswers, Response
<1>9. /\ answer \in A /\ answer \in To(c) /\ answer.nth = responded[c] + 1
      /\ \A e : e # c => answer \notin To(e)
  <2>1. request.nth \in Nat
    BY <1>5 DEF Requests
  <2> QED
    BY <1>2, <1>5, <1>6, <1>7, <2>1, AnswerIs
<1>10. request \in From(c) /\ \A d : d # c => request \notin From(d)
  BY <1>5, <1>6 DEF From
\* The queues keep their types.
<1>11. GatewaysTyped' /\ StreamsTyped' /\ ServerTyped'
  <2>1. GatewaysTyped'
    BY <1>1 DEF IInv, GatewaysTyped
  <2>2. StreamsTyped'
    BY <1>1 DEF IInv, StreamsTyped
  <2>3. ServerTyped'
    BY <1>1 DEF IInv, ServerTyped
  <2> QED
    BY <2>1, <2>2, <2>3
<1>12. Known(cid_tcp_sockets_, torn)' = K /\ Answerable(cid_tcp_sockets_)' = A /\ SocketKnown'
  <2>1. SocketKnown'
    BY <1>1, Zenon DEF IInv, Owned, SocketKnown
  <2> QED
    BY <1>1, <1>2, <2>1 DEF Known, Answerable
<1>13. client_requests' \in Seq(K)
  BY <1>1, <1>3
<1>14. DOMAIN processed' = Clients /\ \A d \in Clients : processed'[d] \in Seq(K \cap From(d))
  <2>1. Append(processed[c], request) \in Seq(K \cap From(c))
    BY <1>3, <1>4, <1>10
  <2> QED
    BY <1>3, <1>8, <2>1
<1>15. client_responses' \in Seq(A) => Owned'
  BY <1>1, <1>3, <1>12, <1>13, <1>14, SeqMono DEF IInv, Owned
\* The responses keep their numbers.
<1>16. responded \in [Clients -> Nat]
       /\ \A e \in Clients : InTurn(client_responses, To(e), cid_next_outgoing_seq_num_[e], responded[e])
  BY DEF IInv, Numbering
<1>17. PICK q, mid : q = Append(client_responses, answer) /\ mid = [responded EXCEPT ![c] = @ + 1]
  OBVIOUS
<1>18. /\ q \in Seq(A) /\ mid \in [Clients -> Nat]
       /\ \A e \in Clients : InTurn(q, To(e), cid_next_outgoing_seq_num_[e], mid[e])
  <2>1. q \in Seq(A) /\ mid \in [Clients -> Nat]
    BY <1>3, <1>9, <1>16, <1>17
  <2>2. DOMAIN responded = Clients
    BY <1>16
  <2>3. \A e \in Clients : InTurn(q, To(e), cid_next_outgoing_seq_num_[e], mid[e])
    BY <1>3, <1>9, <1>16, <1>17, <2>2, Answering
  <2> QED
    BY <2>1, <2>3
<1>19. Owned' /\ Numbering'
  <2>1. CASE client_responses' = q /\ responded' = mid
    BY <1>1, <1>15, <1>18, <2>1 DEF Numbering
  <2>2. ASSUME NEW d \in Clients \ {c}, processed[d] # <<>>,
               client_responses' = client_responses \o <<answer, Response(d, 0)>>,
               responded' = [responded EXCEPT ![c] = @ + 1, ![d] = @ + 1]
        PROVE  Owned' /\ Numbering'
    <3>1. cid_tcp_sockets_[d] \in Gateways
      <4>1. PICK done \in Seq(K \cap From(d)) : done # <<>>
        BY <1>3, <2>2
      <4>2. Head(done) \in K \cap From(d)
        BY <4>1
      <4> QED
        BY <1>2, <4>2 DEF Known, From
    <3>2. PICK told : told = Response(d, 0)
      OBVIOUS
    <3>3. /\ told \in A /\ told \in To(d) /\ told.nth = responded[d] + 1
          /\ \A e : e # d => told \notin To(e)
      BY <1>2, <3>1, <3>2, AnswerIs
    <3>4. mid[d] = responded[d] /\ DOMAIN mid = Clients
      BY <1>16, <1>17
    <3>5. client_responses' = Append(q, told) /\ responded' = [mid EXCEPT ![d] = @ + 1]
      <4>1. client_responses' = Append(q, told)
        BY <1>3, <1>9, <1>17, <2>2, <3>2, <3>3
      <4> QED
        BY <1>16, <1>17, <2>2, <4>1
    <3>6. client_responses' \in Seq(A) /\ responded' \in [Clients -> Nat]
      BY <1>18, <3>3, <3>5
    <3>7. \A e \in Clients : InTurn(client_responses', To(e), cid_next_outgoing_seq_num_[e], responded'[e])
      BY <1>18, <3>3, <3>4, <3>5, Answering
    <3> QED
      BY <1>1, <1>15, <3>6, <3>7 DEF Numbering
  <2> QED
    BY <1>8, <1>17, <2>1, <2>2
\* The request is done.
<1>20. PICK rest : rest = client_requests \o pending_client_requests_
  OBVIOUS
<1>21. /\ client_requests \in Seq(Requests) /\ pending_client_requests_ \in Seq(Requests)
       /\ rest \in Seq(Requests) /\ \A d \in Clients : processed[d] \in Seq(Requests)
  BY <1>20, OwnedRequests
<1>22. /\ rest # <<>> /\ Head(rest) = request
       /\ client_requests' \o pending_client_requests_' = Tail(rest)
  BY <1>1, <1>4, <1>20, <1>21, TailConcat
<1>23. processed'[c] = Append(processed[c], request)
       /\ \A d \in Clients : d # c => processed'[d] = processed[d]
  BY <1>3, <1>8
<1>24. OnlyOnce'
  <2>1. ASSUME NEW d \in Clients
        PROVE  Once(processed'[d], Tail(rest), From(d), cid_next_exp_seq_num_[d] - 1)
    <3>1. Once(processed[d], rest, From(d), cid_next_exp_seq_num_[d] - 1)
      BY <1>20 DEF IInv, OnlyOnce
    <3>2. /\ request \in From(d) => Once(Append(processed[d], request), Tail(rest), From(d),
                                         cid_next_exp_seq_num_[d] - 1)
          /\ request \notin From(d) => Once(processed[d], Tail(rest), From(d),
                                            cid_next_exp_seq_num_[d] - 1)
      BY <1>21, <1>22, <3>1, OnceTail
    <3> QED
      BY <1>10, <1>23, <3>2
  <2> QED
    BY <1>1, <1>22, <2>1 DEF OnlyOnce
<1>25. NoneMissing'
  <2>1. ASSUME NEW d \in Clients
        PROVE  Covered(processed'[d], Tail(rest), From(d), cid_next_exp_seq_num_[d] - 1)
    <3>1. Covered(processed[d], rest, From(d), cid_next_exp_seq_num_[d] - 1)
      BY <1>1, <1>20 DEF IInv, Ordered, NoneMissing
    <3>2. /\ Covered(Append(processed[d], request), Tail(rest), From(d), cid_next_exp_seq_num_[d] - 1)
          /\ request \notin From(d) => Covered(processed[d], Tail(rest), From(d),
                                               cid_next_exp_seq_num_[d] - 1)
      BY <1>21, <1>22, <3>1, CoveredTail
    <3> QED
      BY <1>10, <1>23, <3>2
  <2> QED
    BY <1>1, <1>22, <2>1 DEF NoneMissing
<1>26. Ordered'
  <2>1. SUFFICES ASSUME ~reordered
                 PROVE  /\ \A d \in Clients : \A i \in 1 .. Len(processed'[d]) : processed'[d][i].nth = i
                        /\ Underway'
    BY <1>1, <1>25 DEF Ordered
  <2>2. /\ \A d \in Clients : InTurn(rest, From(d), Len(processed[d]) + 1, cid_next_exp_seq_num_[d] - 1)
        /\ \A d \in Clients : \A i \in 1 .. Len(processed[d]) : processed[d][i].nth = i
    BY <1>1, <1>20, <2>1 DEF IInv, Ordered, Underway
  <2>3. PICK done \in Seq(Requests) : done = processed[c]
    BY <1>21
  <2>4. PICK n \in Nat : n = Len(done)
    BY <2>3
  <2>5. /\ request.nth = n + 1
        /\ InTurn(Tail(rest), From(c), n + 1 + 1, cid_next_exp_seq_num_[c] - 1)
    BY <1>10, <1>21, <1>22, <2>2, <2>3, <2>4, InTurnTail
  <2>6. PICK more : more = Append(done, request)
    OBVIOUS
  <2>7. Len(more) = n + 1 /\ more[n + 1] = request /\ \A i \in 1 .. n : more[i] = done[i]
    BY <1>5, <2>3, <2>4, <2>6
  <2>8. processed'[c] = more
    BY <1>23, <2>3, <2>6
  <2>9. \A i \in 1 .. n + 1 : more[i].nth = i
    BY <2>2, <2>3, <2>4, <2>5, <2>7
  <2>10. ASSUME NEW d \in Clients
         PROVE  /\ \A i \in 1 .. Len(processed'[d]) : processed'[d][i].nth = i
                /\ InTurn(Tail(rest), From(d), Len(processed'[d]) + 1, cid_next_exp_seq_num_[d] - 1)
    <3>1. CASE d = c
      BY <2>5, <2>7, <2>8, <2>9, <3>1
    <3>2. CASE d # c
      <4>1. InTurn(Tail(rest), From(d), Len(processed[d]) + 1, cid_next_exp_seq_num_[d] - 1)
        BY <1>10, <1>21, <1>22, <2>2, <3>2, InTurnTail
      <4> QED
        BY <1>23, <2>2, <3>2, <4>1
    <3> QED
      BY <3>1, <3>2
  <2> QED
    BY <1>1, <1>22, <2>10 DEF Underway
<1> QED
  BY <1>11, <1>19, <1>24, <1>26 DEF IInv

LEMMA EngineFailsInv == ASSUME IInv, EngineFails PROVE IInv'
<1>1. /\ UNCHANGED <<connected, next_outgoing_seq_num_, next_exp_seq_num_, incoming_responses_,
                     torn, upstream, downstream>>
      /\ UNCHANGED <<backlog, receive_sockets_, visiting, cid_tcp_sockets_, cid_next_exp_seq_num_,
                     cid_next_outgoing_seq_num_, pending_client_requests_, server_outbound,
                     client_requests, client_responses, reordered, processed, responded>>
      /\ server' = "Received invalid client-request-type"
  BY Zenon DEF EngineFails, gatewayVars, connectionVars, engineVars
<1>2. GatewaysTyped'
  BY <1>1 DEF IInv, GatewaysTyped
<1>3. StreamsTyped'
  BY <1>1 DEF IInv, StreamsTyped
<1>4. ServerTyped'
  BY <1>1 DEF IInv, ServerTyped
<1>5. Owned'
  <2>1. SocketKnown'
    BY <1>1, Zenon DEF SocketKnown
  <2>2. /\ Known(cid_tcp_sockets_, torn)' = Known(cid_tcp_sockets_, torn)
        /\ Answerable(cid_tcp_sockets_)' = Answerable(cid_tcp_sockets_)
    BY <1>1 DEF Known, Answerable
  <2> QED
    BY <1>1, <2>1, <2>2 DEF IInv, Owned
<1>6. Numbering'
  BY <1>1 DEF IInv, Numbering
<1>7. OnlyOnce'
  BY <1>1 DEF IInv, OnlyOnce
<1>8. Ordered'
  <2>1. server' # "running"
    BY <1>1, Zenon
  <2>2. ~reordered' => \A c \in Clients : \A i \in 1 .. Len(processed'[c]) : processed'[c][i].nth = i
    BY <1>1 DEF IInv, Ordered
  <2> QED
    BY <2>1, <2>2 DEF Ordered
<1> QED
  BY <1>2, <1>3, <1>4, <1>5, <1>6, <1>7, <1>8 DEF IInv

LEMMA Inductive == IInv /\ [Next]_vars => IInv'
<1> SUFFICES ASSUME IInv, [Next]_vars PROVE IInv'
  OBVIOUS
<1>1. CASE \E g \in Gateways : Connect(g)
  BY <1>1, ConnectInv
<1>2. CASE \E g \in Gateways : GatewayStep(g)
  BY <1>2, GatewayStepInv
<1>3. CASE ServerStep
  <2>1. UNCHANGED <<gatewayVars, engineVars>>
    BY <1>3 DEF ServerStep
  <2> QED
    BY <1>3, <2>1, PollInv, ReadSocketInv, SequenceAndPublishInv, SendResponsesInv, Zenon
       DEF ServerStep, Server!Next
<1>4. CASE EngineStep
  BY <1>4, EngineAnswersInv, EngineFailsInv DEF EngineStep
<1>5. CASE UNCHANGED vars
  <2>1. UNCHANGED <<connected, next_outgoing_seq_num_, next_exp_seq_num_, incoming_responses_,
                    torn, upstream, downstream>>
    BY <1>5 DEF vars, gatewayVars, connectionVars
  <2>2. UNCHANGED <<backlog, receive_sockets_, visiting, cid_tcp_sockets_, cid_next_exp_seq_num_,
                    cid_next_outgoing_seq_num_, pending_client_requests_, server_outbound,
                    client_requests, client_responses, server, reordered>>
    BY <1>5 DEF vars, serverVars
  <2>3. UNCHANGED <<processed, responded>>
    BY <1>5 DEF vars, engineVars
  <2>4. GatewaysTyped'
    BY <2>1 DEF IInv, GatewaysTyped
  <2>5. StreamsTyped'
    BY <2>1, <2>2 DEF IInv, StreamsTyped
  <2>6. ServerTyped'
    BY <2>2 DEF IInv, ServerTyped
  <2>7. Owned' /\ Numbering' /\ OnlyOnce' /\ Ordered'
    BY <2>1, <2>2, <2>3, QueuesStay
  <2> QED
    BY <2>4, <2>5, <2>6, <2>7 DEF IInv
<1> QED
  BY <1>1, <1>2, <1>3, <1>4, <1>5 DEF Next

\* The strengthening of the properties below that every step preserves: besides
\* types, that streams are made of whole messages unless they are torn, that what
\* is under way came through its client's socket, and that nothing is there twice.
THEOREM InvAlways == Spec => []IInv
<1>1. Init => IInv
  BY InitInv
<1> QED
  BY <1>1, Inductive, PTL DEF Spec
----------------------------------------------------------------------------
(* What it implies.                                                         *)

LEMMA TypeOKImplied == ASSUME IInv PROVE TypeOK
<1>1. /\ connected \in [Gateways -> BOOLEAN]
      /\ \A g \in Gateways : next_outgoing_seq_num_[g] \in Nat \ {0}
      /\ \A g \in Gateways : next_exp_seq_num_[g] = Len(incoming_responses_[g]) + 1
  BY DEF IInv, GatewaysTyped, Received
<1>2. /\ visiting \in 0 .. Len(receive_sockets_) + 2
      /\ cid_tcp_sockets_ \in [Clients -> Gateways \cup {None}]
      /\ \A c \in Clients : cid_next_exp_seq_num_[c] \in Nat \ {0}
      /\ Len(pending_client_requests_) <= ME_MAX_PENDING_REQUESTS
  BY DEF IInv, ServerTyped
<1>3. \A c \in Clients : cid_next_outgoing_seq_num_[c] <= responded[c] + 1
  BY DEF IInv, Numbering, InTurn
<1> QED
  BY <1>1, <1>2, <1>3 DEF TypeOK

LEMMA ResponsesImplied == ASSUME IInv PROVE ResponsesInOrder
<1>1. ASSUME NEW g \in Gateways, NEW i \in DOMAIN incoming_responses_[g]
      PROVE  /\ incoming_responses_[g][i].client_id_ = ClientOf[g]
             /\ \/ incoming_responses_[g][i].nth = i
                \/ incoming_responses_[g][i].nth = Spliced /\ <<"down", g>> \in torn
  <2>1. PICK q : q = incoming_responses_[g]
    OBVIOUS
  <2>2. /\ q \in Seq(Passed)
        /\ \A j \in 1 .. Len(q) :
              /\ q[j].client_id_ = ClientOf[g]
              /\ q[j].nth = j \/ (q[j].nth = Spliced /\ <<"down", g>> \in torn)
    BY <2>1 DEF IInv, GatewaysTyped, Received
  <2>3. i \in 1 .. Len(q)
    BY <1>1, <2>1, <2>2
  <2> QED
    BY <2>1, <2>2, <2>3
<1> QED
  BY <1>1 DEF ResponsesInOrder

LEMMA RequestsImplied == ASSUME IInv PROVE RequestsInOrder
<1>1. ASSUME NEW c \in Clients
      PROVE  \E g \in Gateways \cup {None} : \A i \in DOMAIN processed[c] :
                /\ \/ processed[c][i].from = g
                   \/ processed[c][i].from = Spliced /\ <<"up", g>> \in torn
                /\ processed[c][i].nth = i \/ reordered
                /\ \A j \in DOMAIN processed[c] : processed[c][i].nth = processed[c][j].nth => i = j
                /\ server = "running" => \A n \in 1 .. processed[c][i].nth : NotLost(c, n)
  <2>1. PICK done : done = processed[c]
    OBVIOUS
  <2>2. done \in Seq(Known(cid_tcp_sockets_, torn) \cap From(c))
    BY <2>1 DEF IInv, Owned
  <2>3. \A i, j \in 1 .. Len(done) : done[i].nth = done[j].nth => i = j
    BY <2>1 DEF IInv, OnlyOnce, Once
  <2>4. reordered \/ \A i \in 1 .. Len(done) : done[i].nth = i
    BY <2>1 DEF IInv, Ordered
  <2>5. PICK g \in Gateways \cup {None} : g = cid_tcp_sockets_[c]
    BY DEF IInv, ServerTyped
  <2>6. ASSUME NEW i \in 1 .. Len(done)
        PROVE  done[i].from = g \/ (done[i].from = Spliced /\ <<"up", g>> \in torn)
    <3>1. done[i] \in Known(cid_tcp_sockets_, torn) /\ done[i].client_id_ = c
      BY <2>2 DEF From
    <3> QED
      BY <2>5, <3>1 DEF Known, Through
  <2>7. DOMAIN done = 1 .. Len(done)
    BY <2>2
  <2>8. ASSUME server = "running", NEW i \in 1 .. Len(done), NEW n \in 1 .. done[i].nth
        PROVE  NotLost(c, n)
    <3>1. PICK q : q = client_requests \o pending_client_requests_
      OBVIOUS
    <3>2. Covered(done, q, From(c), cid_next_exp_seq_num_[c] - 1)
      BY <2>1, <2>8, <3>1 DEF IInv, Ordered, NoneMissing
    <3>3. n \in 1 .. cid_next_exp_seq_num_[c] - 1
      <4>1. done[i].nth \in 1 .. cid_next_exp_seq_num_[c] - 1
        BY <2>1 DEF IInv, OnlyOnce, Once
      <4>2. cid_next_exp_seq_num_[c] \in Nat
        BY DEF IInv, ServerTyped
      <4> QED
        BY <4>1, <4>2
    <3>4. q \in Seq(Requests)
      BY <3>1, OwnedRequests
    <3>5. DOMAIN q = 1 .. Len(q)
      BY <3>4
    <3> QED
      BY <2>1, <2>7, <3>1, <3>2, <3>3, <3>5 DEF Covered, NotLost, From
  <2> QED
    BY <2>1, <2>3, <2>4, <2>6, <2>7, <2>8
<1> QED
  BY <1>1 DEF RequestsInOrder

LEMMA SocketImplied == ASSUME IInv PROVE SocketKnown
BY DEF IInv, Owned

\* The types, the bound of the pending requests, and that the server has not
\* numbered more responses than there are.
THEOREM TypeOKAlways == Spec => []TypeOK
BY InvAlways, TypeOKImplied, PTL

\* No strategy is given a response twice, out of turn or of another client, none
\* is left out, and none is made up of two unless a message to it has been cut
\* short: whatever the sockets drop, and however often a client is restarted.
THEOREM ResponsesInOrderAlways == Spec => []ResponsesInOrder
BY InvAlways, ResponsesImplied, PTL

\* The ASSERT of the order server's run() holds.
THEOREM SocketKnownAlways == Spec => []SocketKnown
BY InvAlways, SocketImplied, PTL

\* The engine is given the requests of a client from one socket, without gap, once
\* and in order, unless std::sort has changed the order; and none made up of two
\* unless a message of that gateway has been cut short.
THEOREM RequestsInOrderAlways == Spec => []RequestsInOrder
BY InvAlways, RequestsImplied, PTL
=============================================================================
