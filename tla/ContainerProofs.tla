-------------------------- MODULE ContainerProofs --------------------------
(***************************************************************************)
(* The two containers of common/, for every size.                          *)
(*                                                                         *)
(* The ring: with any messages, it is never overwritten under its reader   *)
(* when its producer is held back in time, at Capacity messages for a      *)
(* consumer that is done with the message before it calls updateReadIndex, *)
(* and at one less for one that is not; and it then is a queue.            *)
(*                                                                         *)
(* The pool: whatever its callers give back, it hands out no block that is *)
(* in use, and gives up only when all are.                                 *)
(***************************************************************************)
EXTENDS LFQueue, MemPool, TLAPS
----------------------------------------------------------------------------
(* The ring.                                                               *)

\* What the queue itself does not check.
HeldBack == MaxBacklog + (IF ReadAfterRelease THEN 1 ELSE 0) <= Capacity

\* The slot k places after slot i, for k up to Capacity.
After(i, k) == IF i + k < Capacity THEN i + k ELSE i + k - Capacity

\* The messages that lie in the ring from next_read_index_ on.
Ahead == num_elements_ - (IF consumer = "advanced" THEN 1 ELSE 0)

\* A message is on its way only while there is room for it.
Room == producer # "idle" => num_elements_ < MaxBacklog

\* Why the slots do not meet: the producer stands as many slots ahead of the
\* consumer as there are messages between them, and that is less than the
\* whole ring while it writes.
Positions ==
    /\ consumer \in {"peeked", "used", "advanced"} => num_elements_ > 0
    /\ consumer \in {"peeked", "used"} => reading = next_read_index_
    /\ consumer \in {"advanced", "released"} =>
          next_read_index_ = After(reading, 1)
    /\ next_write_index_ =
          After(next_read_index_, Ahead + (IF producer = "advanced" THEN 1 ELSE 0))
    /\ ~ReadAfterRelease => consumer # "released"

LEMMA ModSmall == \A i \in 0 .. Capacity - 1 : i % Capacity = i
  BY LFQueueAssumption

LEMMA ModLarge ==
    \A i \in Capacity .. 2 * Capacity - 1 : i % Capacity = i - Capacity
  BY LFQueueAssumption

\* (next_read_index_ + k) % Capacity is the slot k places on.
LEMMA AfterIsMod ==
    \A i \in Slots : \A k \in 0 .. Capacity : (i + k) % Capacity = After(i, k)
<1> TAKE i \in Slots
<1> TAKE k \in 0 .. Capacity
<1>1. CASE i + k < Capacity
  <2>1. i + k \in 0 .. Capacity - 1
    BY <1>1, LFQueueAssumption DEF Slots
  <2> QED
    BY <1>1, <2>1, ModSmall DEF After
<1>2. CASE ~(i + k < Capacity)
  <2>1. i + k \in Capacity .. 2 * Capacity - 1
    BY <1>2, LFQueueAssumption DEF Slots
  <2> QED
    BY <1>2, <2>1, ModLarge, LFQueueAssumption DEF After, Slots
<1> QED
  BY <1>1, <1>2

LEMMA FollowingIsAfter == \A i \in Slots : Following(i) = After(i, 1)
  BY AfterIsMod, LFQueueAssumption DEF Following

LEMMA AfterType == \A i \in Slots : \A k \in 0 .. Capacity : After(i, k) \in Slots
  BY LFQueueAssumption DEF After, Slots

\* Type correctness of the queue, overrun or not.
THEOREM TypeCorrect == Spec => [](TypeOK /\ Room)
<1>1. Init => TypeOK /\ Room
  BY LFQueueAssumption DEF Init, TypeOK, Slots, Room
<1>2. TypeOK /\ Room /\ [Next]_vars => TypeOK' /\ Room'
  <2> SUFFICES ASSUME TypeOK, Room, [Next]_vars PROVE TypeOK' /\ Room'
    OBVIOUS
  <2> USE LFQueueAssumption DEF TypeOK, Room, producerVars, consumerVars
  <2>0. \A i \in Slots : Following(i) \in Slots
    BY FollowingIsAfter, AfterType
  <2>1. ASSUME NEW m \in Messages, BeginWrite(m) PROVE TypeOK' /\ Room'
    BY <2>1 DEF BeginWrite
  <2>2. CASE FinishWrite
    BY <2>2 DEF FinishWrite
  <2>3. CASE AdvanceWriteIndex
    BY <2>3, <2>0 DEF AdvanceWriteIndex
  <2>4. CASE Publish
    BY <2>4 DEF Publish
  <2>5. CASE GetNextToRead
    BY <2>5 DEF GetNextToRead
  <2>6. CASE Use
    BY <2>6 DEF Use
  <2>7. CASE AdvanceReadIndex
    BY <2>7, <2>0 DEF AdvanceReadIndex
  <2>8. CASE Release
    BY <2>8 DEF Release
  <2>9. CASE UseAgain
    BY <2>9 DEF UseAgain
  <2>10. CASE UNCHANGED vars
    BY <2>10 DEF vars
  <2> QED
    BY <2>1, <2>2, <2>3, <2>4, <2>5, <2>6, <2>7, <2>8, <2>9, <2>10
    DEF Next, Produce, Consume
<1> QED
  BY <1>1, <1>2, PTL DEF Spec

\* The distance between the two ends of the ring is what num_elements_ says.
LEMMA PositionsInvariant == ASSUME HeldBack PROVE Spec => []Positions
<1>1. Init => Positions
  BY LFQueueAssumption DEF Init, Positions, Ahead, After
<1>2. TypeOK /\ Room /\ Positions /\ [Next]_vars => Positions'
  <2> SUFFICES ASSUME TypeOK, Room, Positions, [Next]_vars PROVE Positions'
    OBVIOUS
  <2> USE LFQueueAssumption, HeldBack, FollowingIsAfter
      DEF HeldBack, TypeOK, Room, Positions, Ahead, Slots, After,
          producerVars, consumerVars
  <2>1. ASSUME NEW m \in Messages, BeginWrite(m) PROVE Positions'
    BY <2>1 DEF BeginWrite
  <2>2. CASE FinishWrite
    BY <2>2 DEF FinishWrite
  <2>3. CASE AdvanceWriteIndex
    BY <2>3 DEF AdvanceWriteIndex
  <2>4. CASE Publish
    BY <2>4 DEF Publish
  <2>5. CASE GetNextToRead
    BY <2>5 DEF GetNextToRead
  <2>6. CASE Use
    BY <2>6 DEF Use
  <2>7. CASE AdvanceReadIndex
    BY <2>7 DEF AdvanceReadIndex
  <2>8. CASE Release
    BY <2>8 DEF Release
  <2>9. CASE UseAgain
    BY <2>9 DEF UseAgain
  <2>10. CASE UNCHANGED vars
    BY <2>10 DEF vars
  <2> QED
    BY <2>1, <2>2, <2>3, <2>4, <2>5, <2>6, <2>7, <2>8, <2>9, <2>10
    DEF Next, Produce, Consume
<1> QED
  BY <1>1, <1>2, TypeCorrect, PTL DEF Spec

\* A producer held back in time never assigns to a slot its consumer may still
\* read, in any interleaving of the accesses to the three atomics.
THEOREM NoOverwriteAlways == ASSUME HeldBack PROVE Spec => []NoOverwrite
<1>1. TypeOK /\ Room /\ Positions => NoOverwrite
  <2> SUFFICES ASSUME TypeOK, Room, Positions, producer = "writing"
               PROVE  /\ consumer # "idle" => reading # next_write_index_
                      /\ consumer # "advanced" => \A k \in 0 .. num_elements_ - 1 :
                            next_write_index_ # (next_read_index_ + k) % Capacity
    BY DEF NoOverwrite
  <2> USE LFQueueAssumption, HeldBack
      DEF HeldBack, TypeOK, Room, Positions, Ahead, Slots, After
  <2>1. consumer # "idle" => reading # next_write_index_
    OBVIOUS
  <2>2. ASSUME consumer # "advanced", NEW k \in 0 .. num_elements_ - 1
        PROVE  next_write_index_ # (next_read_index_ + k) % Capacity
    <3>1. (next_read_index_ + k) % Capacity = After(next_read_index_, k)
      BY AfterIsMod
    <3> QED
      BY <2>2, <3>1
  <2> QED
    BY <2>1, <2>2
<1> QED
  BY <1>1, TypeCorrect, PositionsInvariant, PTL

\* The message in the consumer's hands is the one in the slot, from the moment
\* it is used until the consumer turns to the next.
InHand == consumer \in {"used", "advanced", "released"} => taken = <<store_[reading]>>

\* MarketDataPublisher copies the message it has sent, as long as one slot of
\* its queue stays unused.
THEOREM SecondReadAlwaysTheSame ==
    ASSUME HeldBack PROVE Spec => []SecondReadIsTheSame
<1>1. Init => InHand
  BY DEF Init, InHand
<1>2. TypeOK /\ Room /\ Positions /\ InHand /\ [Next]_vars => InHand'
  <2> SUFFICES ASSUME TypeOK, Room, Positions, InHand, [Next]_vars PROVE InHand'
    OBVIOUS
  <2> USE LFQueueAssumption DEF TypeOK, InHand, producerVars, consumerVars
  <2>0. /\ consumer # "idle"
        /\ producer # "advanced"
        /\ num_elements_ < MaxBacklog
        => reading # next_write_index_
    BY HeldBack DEF HeldBack, Positions, Ahead, Slots, After
  <2>1. ASSUME NEW m \in Messages, BeginWrite(m) PROVE InHand'
    BY <2>0, <2>1 DEF BeginWrite
  <2>2. CASE FinishWrite
    BY <2>0, <2>2 DEF FinishWrite, Room
  <2>3. CASE AdvanceWriteIndex \/ Publish
    BY <2>3 DEF AdvanceWriteIndex, Publish
  <2>4. CASE GetNextToRead \/ Use
    BY <2>4 DEF GetNextToRead, Use
  <2>5. CASE AdvanceReadIndex \/ Release \/ UseAgain
    BY <2>5 DEF AdvanceReadIndex, Release, UseAgain
  <2>6. CASE UNCHANGED vars
    BY <2>6 DEF vars
  <2> QED
    BY <2>1, <2>2, <2>3, <2>4, <2>5, <2>6 DEF Next, Produce, Consume
<1>3. InHand => SecondReadIsTheSame
  BY DEF InHand, SecondReadIsTheSame
<1> QED
  BY <1>1, <1>2, <1>3, TypeCorrect, PositionsInvariant, PTL DEF Spec
----------------------------------------------------------------------------
(* The ring implements FIFOChannel, step by step.                          *)

\* The first slot whose message is not taken, and how many there are.
Unreleased == IF consumer = "used" THEN 1 ELSE 0
Waiting == num_elements_ - (IF Taken THEN 1 ELSE 0)

\* The message to be published is in its slot: the one after those waiting.
Written ==
    /\ producer = "written" => store_[next_write_index_] = input
    /\ producer = "advanced" => store_[After(next_read_index_, Ahead)] = input

RingInv == TypeOK /\ Room /\ Positions /\ Written

\* The queue, slot by slot.
LEMMA ChanIs ==
    HeldBack /\ RingInv =>
        /\ Waiting \in 0 .. Capacity
        /\ chan = [i \in 1 .. Waiting |-> store_[After(next_read_index_, i - 1 + Unreleased)]]
<1> SUFFICES ASSUME HeldBack, RingInv
             PROVE  /\ Waiting \in 0 .. Capacity
                    /\ chan = [i \in 1 .. Waiting |->
                                  store_[After(next_read_index_, i - 1 + Unreleased)]]
  OBVIOUS
<1> USE LFQueueAssumption
<1>1. Waiting \in 0 .. Capacity /\ Waiting + Unreleased <= Capacity
  BY DEF HeldBack, RingInv, TypeOK, Positions, Waiting, Taken, Unreleased
<1>2. ASSUME NEW i \in 1 .. Waiting
      PROVE  (next_read_index_ + i - (IF consumer = "used" THEN 0 ELSE 1)) % Capacity
                = After(next_read_index_, i - 1 + Unreleased)
  <2>1. i - 1 + Unreleased \in 0 .. Capacity
    BY <1>1 DEF Unreleased
  <2>2. next_read_index_ + i - (IF consumer = "used" THEN 0 ELSE 1)
           = next_read_index_ + (i - 1 + Unreleased)
    BY <1>1 DEF Unreleased, RingInv, TypeOK, Slots
  <2> QED
    BY <2>1, <2>2, AfterIsMod DEF RingInv, TypeOK
<1> QED
  BY <1>1, <1>2 DEF chan, Waiting

\* The producer's message stays in its slot until it is the consumer's.
LEMMA WrittenInvariant == ASSUME HeldBack PROVE Spec => []RingInv
<1>1. Init => Written
  BY DEF Init, Written
<1>2. TypeOK /\ Room /\ Positions /\ Written /\ [Next]_vars => Written'
  <2> SUFFICES ASSUME TypeOK, Room, Positions, Written, [Next]_vars PROVE Written'
    OBVIOUS
  <2> USE LFQueueAssumption, HeldBack, FollowingIsAfter
      DEF HeldBack, TypeOK, Room, Positions, Written, Ahead, Slots, After,
          producerVars, consumerVars
  <2>1. ASSUME NEW m \in Messages, BeginWrite(m) PROVE Written'
    BY <2>1 DEF BeginWrite
  <2>2. CASE FinishWrite
    BY <2>2 DEF FinishWrite
  <2>3. CASE AdvanceWriteIndex
    BY <2>3 DEF AdvanceWriteIndex
  <2>4. CASE Publish
    BY ONLY <2>4 DEF Publish, Written
  <2>5. CASE GetNextToRead
    BY <2>5 DEF GetNextToRead
  <2>6. CASE Use
    BY <2>6 DEF Use
  <2>7. CASE AdvanceReadIndex
    <3>1. After(next_read_index_, Ahead)' = After(next_read_index_, Ahead)
      BY <2>7 DEF AdvanceReadIndex
    <3> QED
      BY <2>7, <3>1 DEF AdvanceReadIndex
  <2>8. CASE Release
    BY <2>8 DEF Release
  <2>9. CASE UseAgain
    BY <2>9 DEF UseAgain
  <2>10. CASE UNCHANGED vars
    BY <2>10 DEF vars
  <2> QED
    BY <2>1, <2>2, <2>3, <2>4, <2>5, <2>6, <2>7, <2>8, <2>9, <2>10
    DEF Next, Produce, Consume
<1> QED
  BY <1>1, <1>2, TypeCorrect, PositionsInvariant, PTL DEF Spec, RingInv

\* Publish adds a message at the end, Use takes the first, and no other step of
\* either thread changes the queue.
LEMMA StepOfChannel ==
    ASSUME HeldBack, RingInv, RingInv', [Next]_vars
    PROVE  [Channel!Next]_<<chan, taken>>
<1> DEFINE Slot(i) == After(next_read_index_, i - 1 + Unreleased)
<1>1. /\ Waiting \in 0 .. Capacity
      /\ chan = [i \in 1 .. Waiting |-> store_[Slot(i)]]
  BY ChanIs
<1>2. /\ Waiting' \in 0 .. Capacity
      /\ chan' = [i \in 1 .. Waiting' |-> store_'[Slot(i)']]
  <2>1. (HeldBack /\ RingInv =>
            /\ Waiting \in 0 .. Capacity
            /\ chan = [i \in 1 .. Waiting |-> store_[After(next_read_index_, i - 1 + Unreleased)]])'
    BY ChanIs, PTL
  <2> QED
    BY <2>1 DEF HeldBack
<1> HIDE DEF Slot
<1>3. ASSUME Waiting' = Waiting, taken' = taken,
             \A i \in 1 .. Waiting : store_'[Slot(i)'] = store_[Slot(i)]
      PROVE  UNCHANGED <<chan, taken>>
  <2>1. chan' = [i \in 1 .. Waiting |-> store_'[Slot(i)']]
    BY <1>2, <1>3
  <2> QED
    BY <1>1, <1>3, <2>1
<1> USE LFQueueAssumption, FollowingIsAfter
    DEF RingInv, TypeOK, Slots, Waiting, Taken, Unreleased, producerVars, consumerVars
<1>4. ASSUME NEW m \in Messages, BeginWrite(m) PROVE UNCHANGED <<chan, taken>>
  <2>1. \A i \in 1 .. Waiting : Slot(i) # next_write_index_
    BY <1>1, <1>4 DEF BeginWrite, HeldBack, Positions, Ahead, After, Slot
  <2>2. \A i \in 1 .. Waiting : Slot(i)' = Slot(i)
    BY <1>4 DEF BeginWrite, After, Slot
  <2> QED
    BY <1>3, <1>4, <2>1, <2>2 DEF BeginWrite
<1>5. CASE FinishWrite
  <2>1. \A i \in 1 .. Waiting : Slot(i) # next_write_index_
    BY <1>1, <1>5 DEF FinishWrite, HeldBack, Room, Positions, Ahead, After, Slot
  <2>2. \A i \in 1 .. Waiting : Slot(i)' = Slot(i)
    BY <1>5 DEF FinishWrite, After, Slot
  <2> QED
    BY <1>3, <1>5, <2>1, <2>2 DEF FinishWrite
<1>6. CASE AdvanceWriteIndex
  BY <1>3, <1>6 DEF AdvanceWriteIndex, Slot, After
<1>7. CASE Publish
  <2>1. Waiting' = Waiting + 1 /\ \A i \in 1 .. Waiting' : Slot(i)' = Slot(i)
    BY <1>7 DEF Publish, Slot, After
  <2>2. Slot(Waiting + 1) = After(next_read_index_, Ahead)
    BY <1>7 DEF Publish, Slot, Ahead, Positions
  <2>3. store_[Slot(Waiting + 1)] = input
    BY <1>7, <2>2 DEF Publish, Written
  <2>4. chan' = Append(chan, input)
    BY <1>1, <1>2, <1>7, <2>1, <2>3 DEF Publish
  <2>5. UNCHANGED taken
    BY <1>7 DEF Publish
  <2> QED
    BY <2>4, <2>5 DEF Channel!Publish, Channel!Next
<1>8. CASE GetNextToRead
  BY <1>3, <1>8 DEF GetNextToRead, Slot, After
<1>9. CASE Use
  <2>1. /\ Waiting > 0 /\ Waiting' = Waiting - 1
        /\ \A i \in 1 .. Waiting' : Slot(i)' = Slot(i + 1)
    BY <1>9 DEF Use, Slot, After, Positions
  <2>2. reading = Slot(1)
    BY <1>9 DEF Use, Slot, After, Positions
  <2>3. taken' = <<Head(chan)>> /\ chan # <<>>
    BY <1>1, <1>9, <2>1, <2>2 DEF Use
  <2>4. Tail(chan) = [i \in 1 .. Waiting - 1 |-> store_[Slot(i + 1)]]
    BY <1>1, <2>1
  <2>5. chan' = [i \in 1 .. Waiting - 1 |-> store_[Slot(i + 1)]]
    BY <1>2, <1>9, <2>1 DEF Use
  <2> QED
    BY <2>3, <2>4, <2>5 DEF Channel!Take, Channel!Next
<1>10. CASE AdvanceReadIndex
  <2>1. \A i \in 1 .. Waiting : Slot(i)' = Slot(i)
    BY <1>1, <1>10 DEF AdvanceReadIndex, Slot, After, Positions
  <2> QED
    BY <1>3, <1>10, <2>1 DEF AdvanceReadIndex
<1>11. CASE Release
  BY <1>3, <1>11 DEF Release, Slot, After
<1>12. CASE UseAgain
  BY <1>3, <1>12 DEF UseAgain, Slot, After
<1>13. CASE UNCHANGED vars
  BY <1>3, <1>13 DEF vars, Slot, After
<1> QED
  BY <1>4, <1>5, <1>6, <1>7, <1>8, <1>9, <1>10, <1>11, <1>12, <1>13
     DEF Next, Produce, Consume

\* The safety part of ImplementsFIFOChannel.
ChannelSafety == Channel!Init /\ [][Channel!Next]_<<chan, taken>>

\* A ring of any size whose producer is held back in time is a queue: in every
\* interleaving of the accesses to the three atomics and of the two halves of an
\* assignment, messages come out whole, once and in the order they were published.
THEOREM RingIsAQueue == ASSUME HeldBack PROVE Spec => ChannelSafety
<1>1. Init => Channel!Init
  BY DEF Init, Channel!Init, chan, Taken
<1>2. HeldBack /\ RingInv /\ RingInv' /\ [Next]_vars => [Channel!Next]_<<chan, taken>>
  BY StepOfChannel
<1> QED
  BY <1>1, <1>2, HeldBack, WrittenInvariant, PTL DEF Spec, ChannelSafety
----------------------------------------------------------------------------
(* The pool.                                                               *)

\* Type correctness of the pool.
THEOREM PoolTypeCorrect == PoolSpec => []PoolTypeOK
<1>1. PoolInit => PoolTypeOK
  BY NumElemsAssumption DEF PoolInit, PoolTypeOK, Indices
<1>2. PoolTypeOK /\ [PoolNext]_poolVars => PoolTypeOK'
  <2> SUFFICES ASSUME PoolTypeOK, [PoolNext]_poolVars PROVE PoolTypeOK'
    OBVIOUS
  <2> USE DEF PoolTypeOK
  <2>1. CASE Allocate
    BY <2>1 DEF Allocate, UpdateNextFreeIndex
  <2>2. ASSUME NEW i \in Indices, Deallocate(i) PROVE PoolTypeOK'
    BY <2>2 DEF Deallocate
  <2>3. CASE UNCHANGED poolVars
    BY <2>3 DEF poolVars
  <2> QED
    BY <2>1, <2>2, <2>3 DEF PoolNext
<1> QED
  BY <1>1, <1>2, PTL DEF PoolSpec

\* Whatever the pool's size and whatever its callers give back, allocate()
\* never finds the block it hands out in use.
THEOREM NextIsFreeAlways == PoolSpec => []NextIsFree
<1>1. PoolInit => NextIsFree
  BY NumElemsAssumption DEF PoolInit, NextIsFree, Indices
<1>2. PoolTypeOK /\ NextIsFree /\ [PoolNext]_poolVars => NextIsFree'
  <2> SUFFICES ASSUME PoolTypeOK, NextIsFree, [PoolNext]_poolVars PROVE NextIsFree'
    OBVIOUS
  <2> USE DEF PoolTypeOK, NextIsFree
  <2>1. CASE Allocate
    \* The scan stops at a free block or ends the process.
    BY <2>1 DEF Allocate, UpdateNextFreeIndex
  <2>2. ASSUME NEW i \in Indices, Deallocate(i) PROVE NextIsFree'
    \* Giving a block back only adds free blocks.
    BY <2>2 DEF Deallocate
  <2>3. CASE UNCHANGED poolVars
    BY <2>3 DEF poolVars
  <2> QED
    BY <2>1, <2>2, <2>3 DEF PoolNext
<1> QED
  BY <1>1, <1>2, PoolTypeCorrect, PTL DEF PoolSpec

\* Whatever the pool's size, its scan misses no free block: once it has given up
\* there is none, and the process takes no more steps.
THEOREM OutOfSpaceOnlyWhenFullAlways == PoolSpec => []OutOfSpaceOnlyWhenFull
<1>1. PoolInit => OutOfSpaceOnlyWhenFull
  BY DEF PoolInit, OutOfSpaceOnlyWhenFull
<1>2. OutOfSpaceOnlyWhenFull /\ [PoolNext]_poolVars => OutOfSpaceOnlyWhenFull'
  <2> SUFFICES ASSUME OutOfSpaceOnlyWhenFull, [PoolNext]_poolVars
               PROVE OutOfSpaceOnlyWhenFull'
    OBVIOUS
  <2> USE DEF OutOfSpaceOnlyWhenFull
  <2>1. CASE Allocate
    BY <2>1 DEF Allocate, UpdateNextFreeIndex, Indices
  <2>2. ASSUME NEW i \in Indices, Deallocate(i) PROVE OutOfSpaceOnlyWhenFull'
    BY <2>2 DEF Deallocate
  <2>3. CASE UNCHANGED poolVars
    BY <2>3 DEF poolVars, Indices
  <2> QED
    BY <2>1, <2>2, <2>3 DEF PoolNext
<1> QED
  BY <1>1, <1>2, PTL DEF PoolSpec
=============================================================================
