------------------------------ MODULE LFQueue ------------------------------
(***************************************************************************)
(* common/lf_queue.hpp: the single-producer, single-consumer ring buffer   *)
(* between every two threads of the exchange and of the trading client.    *)
(*                                                                         *)
(* The producer asks for a slot (getNextWriteTo), assigns a message to it  *)
(* and calls updateWriteIndex; the consumer polls getNextToRead, uses the  *)
(* message in place and calls updateReadIndex.  The two indices and the    *)
(* element count are separate atomics, so that every access to one of them *)
(* is a step; an assignment to a slot is two, between which the slot is    *)
(* torn.                                                                   *)
(*                                                                         *)
(* updateWriteIndex does not look whether the ring is full.  MaxBacklog is *)
(* the assumption on the environment that stands in for that check: the    *)
(* most messages ever waiting.  The runs and the proofs say which value is *)
(* safe; above it the model overwrites slots as the code does.             *)
(***************************************************************************)
EXTENDS Integers, Sequences

CONSTANTS
    Capacity,       \* num_element, the size of store_
    MaxBacklog,     \* most messages published and not released
    ReadAfterRelease, \* the consumer is MarketDataPublisher::run, which copies
                    \* *market_update once more after updateReadIndex()
    Messages,
    Torn            \* a slot in the middle of an assignment

ASSUME LFQueueAssumption ==
    /\ Capacity \in Nat \ {0}
    /\ MaxBacklog \in Nat \ {0}
    /\ ReadAfterRelease \in BOOLEAN
    /\ Torn \notin Messages

VARIABLES
    store_, next_write_index_, next_read_index_, num_elements_,
    producer,       \* where the producer is in its calls
    input,          \* the message it is publishing
    consumer,       \* where the consumer is in its calls
    reading,        \* the slot getNextToRead returned
    taken           \* what the consumer found in it; <<>> before the first

producerVars == <<store_, next_write_index_, producer, input>>
consumerVars == <<next_read_index_, consumer, reading, taken>>
vars == <<producerVars, consumerVars, num_elements_>>

Slots == 0 .. Capacity - 1

Init ==
    /\ store_ \in [Slots -> Messages]       \* default-constructed messages
    /\ \A i, j \in Slots : store_[i] = store_[j]
    /\ next_write_index_ = 0
    /\ next_read_index_ = 0
    /\ num_elements_ = 0
    /\ producer = "idle"
    /\ input \in Messages
    /\ consumer = "idle"
    /\ reading = 0
    /\ taken = <<>>

\* Defect for the mutation runs: the wrap-around one slot late.
WrapLate(i) == IF i = Capacity THEN 0 ELSE i + 1

\* The increment of both indices.
Following(i) == (i + 1) % Capacity
----------------------------------------------------------------------------
(* The producer: getNextWriteTo, the assignment, updateWriteIndex.         *)

\* Defect: a producer that lets the ring fill to the last slot, which is one
\* too many for a consumer that reads after it has released.
BeginWriteToTheBrim(m) ==
    /\ producer = "idle"
    /\ num_elements_ < Capacity
    /\ input' = m
    /\ store_' = [store_ EXCEPT ![next_write_index_] = Torn]
    /\ producer' = "writing"
    /\ UNCHANGED <<next_write_index_, num_elements_, consumerVars>>

BeginWrite(m) ==
    /\ producer = "idle"
    /\ num_elements_ < MaxBacklog
    /\ input' = m
    /\ store_' = [store_ EXCEPT ![next_write_index_] = Torn]
    /\ producer' = "writing"
    /\ UNCHANGED <<next_write_index_, num_elements_, consumerVars>>

\* Defect: publication before the message is complete.
FinishNothing ==
    /\ producer = "writing"
    /\ producer' = "written"
    /\ UNCHANGED <<store_, input, next_write_index_, num_elements_, consumerVars>>

FinishWrite ==
    /\ producer = "writing"
    /\ store_' = [store_ EXCEPT ![next_write_index_] = input]
    /\ producer' = "written"
    /\ UNCHANGED <<input, next_write_index_, num_elements_, consumerVars>>

\* Defect: the index left where it was.
AdvanceNothing ==
    /\ producer = "written"
    /\ producer' = "advanced"
    /\ UNCHANGED <<store_, input, next_write_index_, num_elements_, consumerVars>>

AdvanceWriteIndex ==
    /\ producer = "written"
    /\ next_write_index_' = Following(next_write_index_)
    /\ producer' = "advanced"
    /\ UNCHANGED <<store_, input, num_elements_, consumerVars>>

\* num_elements_++ : the message is the consumer's from here on.
Publish ==
    /\ producer = "advanced"
    /\ num_elements_' = num_elements_ + 1
    /\ producer' = "idle"
    /\ UNCHANGED <<store_, input, next_write_index_, consumerVars>>
----------------------------------------------------------------------------
(* The consumer: its polling loop, the use of the message, updateReadIndex.*)

GetNextToRead ==
    /\ consumer = "idle"
    /\ num_elements_ # 0
    /\ reading' = next_read_index_
    /\ consumer' = "peeked"
    /\ UNCHANGED <<taken, next_read_index_, num_elements_, producerVars>>

\* Processing, logging or sending the message through the pointer.
Use ==
    /\ consumer = "peeked"
    /\ taken' = <<store_[reading]>>
    /\ consumer' = "used"
    /\ UNCHANGED <<reading, next_read_index_, num_elements_, producerVars>>

AdvanceReadIndex ==
    /\ consumer = "used"
    /\ next_read_index_' = Following(next_read_index_)
    /\ consumer' = "advanced"
    /\ UNCHANGED <<reading, taken, num_elements_, producerVars>>

\* The ASSERT that num_elements_ is not 0, and num_elements_-- .
Release ==
    /\ consumer = "advanced"
    /\ num_elements_ # 0
    /\ num_elements_' = num_elements_ - 1
    /\ consumer' = IF ReadAfterRelease THEN "released" ELSE "idle"
    /\ UNCHANGED <<reading, taken, next_read_index_, producerVars>>

\* MarketDataPublisher::run: next_write->me_market_update_ = *market_update
\* after updateReadIndex().  What it copies is store_[reading].
UseAgain ==
    /\ consumer = "released"
    /\ consumer' = "idle"
    /\ UNCHANGED <<reading, taken, next_read_index_, num_elements_, producerVars>>
----------------------------------------------------------------------------
Produce == FinishWrite \/ AdvanceWriteIndex \/ Publish

Consume == GetNextToRead \/ Use \/ AdvanceReadIndex \/ Release \/ UseAgain

Next == (\E m \in Messages : BeginWrite(m)) \/ Produce \/ Consume

\* The consumers poll for as long as run_ is set and the producers return from
\* their calls; nothing obliges a producer to begin another one.
Fairness == WF_vars(Produce) /\ WF_vars(Consume)

Spec == Init /\ [][Next]_vars /\ Fairness
----------------------------------------------------------------------------
TypeOK ==
    /\ store_ \in [Slots -> Messages \cup {Torn}]
    /\ next_write_index_ \in Slots
    /\ next_read_index_ \in Slots
    /\ num_elements_ \in 0 .. MaxBacklog
    /\ producer \in {"idle", "writing", "written", "advanced"}
    /\ input \in Messages
    /\ consumer \in {"idle", "peeked", "used", "advanced", "released"}
    /\ reading \in Slots
    /\ \/ taken = <<>>
       \/ \E m \in Messages \cup {Torn} : taken = <<m>>

\* The producer never assigns to a slot that the consumer is still entitled to
\* read: one whose message is published and not released, or, for a consumer
\* that reads after the release, the one just released.
NoOverwrite ==
    producer = "writing" =>
        /\ consumer # "idle" => reading # next_write_index_
        /\ consumer # "advanced" => \A k \in 0 .. num_elements_ - 1 :
              next_write_index_ # (next_read_index_ + k) % Capacity

\* MarketDataPublisher hands the snapshot synthesizer the message it has sent
\* to the incremental stream, although it copies it out of a slot it has
\* already given back to the matching engine.
SecondReadIsTheSame ==
    consumer = "released" => taken = <<store_[reading]>>

\* The ring read from the consumer's position on is the queue of messages
\* published and not taken: it implements FIFOChannel, liveness included.
Taken == consumer \in {"used", "advanced"}
chan ==
    [i \in 1 .. num_elements_ - (IF Taken THEN 1 ELSE 0) |->
        store_[(next_read_index_ + i - (IF consumer = "used" THEN 0 ELSE 1))
                   % Capacity]]
Channel == INSTANCE FIFOChannel
ImplementsFIFOChannel == Channel!Spec
=============================================================================
