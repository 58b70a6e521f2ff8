---------------------------- MODULE OverrunQueue ----------------------------
(* common/lf_queue.hpp between its operations, for the modules that compose *)
(* threads: a queue is the sequence of messages published and not yet       *)
(* released, the next to be read first.                                     *)
EXTENDS Integers, Sequences

\* The messages ms published one after the other into a ring of that capacity.
\* updateWriteIndex does not look whether there is room: a message goes into
\* the slot of the one capacity places before it, even if that still waits.
Enqueue(queue, capacity, ms) ==
    LET all == queue \o ms
        LastInSlotOf(i) == i + capacity * ((Len(all) - i) \div capacity)
    IN  [i \in 1 .. Len(all) |-> all[LastInSlotOf(i)]]
=============================================================================
