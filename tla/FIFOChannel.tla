---------------------------- MODULE FIFOChannel ----------------------------
(***************************************************************************)
(* What the two threads at the ends of an LFQueue count on: messages come  *)
(* out whole, once each, in the order they were published, and while the   *)
(* reader runs none stays behind for ever.                                 *)
(***************************************************************************)
EXTENDS Sequences

CONSTANT Messages

VARIABLES
    chan,       \* published and not yet taken, oldest first
    taken       \* the message the reader took last; <<>> before the first

Init == chan = <<>> /\ taken = <<>>

Publish(m) == chan' = Append(chan, m) /\ UNCHANGED taken

Take ==
    /\ chan # <<>>
    /\ taken' = <<Head(chan)>>
    /\ chan' = Tail(chan)

Next == Take \/ \E m \in Messages : Publish(m)

Spec == Init /\ [][Next]_<<chan, taken>> /\ WF_<<chan, taken>>(Take)
=============================================================================
