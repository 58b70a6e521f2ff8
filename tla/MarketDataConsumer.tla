------------------------- MODULE MarketDataConsumer -------------------------
(***************************************************************************)
(* trading/market_data/market_data_consumer.cpp: turns the two multicast   *)
(* streams back into one stream of updates for the strategy.               *)
(*                                                                         *)
(* While the numbers of the incremental stream follow each other, updates  *)
(* are passed on as they come.  At the first gap the consumer goes into    *)
(* recovery: it joins the snapshot stream and collects the messages of     *)
(* both in two maps until checkSnapshotSync finds them complete.           *)
(*                                                                         *)
(* McastSocket::init is a stub; init and join are taken to open the socket *)
(* and leave to close it, as their callers expect.                         *)
(***************************************************************************)
EXTENDS Integers, Sequences, FiniteSets, FiniteSetsExt

VARIABLES
    next_exp_inc_seq_num_,
    in_recovery_,
    joined,                     \* the snapshot socket is open
    snapshot_queued_msgs_,      \* number -> update, both
    incremental_queued_msgs_,
    inbound,                    \* what recvCallback has still to look at
    forwarded,                  \* all that incoming_md_updates_ was given, numbered
    consumer                    \* "running", or "crashed"

vars == <<next_exp_inc_seq_num_, in_recovery_, joined, snapshot_queued_msgs_,
          incremental_queued_msgs_, inbound, forwarded, consumer>>

Nothing == [is_snapshot |-> FALSE, messages |-> <<>>]
NoMessages == <<>>      \* the map without entries

Init ==
    /\ next_exp_inc_seq_num_ = 1
    /\ in_recovery_ = FALSE
    /\ joined = FALSE
    /\ snapshot_queued_msgs_ = NoMessages
    /\ incremental_queued_msgs_ = NoMessages
    /\ inbound = Nothing
    /\ forwarded = <<>>
    /\ consumer = "running"

\* sendAndRecv has read a datagram.  Nothing is read again before recvCallback
\* has gone through all of it.  (The socket of the snapshot stream is open in
\* recovery only, so that no datagram of it is ignored.)
Receive(is_snapshot, messages) ==
    /\ consumer = "running"
    /\ inbound = Nothing
    /\ is_snapshot => joined
    /\ inbound' = [is_snapshot |-> is_snapshot, messages |-> messages]
    /\ UNCHANGED <<next_exp_inc_seq_num_, in_recovery_, joined, snapshot_queued_msgs_,
                   incremental_queued_msgs_, forwarded, consumer>>

Request == Head(inbound.messages)
NextRequest ==
    inbound' = IF Len(inbound.messages) = 1 THEN Nothing
               ELSE [inbound EXCEPT !.messages = Tail(@)]
Handling == consumer = "running" /\ inbound # Nothing

\* Defect for the mutation runs: an update is passed on whatever its number.
PassOnAnything ==
    /\ Handling
    /\ ~in_recovery_
    /\ next_exp_inc_seq_num_' = next_exp_inc_seq_num_ + 1
    /\ forwarded' = Append(forwarded, Request)
    /\ NextRequest
    /\ UNCHANGED <<in_recovery_, joined, snapshot_queued_msgs_,
                   incremental_queued_msgs_, consumer>>

\* recvCallback, the update expected.
PassOn ==
    /\ Handling
    /\ ~in_recovery_
    /\ Request.seq_num_ = next_exp_inc_seq_num_
    /\ next_exp_inc_seq_num_' = next_exp_inc_seq_num_ + 1
    /\ forwarded' = Append(forwarded, Request)
    /\ NextRequest
    /\ UNCHANGED <<in_recovery_, joined, snapshot_queued_msgs_,
                   incremental_queued_msgs_, consumer>>

\* A map with the request's entry in it, in place of one of the same number.
With(messages, request) ==
    [n \in DOMAIN messages \cup {request.seq_num_} |->
        IF n = request.seq_num_ THEN request.me_market_update_ ELSE messages[n]]

\* Defect: the flag of recovery is not kept.
StartAndForget ==
    /\ Handling
    /\ ~in_recovery_
    /\ Request.seq_num_ # next_exp_inc_seq_num_
    /\ joined' = TRUE
    /\ snapshot_queued_msgs_' = NoMessages
    /\ incremental_queued_msgs_' = With(NoMessages, Request)
    /\ NextRequest
    /\ UNCHANGED <<in_recovery_, next_exp_inc_seq_num_, forwarded, consumer>>

\* recvCallback, another one: startSnapshotSync, and the update is queued.
StartSnapshotSync ==
    /\ Handling
    /\ ~in_recovery_
    /\ Request.seq_num_ # next_exp_inc_seq_num_
    /\ in_recovery_' = TRUE
    /\ joined' = TRUE
    /\ snapshot_queued_msgs_' = NoMessages
    /\ incremental_queued_msgs_' = With(NoMessages, Request)
    /\ NextRequest
    /\ UNCHANGED <<next_exp_inc_seq_num_, forwarded, consumer>>
----------------------------------------------------------------------------
(* Recovery: queueMessage, and checkSnapshotSync on the two maps it leaves.*)

\* queueMessage's maps.  A snapshot message seen before empties its map first.
SnapshotMessages ==
    IF ~inbound.is_snapshot THEN snapshot_queued_msgs_
    ELSE IF Request.seq_num_ \in DOMAIN snapshot_queued_msgs_ THEN With(NoMessages, Request)
         ELSE With(snapshot_queued_msgs_, Request)
IncrementalMessages ==
    IF inbound.is_snapshot THEN incremental_queued_msgs_
    ELSE With(incremental_queued_msgs_, Request)

Started(snapshot) ==
    /\ DOMAIN snapshot # {}
    /\ snapshot[Min(DOMAIN snapshot)].type_ = "SNAPSHOT_START"
Ended(snapshot) == snapshot[Max(DOMAIN snapshot)].type_ = "SNAPSHOT_END"

\* Defect: the number the snapshot includes is expected again.
FirstMissingIncluded(snapshot) == snapshot[Max(DOMAIN snapshot)].order_id_

\* The number expected after the snapshot.
FirstMissing(snapshot) == snapshot[Max(DOMAIN snapshot)].order_id_ + 1

\* The queued numbers that follow it without a gap, and whether that is all.
Following(snapshot, incrementals) ==
    {n \in DOMAIN incrementals :
        /\ n >= FirstMissing(snapshot)
        /\ FirstMissing(snapshot) .. n \subseteq DOMAIN incrementals}
Complete(snapshot, incrementals) ==
    \A n \in DOMAIN incrementals :
        n < FirstMissing(snapshot) \/ n \in Following(snapshot, incrementals)

\* checkSnapshotSync, before the snapshot has a start and an end.
AwaitSnapshot ==
    /\ Handling
    /\ in_recovery_
    /\ ~(Started(SnapshotMessages) /\ Ended(SnapshotMessages))
    /\ snapshot_queued_msgs_' =
          IF Started(SnapshotMessages) THEN SnapshotMessages ELSE NoMessages
    /\ incremental_queued_msgs_' = IncrementalMessages
    /\ NextRequest
    /\ UNCHANGED <<next_exp_inc_seq_num_, in_recovery_, joined, forwarded, consumer>>

\* checkSnapshotSync, with a gap among the incremental messages.
DropIncrementals ==
    LET snapshot == SnapshotMessages
        incrementals == IncrementalMessages
    IN  /\ Handling
        /\ in_recovery_
        /\ Started(snapshot) /\ Ended(snapshot)
        /\ ~Complete(snapshot, incrementals)
        /\ next_exp_inc_seq_num_' =
              FirstMissing(snapshot) + Cardinality(Following(snapshot, incrementals))
        /\ snapshot_queued_msgs_' = snapshot
        /\ incremental_queued_msgs_' = NoMessages
        /\ NextRequest
        /\ UNCHANGED <<in_recovery_, joined, forwarded, consumer>>

\* checkSnapshotSync, from its first iteration, over SNAPSHOT_START, to the end:
\* nothing but incremental messages have been collected in final_events when
\* they are passed on, the maps are emptied and the socket is closed.  The loop
\* then goes on over the map it has emptied: it ends, or the process does.
Synchronise ==
    LET snapshot == SnapshotMessages
        incrementals == IncrementalMessages
        run == Cardinality(Following(snapshot, incrementals))
        final_events ==
            [i \in 1 .. run |-> LET n == FirstMissing(snapshot) + i - 1 IN
                [seq_num_ |-> n, me_market_update_ |-> incrementals[n]]]
    IN  /\ Handling
        /\ in_recovery_
        /\ Started(snapshot) /\ Ended(snapshot)
        /\ Complete(snapshot, incrementals)
        /\ forwarded' = forwarded \o final_events
        /\ next_exp_inc_seq_num_' = FirstMissing(snapshot) + run
        /\ snapshot_queued_msgs_' = NoMessages
        /\ incremental_queued_msgs_' = NoMessages
        /\ in_recovery_' = TRUE
        /\ joined' = FALSE
        /\ NextRequest
        /\ consumer' \in {"running", "crashed"}

Handle == PassOn \/ StartSnapshotSync \/ AwaitSnapshot \/ DropIncrementals \/ Synchronise
=============================================================================
