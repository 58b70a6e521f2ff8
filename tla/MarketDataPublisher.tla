------------------------ MODULE MarketDataPublisher ------------------------
(***************************************************************************)
(* exchange/market_data/market_data_publisher.cpp: numbers the matching    *)
(* engine's updates, sends them to the incremental multicast stream and    *)
(* hands them on to the snapshot synthesizer.                              *)
(*                                                                         *)
(* run() gives the slot of an update back to the engine's queue before it  *)
(* copies it for the synthesizer.  The slot stays the first element of     *)
(* outgoing_md_updates_ until then, "released" says that it has been given *)
(* back: what the engine writes into it shows (see OverrunQueue).          *)
(***************************************************************************)
EXTENDS Integers, Sequences, OverrunQueue

CONSTANT ME_MAX_MARKET_UPDATES      \* size of both queues

VARIABLES
    outgoing_md_updates_,   \* from the matching engine
    released,               \* its first slot has been given back
    next_inc_seq_num_,
    incremental,            \* everything sent to the incremental stream
    snapshot_md_updates_    \* to the snapshot synthesizer

Init ==
    /\ outgoing_md_updates_ = <<>>
    /\ released = FALSE
    /\ next_inc_seq_num_ = 1
    /\ incremental = <<>>
    /\ snapshot_md_updates_ = <<>>

Waiting == Len(outgoing_md_updates_) - (IF released THEN 1 ELSE 0)

\* What MatchingEngine::sendMarketUpdate does, as the publisher sees it.
Receive(updates) ==
    /\ outgoing_md_updates_' =
          Enqueue(outgoing_md_updates_, ME_MAX_MARKET_UPDATES, updates)
    /\ UNCHANGED <<released, next_inc_seq_num_, incremental, snapshot_md_updates_>>

\* The first half of the loop's body: send, and updateReadIndex.
Send ==
    /\ outgoing_md_updates_ # <<>>
    /\ ~released
    /\ incremental' = Append(incremental,
          [seq_num_ |-> next_inc_seq_num_,
           me_market_update_ |-> Head(outgoing_md_updates_)])
    /\ released' = TRUE
    /\ UNCHANGED <<outgoing_md_updates_, next_inc_seq_num_, snapshot_md_updates_>>

\* Defects for the mutation runs: the loop does not go back to polling; the
\* number is taken after it has been increased.
ForwardAgain ==
    /\ released
    /\ snapshot_md_updates_' = Enqueue(snapshot_md_updates_, ME_MAX_MARKET_UPDATES,
          <<[seq_num_ |-> next_inc_seq_num_,
             me_market_update_ |-> Head(outgoing_md_updates_)]>>)
    /\ next_inc_seq_num_' = next_inc_seq_num_ + 1
    /\ outgoing_md_updates_' = Tail(outgoing_md_updates_)
    /\ UNCHANGED <<released, incremental>>
ForwardNextNumber ==
    /\ released
    /\ snapshot_md_updates_' = Enqueue(snapshot_md_updates_, ME_MAX_MARKET_UPDATES,
          <<[seq_num_ |-> next_inc_seq_num_ + 1,
             me_market_update_ |-> Head(outgoing_md_updates_)]>>)
    /\ next_inc_seq_num_' = next_inc_seq_num_ + 1
    /\ outgoing_md_updates_' = Tail(outgoing_md_updates_)
    /\ released' = FALSE
    /\ UNCHANGED incremental

\* The second half: the copy for the synthesizer, *market_update read again.
Forward ==
    /\ released
    /\ snapshot_md_updates_' = Enqueue(snapshot_md_updates_, ME_MAX_MARKET_UPDATES,
          <<[seq_num_ |-> next_inc_seq_num_,
             me_market_update_ |-> Head(outgoing_md_updates_)]>>)
    /\ next_inc_seq_num_' = next_inc_seq_num_ + 1
    /\ outgoing_md_updates_' = Tail(outgoing_md_updates_)
    /\ released' = FALSE
    /\ UNCHANGED incremental

Next == Send \/ Forward
=============================================================================
