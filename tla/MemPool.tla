------------------------------ MODULE MemPool ------------------------------
(***************************************************************************)
(* common/mem_pool.hpp: the pool that MEOrderBook and SnapshotSynthesizer  *)
(* take their MEOrder, MEOrdersAtPrice and MEMarketUpdate objects from.    *)
(*                                                                         *)
(* A block is its index in store_.  The objects themselves are left out;   *)
(* what is kept is which blocks are free, where the next one will be taken *)
(* and which ASSERT, if any, has ended the process.  The pool is used by   *)
(* one thread, so each of its two operations is one step.  Names that      *)
(* LFQueue has too begin with Pool, since the proofs are about both.       *)
(***************************************************************************)
EXTENDS Integers

CONSTANT NumElems       \* the constructor's num_elems

ASSUME NumElemsAssumption == NumElems \in Nat \ {0}     \* its ASSERT

VARIABLES
    is_free_,           \* store_[i].is_free_
    next_free_index_,
    status              \* "running", or the ASSERT that ended the process

poolVars == <<is_free_, next_free_index_, status>>

Indices == 0 .. NumElems - 1

PoolInit ==
    /\ is_free_ = [i \in Indices |-> TRUE]
    /\ next_free_index_ = 0
    /\ status = "running"

\* The blocks the scan of updateNextFreeIndex walks over on its way round
\* from block "from" to block "to".
Skipped(from, to) ==
    IF from <= to THEN from .. to - 1
                  ELSE (from .. NumElems - 1) \cup (0 .. to - 1)

\* Defects for the mutation runs: the increment without its wrap-around, the
\* increment without the loop around it, and a scan that ends with the store.
WrapPastEnd(free) ==
    /\ next_free_index_' = IF free[next_free_index_] THEN next_free_index_
                                                    ELSE next_free_index_ + 1
    /\ UNCHANGED status
StepOnce(free) ==
    /\ next_free_index_' = (next_free_index_ + 1) % NumElems
    /\ UNCHANGED status

ScanToTheEnd(free) ==
    \/ \E i \in next_free_index_ .. NumElems - 1 :
          /\ free[i]
          /\ \A j \in Skipped(next_free_index_, i) : ~free[j]
          /\ next_free_index_' = i
          /\ UNCHANGED status
    \/ /\ \A i \in next_free_index_ .. NumElems - 1 : ~free[i]
       /\ status' = "out of space"
       /\ UNCHANGED next_free_index_

\* updateNextFreeIndex: stop at the first free block; back at the start, the
\* scan ends the process with "Memory Pool out of space".
UpdateNextFreeIndex(free) ==
    \/ \E i \in Indices :
          /\ free[i]
          /\ \A j \in Skipped(next_free_index_, i) : ~free[j]
          /\ next_free_index_' = i
          /\ UNCHANGED status
    \/ /\ \A i \in Indices : ~free[i]
       /\ status' = "out of space"
       /\ UNCHANGED next_free_index_

\* allocate(): the caller gets the block at the old next_free_index_, which an
\* ASSERT expects to be free.
Allocate ==
    /\ status = "running"
    /\ IF is_free_[next_free_index_]
       THEN /\ is_free_' = [is_free_ EXCEPT ![next_free_index_] = FALSE]
            /\ UpdateNextFreeIndex(is_free_')
       ELSE /\ status' = "expected free"
            /\ UNCHANGED <<is_free_, next_free_index_>>

\* deallocate(elem), for an element its caller still holds.
Deallocate(i) ==
    /\ status = "running"
    /\ ~is_free_[i]
    /\ is_free_' = [is_free_ EXCEPT ![i] = TRUE]
    /\ UNCHANGED <<next_free_index_, status>>

PoolNext == Allocate \/ \E i \in Indices : Deallocate(i)

PoolSpec == PoolInit /\ [][PoolNext]_poolVars
----------------------------------------------------------------------------
PoolTypeOK ==
    /\ is_free_ \in [Indices -> BOOLEAN]
    /\ next_free_index_ \in Indices
    /\ status \in {"running", "out of space", "expected free"}

\* allocate() never finds the block it is about to hand out in use (the ASSERT
\* "Expected free ObjectBlock at index"), whatever its callers give back, and
\* in whatever order, between two allocations: no order or price level is ever
\* constructed over a live one.
NextIsFree ==
    /\ status = "running" => is_free_[next_free_index_]
    /\ status # "expected free"

\* The pool gives up with "Memory Pool out of space" only when no block is free:
\* its scan finds every block that has been given back, wherever it starts.
\* (It gives up in the call that has just been given the last block, so that a
\* pool of NumElems serves NumElems - 1.)
OutOfSpaceOnlyWhenFull ==
    status = "out of space" => \A i \in Indices : ~is_free_[i]
=============================================================================
