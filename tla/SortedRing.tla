----------------------------- MODULE SortedRing -----------------------------
(***************************************************************************)
(* The shape of the order book's intrusive lists: circular, doubly linked, *)
(* with a head, and sorted from the head on.  The price levels of a side   *)
(* are linked this way (best price first) and so are the orders of a level *)
(* (first come first).                                                     *)
(***************************************************************************)
EXTENDS Integers

\* The members of S are linked by next and prev in strictly ascending order of
\* key, from head round to head again, and none is left out: the successor of a
\* member is the one with the next larger key, or head if there is none.
IsSortedRing(S, key, next, prev, head) ==
    /\ head \in S
    /\ \A x \in S :
          /\ next[x] \in S /\ prev[next[x]] = x
          /\ prev[x] \in S /\ next[prev[x]] = x
          /\ key[head] <= key[x]
          /\ next[x] # head => key[x] < key[next[x]]
    /\ \A x, y \in S :
          key[x] < key[y] => next[x] # head /\ key[next[x]] <= key[y]
=============================================================================
