--------------------------- MODULE PriceTimeBook ---------------------------
(***************************************************************************)
(* What an order book promises, without its data structures: orders rest   *)
(* until they are filled or cancelled, and an incoming order trades, while *)
(* it crosses, with the resting order of the other side that has the best  *)
(* price and, at that price, has waited longest.                           *)
(***************************************************************************)
EXTENDS Integers

CONSTANTS Clients, Oids, Prices, Qtys

VARIABLES
    resting,        \* a set of orders, named by their market order ids
    incoming,       \* the order being matched; NoOrder between requests
    nextId          \* ids are given out in order of arrival

vars == <<resting, incoming, nextId>>

Order(id, c, o, side, price, qty) ==
    [id |-> id, client |-> c, oid |-> o, side |-> side, price |-> price, qty |-> qty]

NoOrder == Order(0, 0, 0, "NONE", 0, 0)

Opposite(side) == IF side = "BUY" THEN "SELL" ELSE "BUY"

\* Price p is better than q for an order on that side to trade with.
Better(side, p, q) == IF side = "BUY" THEN p > q ELSE p < q

Crosses(o, r) == r.side = Opposite(o.side) /\ ~Better(r.side, o.price, r.price)

Precedes(r, s) ==
    \/ Better(r.side, r.price, s.price)
    \/ r.price = s.price /\ r.id < s.id

\* The order of the other side that is first in line for incoming order o.
FirstInLine(o, r) ==
    /\ r \in resting
    /\ r.side = Opposite(o.side)
    /\ \A s \in resting : s.side = r.side /\ s # r => Precedes(r, s)
----------------------------------------------------------------------------
Init == resting = {} /\ incoming = NoOrder /\ nextId = 1

Accept(c, o, side, price, qty) ==
    /\ incoming = NoOrder
    /\ incoming' = Order(nextId, c, o, side, price, qty)
    /\ nextId' = nextId + 1
    /\ UNCHANGED resting

Trade(r) ==
    /\ incoming.qty > 0
    /\ FirstInLine(incoming, r)
    /\ Crosses(incoming, r)
    /\ LET fill == IF incoming.qty < r.qty THEN incoming.qty ELSE r.qty
       IN /\ incoming' = [incoming EXCEPT !.qty = @ - fill]
          /\ resting' = (resting \ {r}) \cup
                (IF fill = r.qty THEN {} ELSE {[r EXCEPT !.qty = @ - fill]})
    /\ UNCHANGED nextId

Rest ==
    /\ incoming # NoOrder
    /\ \A r \in resting : ~Crosses(incoming, r)
    /\ incoming.qty > 0
    /\ resting' = resting \cup {incoming}
    /\ incoming' = NoOrder
    /\ UNCHANGED nextId

Done ==
    /\ incoming # NoOrder
    /\ incoming.qty = 0
    /\ incoming' = NoOrder
    /\ UNCHANGED <<resting, nextId>>

Cancel(r) ==
    /\ incoming = NoOrder
    /\ r \in resting
    /\ resting' = resting \ {r}
    /\ UNCHANGED <<incoming, nextId>>

Next ==
    \/ \E c \in Clients, o \in Oids, side \in {"BUY", "SELL"}, p \in Prices, q \in Qtys :
          Accept(c, o, side, p, q)
    \/ \E r \in resting : Trade(r) \/ Cancel(r)
    \/ Rest
    \/ Done

Spec == Init /\ [][Next]_vars
=============================================================================
