------------------------------ MODULE MCCheckout ------------------------------
(***************************************************************************)
(* A small instance of Checkout: two checkouts compete for the last unit of*)
(* a product, and the first is tried twice.                                *)
(***************************************************************************)
EXTENDS Checkout, FiniteSetsExt

CONSTANTS a1, a2, a3, k1, k2, p1, p2

MCKeyOf == [a \in Attempts |-> IF a = a3 THEN k2 ELSE k1]
MCSupply == [p \in Products |-> 1]
MCCartOf == [k \in Keys |-> [p \in Products |-> IF k = k1 \/ p = p1 THEN 1 ELSE 0]]

\* The units of the orders whose customer was given a link and has paid.
UnitsSold(p) ==
    MapThenSumSet(LAMBDA o : IF p \in o.lines THEN CartOf[o.key][p] ELSE 0,
                  {o \in orders : o.id \in paid \cap links})

\* No more units are sold than there are (README: "Stock updates are handled
\* atomically to prevent overselling under high load").
SoldWithinSupply == \A p \in Products : UnitsSold(p) <= Supply[p]

=============================================================================
