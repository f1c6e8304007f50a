-------------------------- MODULE MCStockReservation --------------------------
(***************************************************************************)
(* A small instance of StockReservation, and of ReservationItems.          *)
(***************************************************************************)
EXTENDS StockRequests

\* Carts over three products, each pair of neighbours once: the instance in which
\* three transactions could wait for each other in a ring.  One repeats a product.
RingCarts == { << [productId |-> 1, quantity |-> 1], [productId |-> 2, quantity |-> 1],
                  [productId |-> 1, quantity |-> 1] >>,
               << [productId |-> 2, quantity |-> 1], [productId |-> 3, quantity |-> 1] >>,
               << [productId |-> 3, quantity |-> 1], [productId |-> 1, quantity |-> 1] >> }

RingDemands == {DemandOf(c) : c \in {c \in RingCarts : ~Malformed(c)}}

MCLines == BoundedSeq([productId : Products \cup {NoProduct}, quantity : 0 .. 2], 3)

=============================================================================
