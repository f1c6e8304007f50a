---------------------------- MODULE StockRequests ----------------------------
(***************************************************************************)
(* What 'stock.reserved' messages carry, and the demand the transaction of *)
(* StockReservation serves: the lines, normalised.                         *)
(***************************************************************************)
EXTENDS StockReservation, ReservationItems

CONSTANT Lines  \* the lists of lines that may arrive

\* Ids are ranks in the sorting order of ids; a missing id is NoProduct.
ASSUME LinesAssumption == Lines \subseteq Seq([productId : Nat, quantity : Int])

\* What the transaction does with a product: the quantity of the item that names it.
DemandOf(lines) ==
    LET items == NormalizeReservationItems(lines)
    IN  [p \in Products |->
            IF \E i \in DOMAIN items : items[i].productId = p
            THEN items[CHOOSE i \in DOMAIN items : items[i].productId = p].quantity
            ELSE 0]

\* The units a list of lines asks of a product, by definition.
UnitsAsked(lines, p) ==
    SumFunction([i \in {i \in DOMAIN lines : lines[i].productId = p} |-> lines[i].quantity])

\* The items name each product of the lines once, in ascending order, with the
\* units of all its lines.
Normalized(lines, items) ==
    /\ \A i, j \in DOMAIN items : i < j => items[i].productId < items[j].productId
    /\ {items[i].productId : i \in DOMAIN items} = {lines[i].productId : i \in DOMAIN lines}
    /\ \A i \in DOMAIN items : items[i].quantity = UnitsAsked(lines, items[i].productId)

\* Whatever the order of the lines and however often a product is repeated, the
\* normalised list names each product asked for once, in ascending order, with
\* the units of all its lines (product.service.ts, normalizeReservationItems).
\* Asked of every list that may arrive, while none has.
NormalizedOncePerProduct ==
    (\A r \in Requests : phase[r] = "idle") =>
        \A lines \in {ls \in Lines : ~Malformed(ls)} :
            Normalized(lines, NormalizeReservationItems(lines))

=============================================================================
