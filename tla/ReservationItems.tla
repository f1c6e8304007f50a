--------------------------- MODULE ReservationItems ---------------------------
(***************************************************************************)
(* normalizeReservationItems of product.service.ts: the lines of a         *)
(* request, in which a product may occur several times, become one         *)
(* quantity per product, listed in ascending order of product id.          *)
(***************************************************************************)
EXTENDS Integers, SequencesExt

\* The id of a line that names no product.
NoProduct == 0

\* The loop throws at the first line without product, or with a quantity that is
\* not a positive integer.
Malformed(lines) ==
    \E i \in DOMAIN lines : lines[i].productId = NoProduct \/ lines[i].quantity <= 0

\* A bug: the quantity of a repeated product replaces the earlier one.
BugForgetfulAddLine(aggregated, line) ==
    [p \in DOMAIN aggregated \cup {line.productId} |->
        IF p = line.productId THEN line.quantity ELSE aggregated[p]]

\* aggregated.set(id, (aggregated.get(id) || 0) + quantity)
AddLine(aggregated, line) ==
    LET old == IF line.productId \in DOMAIN aggregated THEN aggregated[line.productId] ELSE 0
    IN  [p \in DOMAIN aggregated \cup {line.productId} |->
            IF p = line.productId THEN old + line.quantity ELSE aggregated[p]]

\* The loop over the lines, from the first to the last.
Aggregated(lines) == FoldLeft(AddLine, << >>, lines)

\* The product ids of the map, sorted.
Ascending(ids) ==
    CHOOSE s \in [1..Cardinality(ids) -> ids] : \A i, j \in DOMAIN s : i < j => s[i] < s[j]

NormalizeReservationItems(lines) ==
    LET total == Aggregated(lines)
        ids == Ascending(DOMAIN total)
    IN  [i \in DOMAIN ids |-> [productId |-> ids[i], quantity |-> total[ids[i]]]]

=============================================================================
